---------------------------- MODULE ModelCacheProofs ----------------------------
(***************************************************************************)
(* A model that is reused is the one that prep() would make, for all sets  *)
(* of reactants in which the description of a model tells (DescriptionTells*)
(* of ModelCache).  The invariant: unless the description is to be         *)
(* disregarded (force_prep), or there is no array, it describes the        *)
(* reactants that the unknowns and lists were made for.                    *)
(*                                                                         *)
(* And the vector of unknowns is long enough for all reactants: what the   *)
(* parts of the list of unknowns can at most be long, added up, is what    *)
(* setup_unknowns counts.                                                  *)
(***************************************************************************)
EXTENDS ModelCache, FiniteSetTheorems, SequenceTheorems, TLAPS

States == {"initial", "reaction"}

\* Unknowns and lists that prep() can have left.
Shape ==
  \E us \in {<<>>} \cup AllUnknowns, r \in -1..MaxReads : \E g, s :
    x = [unknowns |-> us, gas |-> g, surface |-> s, reads |-> r]

Typed ==
  /\ pc \in {"idle", "prep", "setup", "solve"}
  /\ state \in States
  /\ use \in Uses
  /\ reads \in 0..MaxReads
  /\ numeric \in BOOLEAN
  /\ Shape
  /\ array \in {"none", "model", "inverse"}
  /\ torn \in BOOLEAN
  /\ known \in {{}} \cup {Totals(u) : u \in Uses}
  /\ "force" \in DOMAIN last

\* The description is of the reactants u, but for force_prep.
Describes(u, num) == last = Description(u, num, last.force)

Made == Structure(use, state, numeric, reads)

\* A description that may be used is that of the model that is there.
Reusable ==
  pc \in {"idle", "prep"} /\ ~torn /\ array # "none" /\ ~last.force =>
    /\ array = "model"
    /\ \E u \in Uses, num \in BOOLEAN : x = Structure(u, "reaction", num, reads) /\ Describes(u, num)

Current ==
  /\ pc \in {"idle", "prep"} /\ ~torn => array # "inverse"
  /\ Reusable
  /\ pc = "setup" => array = "none" /\ x = Unfinished(Made) /\ (~last.force => state = "reaction")
  /\ pc = "solve" /\ ~torn =>
       /\ x = Made /\ array = "model"
       /\ Describes(use, numeric) /\ (~last.force => state = "reaction")

--------------------------------------------------------------------------------
(* Operators *)

\* The unknowns do not depend on how often definitions were read.
LEMMA UnknownsOfStructure ==
  ASSUME NEW u \in Uses, NEW st \in States, NEW num \in BOOLEAN, NEW r
  PROVE  Structure(u, st, num, r).unknowns \in AllUnknowns
<1>1. Structure(u, st, num, r).unknowns = Structure(u, st, num, 0).unknowns
  BY Zenon DEF Structure
<1>2. Structure(u, st, num, 0).unknowns \in AllUnknowns
  BY SMT DEF AllUnknowns, States
<1> QED
  BY <1>1, <1>2

\* What is made has the shape of unknowns and lists.
LEMMA ShapeOfStructure ==
  ASSUME NEW u \in Uses, NEW st \in States, NEW num \in BOOLEAN, NEW r \in 0..MaxReads
  PROVE  \E us \in {<<>>} \cup AllUnknowns, q \in -1..MaxReads : \E g, s :
           Structure(u, st, num, r) = [unknowns |-> us, gas |-> g, surface |-> s, reads |-> q]
<1>1. PICK us, g, s : Structure(u, st, num, r)
                        = [unknowns |-> us, gas |-> g, surface |-> s, reads |-> r]
  BY Zenon DEF Structure
<1>2. us \in AllUnknowns
  BY <1>1, UnknownsOfStructure
<1>3. r \in -1..MaxReads
  BY ModelAssumption
<1> QED
  BY <1>1, <1>2, <1>3

\* So has what is not finished.
LEMMA ShapeOfUnfinished ==
  ASSUME NEW y, NEW us \in {<<>>} \cup AllUnknowns, NEW r, NEW g, NEW s,
         y = [unknowns |-> us, gas |-> g, surface |-> s, reads |-> r]
  PROVE  \E vs \in {<<>>} \cup AllUnknowns, q \in -1..MaxReads : \E f, t :
           Unfinished(y) = [unknowns |-> vs, gas |-> f, surface |-> t, reads |-> q]
<1>1. Unfinished(y) = [unknowns |-> us, gas |-> g, surface |-> s, reads |-> -1]
  BY DEF Unfinished
<1>2. -1 \in -1..MaxReads
  BY ModelAssumption
<1> QED
  BY <1>1, <1>2

\* A description that fits the reactants in use is that of their equations.
LEMMA FittingModel ==
  ASSUME DescriptionTells, NEW u \in Uses, NEW v \in Uses, NEW num \in BOOLEAN, NEW before \in BOOLEAN,
         NEW force, Fits(Description(v, before, force), u, num), NEW r \in 0..MaxReads
  PROVE  Structure(v, "reaction", before, r) = Structure(u, "reaction", num, r)
<1>1. Fits(Description(v, before, FALSE), u, num)
  BY DEF Fits, Description
<1> QED
  BY <1>1, ZenonT(60) DEF DescriptionTells

--------------------------------------------------------------------------------
(* The length of a flattened list *)

\* A set of numbers that has a member has a smallest.
LEMMA SmallestNumber ==
  ASSUME NEW N \in SUBSET Nat, N # {}
  PROVE  \E n \in N : \A m \in N : n <= m
<1>1. PICK n \in N : \A m \in N : ~(<<m, n>> \in OpToRel(<, Nat))
  BY NatLessThanWellFounded, WFMin
<1>2. \A m \in N : m < n => <<m, n>> \in OpToRel(<, Nat)
  BY Zenon DEF OpToRel
<1>3. \A m \in N : ~(m < n)
  BY <1>1, <1>2
<1> QED
  BY <1>3

\* The prefixes that FlattenSeq goes through: each is the one before it and a list more.
LEMMA FlattenDefined ==
  ASSUME NEW S, NEW ss \in Seq(Seq(S)), Len(ss) # 0
  PROVE  \E f \in [1..Len(ss) -> Seq(S)] :
           /\ FlattenSeq(ss) = f[Len(ss)]
           /\ \A i \in 1..Len(ss) : f[i] = IF i = 1 THEN ss[i] ELSE f[i - 1] \o ss[i]
<1> DEFINE n == Len(ss)
           Step(f, i) == IF i = 1 THEN ss[i] ELSE f[i - 1] \o ss[i]
           Is(f, m) == \A i \in 1..m : f[i] = Step(f, i)
           Missing == {m \in 1..n : \A f \in [1..m -> Seq(S)] : ~Is(f, m)}
<1>1. n \in Nat \ {0} /\ \A i \in 1..n : ss[i] \in Seq(S)
  OBVIOUS
<1>2. Missing = {}
  <2> SUFFICES ASSUME Missing # {} PROVE FALSE
    OBVIOUS
  <2>0. Missing \in SUBSET Nat
    BY <1>1
  <2>1. PICK m \in Missing : \A k \in Missing : m <= k
    BY <2>0, SmallestNumber
  <2>2. CASE m = 1
    <3>1. [i \in 1..1 |-> ss[i]] \in [1..m -> Seq(S)] /\ Is([i \in 1..1 |-> ss[i]], m)
      BY <1>1, <2>2
    <3> QED
      BY <2>1, <3>1
  <2>3. CASE m # 1
    <3>1. m - 1 \in 1..n /\ m - 1 \notin Missing /\ m \in 1..n
      <4>1. m \in Nat /\ m \in 1..n /\ m - 1 \in 1..n /\ ~(m <= m - 1)
        BY <1>1, <2>3
      <4> QED
        BY <2>1, <4>1
    <3>2. PICK f \in [1..(m - 1) -> Seq(S)] : Is(f, m - 1)
      BY <3>1
    <3> DEFINE g == [i \in 1..m |-> IF i = m THEN f[m - 1] \o ss[m] ELSE f[i]]
    <3>3. f[m - 1] \o ss[m] \in Seq(S)
      BY <1>1, <3>1, ConcatProperties
    <3>4. g \in [1..m -> Seq(S)]
      BY <3>1, <3>3
    <3>5. ASSUME NEW i \in 1..m PROVE g[i] = Step(g, i)
      <4>1. CASE i = m
        <5>1. m \in 1..m /\ m - 1 \in 1..m /\ m - 1 # m
          BY <1>1, <3>1
        <5>2. g[m] = f[m - 1] \o ss[m] /\ g[m - 1] = f[m - 1]
          BY <5>1
        <5> QED
          BY <2>3, <4>1, <5>2
      <4>2. CASE i # m
        <5>1. i \in 1..(m - 1) /\ g[i] = f[i]
          BY <3>1, <4>2
        <5>2. f[i] = Step(f, i)
          BY <3>2, <5>1
        <5>3. i # 1 => g[i - 1] = f[i - 1]
          BY <3>1, <5>1
        <5> QED
          BY <5>1, <5>2, <5>3
      <4> QED
        BY <4>1, <4>2
    <3> QED
      BY <2>1, <3>4, <3>5
  <2> QED
    BY <2>2, <2>3
<1>n. n \in 1..n
  BY <1>1
<1>3. PICK f \in [1..n -> Seq(S)] : Is(f, n)
  BY <1>n, <1>2, Zenon
<1> DEFINE Rec(f1) == f1 = [i \in 1..n |-> IF i = 1 THEN ss[i] ELSE f1[i - 1] \o ss[i]]
           flatten == CHOOSE f1 : Rec(f1)
<1>4. Rec(f)
  BY <1>1, <1>3
<1>5. Rec(flatten)
  BY <1>4, Zenon
<1>6. FlattenSeq(ss) = flatten[n]
  BY Zenon DEF FlattenSeq
<1> HIDE DEF flatten
<1>7. \A i \in 1..n : flatten[i] = Step(flatten, i)
  BY <1>5
<1> DEFINE Other == {i \in 1..n : flatten[i] # f[i]}
<1>8. Other = {}
  <2> SUFFICES ASSUME Other # {} PROVE FALSE
    OBVIOUS
  <2>0. Other \in SUBSET Nat
    BY <1>1
  <2>1. PICK m \in Other : \A k \in Other : m <= k
    BY <2>0, SmallestNumber
  <2>2. m \in 1..n /\ flatten[m] = Step(flatten, m) /\ f[m] = Step(f, m)
    BY <1>3, <1>7
  <2>3. CASE m = 1
    BY <2>2, <2>3
  <2>4. CASE m # 1
    <3>1. m - 1 \in 1..n /\ ~(m <= m - 1)
      BY <1>1, <2>2, <2>4
    <3>2. flatten[m - 1] = f[m - 1]
      BY <2>1, <3>1
    <3> QED
      BY <2>2, <2>4, <3>2
  <2> QED
    BY <2>3, <2>4
<1>9. FlattenSeq(ss) = f[n]
  BY <1>n, <1>6, <1>8
<1> QED
  BY <1>3, <1>9

\* A flattened list is no longer than what bounds its prefixes.
LEMMA FlattenBound ==
  ASSUME NEW S, NEW ss \in Seq(Seq(S)), NEW bound \in [0..Len(ss) -> Nat],
         \A i \in 1..Len(ss) : bound[i - 1] + Len(ss[i]) <= bound[i]
  PROVE  Len(FlattenSeq(ss)) <= bound[Len(ss)]
<1>1. Len(ss) \in Nat /\ \A i \in 1..Len(ss) : ss[i] \in Seq(S) /\ Len(ss[i]) \in Nat
  OBVIOUS
<1>2. CASE Len(ss) = 0
  <2>1. FlattenSeq(ss) = ss /\ bound[0] \in Nat
    BY <1>2 DEF FlattenSeq
  <2> QED
    BY <1>2, <2>1
<1>3. CASE Len(ss) # 0
  <2>1. PICK f \in [1..Len(ss) -> Seq(S)] :
          /\ FlattenSeq(ss) = f[Len(ss)]
          /\ \A i \in 1..Len(ss) : f[i] = IF i = 1 THEN ss[i] ELSE f[i - 1] \o ss[i]
    BY <1>3, FlattenDefined
  <2> DEFINE Longer == {i \in 1..Len(ss) : ~(Len(f[i]) <= bound[i])}
  <2>2. Longer = {}
    <3> SUFFICES ASSUME Longer # {} PROVE FALSE
      OBVIOUS
    <3>1. Longer \in SUBSET Nat
      BY <1>1
    <3>2. PICK m \in Longer : \A k \in Longer : m <= k
      BY <3>1, SmallestNumber
    <3>3. m \in 1..Len(ss) /\ ~(Len(f[m]) <= bound[m]) /\ bound[m - 1] + Len(ss[m]) <= bound[m]
      BY <3>2
    <3>4. bound[m] \in Nat /\ bound[m - 1] \in Nat /\ Len(ss[m]) \in Nat
      <4>1. m \in 0..Len(ss) /\ m - 1 \in 0..Len(ss)
        BY <1>1, <3>3
      <4> QED
        BY <1>1, <3>3, <4>1
    <3> DEFINE b == bound[m]
               c == bound[m - 1]
    <3>n. b \in Nat /\ c \in Nat /\ c + Len(ss[m]) <= b /\ ~(Len(f[m]) <= b)
      BY <3>3, <3>4
    <3> HIDE DEF b, c
    <3>5. CASE m = 1
      <4>1. f[m] = ss[m]
        BY <2>1, <3>3, <3>5
      <4> QED
        <5>1. \A q \in Nat : c + q <= b => q <= b
          BY <3>n
        <5> QED
          BY <3>4, <3>n, <4>1, <5>1
    <3>6. CASE m # 1
      <4>1. m - 1 \in 1..Len(ss) /\ ~(m <= m - 1)
        BY <1>1, <3>3, <3>6
      <4>2. Len(f[m - 1]) <= c
        BY <3>2, <4>1 DEF c
      <4>3. f[m] = f[m - 1] \o ss[m]
        BY <2>1, <3>3, <3>6
      <4>4. f[m - 1] \in Seq(S) /\ ss[m] \in Seq(S)
        BY <1>1, <3>3, <4>1
      <4>5. Len(f[m]) = Len(f[m - 1]) + Len(ss[m]) /\ Len(f[m - 1]) \in Nat
        BY <4>3, <4>4
      <4> QED
        <5>1. \A p, q \in Nat : p <= c /\ c + q <= b => p + q <= b
          BY <3>n
        <5> QED
          BY <3>4, <3>n, <4>2, <4>5, <5>1
    <3> QED
      BY <3>5, <3>6
  <2>3. Len(ss) \in 1..Len(ss)
    BY <1>1, <1>3
  <2> QED
    BY <2>1, <2>2, <2>3
<1> QED
  BY <1>2, <1>3

LEMMA FlattenTyped ==
  ASSUME NEW S, NEW ss \in Seq(Seq(S))
  PROVE  FlattenSeq(ss) \in Seq(S)
<1>1. CASE Len(ss) = 0
  <2>1. FlattenSeq(ss) = ss /\ ss = <<>>
    BY <1>1 DEF FlattenSeq
  <2> QED
    BY <2>1
<1>2. CASE Len(ss) # 0
  <2>1. PICK f \in [1..Len(ss) -> Seq(S)] : FlattenSeq(ss) = f[Len(ss)]
    BY <1>2, FlattenDefined
  <2>2. Len(ss) \in 1..Len(ss)
    BY <1>2
  <2> QED
    BY <2>1, <2>2
<1> QED
  BY <1>1, <1>2

--------------------------------------------------------------------------------
(* The length of the vector of unknowns *)

\* The provers do not see that a literal is a string.
Names == STRING \cup {"", "pH", "gas_moles"}
Types == {"MB", "MU", "AH2O", "CB", "MH", "MH2O", "EXCH", "SURFACE", "SURFACE_CB", "SURFACE_CB1",
          "SURFACE_CB2", "PP", "GAS_MOLES", "SS_MOLES"}
Records == [type : Types, name : Names, of : Names]

LEMMA UnknownTyped ==
  ASSUME NEW type \in Types, NEW name \in Names, NEW of \in Names
  PROVE  Unknown(type, name, of) \in Records
BY DEF Unknown, Records

LEMMA ElementIn ==
  ASSUME NEW T, NEW list \in Seq(T), NEW i \in 1..Len(list)
  PROVE  list[i] \in T
OBVIOUS

\* A list that is given by its elements.
LEMMA ListOf ==
  ASSUME NEW T, NEW n \in Nat, NEW list, list = [i \in 1..n |-> list[i]],
         \A i \in 1..n : list[i] \in T
  PROVE  list \in Seq(T) /\ Len(list) = n
<1>1. list \in [1..n -> T]
  OBVIOUS
<1> QED
  BY <1>1

LEMMA ShortLists ==
  ASSUME NEW T, NEW a \in T, NEW b \in T, NEW c \in T
  PROVE  /\ <<a>> \in Seq(T) /\ Len(<<a>>) = 1
         /\ <<a, b>> \in Seq(T) /\ Len(<<a, b>>) = 2
         /\ <<a, b, c>> \in Seq(T) /\ Len(<<a, b, c>>) = 3
OBVIOUS

LEMMA Joined ==
  ASSUME NEW T, NEW s1 \in Seq(T), NEW s2 \in Seq(T)
  PROVE  s1 \o s2 \in Seq(T) /\ Len(s1 \o s2) = Len(s1) + Len(s2)
BY ConcatProperties

LEMMA SolutionLength ==
  ASSUME NEW u \in Uses, NEW st \in States
  PROVE  /\ OfSolution(u, st) \in Seq(Records) /\ Len(u.totals) \in Nat
         /\ Len(OfSolution(u, st)) <= Len(u.totals) + 5
<1> DEFINE elements == [i \in 1..Len(u.totals) |-> Unknown("MB", u.totals[i], "")]
           activity == <<Unknown("MU", "", ""), Unknown("AH2O", "", "")>>
           balances == IF st = "reaction" THEN <<Unknown("CB", "pH", ""), Unknown("MH", "", ""),
                                                 Unknown("MH2O", "", "")>>
                                          ELSE <<>>
<1>1. u.totals \in Seq(STRING)
  BY ModelAssumption DEF Reactants
<1>2. elements \in Seq(Records) /\ Len(elements) = Len(u.totals)
  <2>1. ASSUME NEW i \in 1..Len(u.totals)
        PROVE  elements[i] \in Records
    <3>1. u.totals[i] \in STRING
      BY <1>1, ElementIn
    <3> QED
      BY <3>1, UnknownTyped DEF Types, Names
  <2>2. Len(u.totals) \in Nat
    BY <1>1
  <2> HIDE DEF elements
  <2>3. elements = [i \in 1..Len(u.totals) |-> elements[i]]
    BY DEF elements
  <2> QED
    BY <2>1, <2>2, <2>3, ListOf
<1>n. "" \in Names /\ "pH" \in Names /\ {"MU", "AH2O", "CB", "MH", "MH2O"} \subseteq Types
  BY DEF Types, Names
<1>3. activity \in Seq(Records) /\ Len(activity) = 2
  <2>1. Unknown("MU", "", "") \in Records /\ Unknown("AH2O", "", "") \in Records
    BY <1>n, UnknownTyped
  <2> QED
    BY <2>1, ShortLists, Zenon
<1>4. balances \in Seq(Records) /\ Len(balances) \in Nat /\ Len(balances) <= 3
  <2>1. /\ Unknown("CB", "pH", "") \in Records /\ Unknown("MH", "", "") \in Records
        /\ Unknown("MH2O", "", "") \in Records
    BY <1>n, UnknownTyped
  <2>2. /\ balances \in Seq(Records) /\ Len(balances) = 3
        \/ balances = <<>>
    BY <2>1, ShortLists, Zenon
  <2>3. <<>> \in Seq(Records) /\ Len(<<>>) = 0
    OBVIOUS
  <2>4. balances \in Seq(Records) /\ (Len(balances) = 0 \/ Len(balances) = 3)
    BY <2>2, <2>3, Zenon
  <2>5. \A q : q = 0 \/ q = 3 => q \in Nat /\ q <= 3
    OBVIOUS
  <2> QED
    BY <2>4, <2>5, Zenon
<1>5. OfSolution(u, st) = (elements \o activity) \o balances
  BY Zenon DEF OfSolution
<1> HIDE DEF elements, activity, balances
<1> QED
  <2>1. /\ elements \o activity \in Seq(Records)
        /\ Len(elements \o activity) = Len(elements) + Len(activity)
    BY <1>2, <1>3, Joined, Zenon
  <2>2. /\ OfSolution(u, st) \in Seq(Records)
        /\ Len(OfSolution(u, st)) = Len(elements \o activity) + Len(balances)
    BY <1>4, <1>5, <2>1, Joined, Zenon
  <2>3. Len(u.totals) \in Nat
    BY <1>1
  <2> QED
    BY <1>2, <1>3, <1>4, <2>1, <2>2, <2>3

LEMMA ExchangeLength ==
  ASSUME NEW u \in Uses
  PROVE  /\ OfExchange(u) \in Seq(Records) /\ Len(u.exchange) \in Nat
         /\ Len(OfExchange(u)) <= Len(u.exchange)
<1> DEFINE n == Len(u.exchange)
           masters == [i \in 1..n |-> u.exchange[i].master]
           lists == [i \in 1..n |->
                       IF IsNew(masters, i)
                         THEN <<Unknown("EXCH", masters[i], u.exchange[i].phase)>> ELSE <<>>]
<1>1. u.exchange \in Seq([master : STRING, phase : STRING])
  BY ModelAssumption DEF Reactants
<1>2. n \in Nat /\ \A i \in 1..n : u.exchange[i].master \in STRING /\ u.exchange[i].phase \in STRING
  <2>1. \A i \in 1..n : u.exchange[i] \in [master : STRING, phase : STRING]
    BY <1>1, ElementIn, Zenon
  <2> QED
    BY <1>1, <2>1
<1>3. ASSUME NEW i \in 1..n
      PROVE  lists[i] \in Seq(Records) /\ Len(lists[i]) <= 1
  <2>1. Unknown("EXCH", masters[i], u.exchange[i].phase) \in Records
    BY <1>2, UnknownTyped DEF Types, Names
  <2> QED
    BY <2>1
<1>4. lists \in Seq(Seq(Records)) /\ Len(lists) = n
  <2> HIDE DEF lists, n
  <2>1. lists = [i \in 1..n |-> lists[i]]
    BY DEF lists
  <2> QED
    BY <1>2, <1>3, <2>1, ListOf
<1>5. OfExchange(u) = FlattenSeq(lists)
  BY Zenon DEF OfExchange
<1> HIDE DEF lists, n
<1>6. OfExchange(u) \in Seq(Records)
  BY <1>4, <1>5, FlattenTyped
<1>7. Len(FlattenSeq(lists)) <= n
  <2> DEFINE bound == [i \in 0..Len(lists) |-> i]
  <2>1. bound \in [0..Len(lists) -> Nat]
    BY <1>2, <1>4
  <2>2. ASSUME NEW i \in 1..Len(lists) PROVE bound[i - 1] + Len(lists[i]) <= bound[i]
    <3>1. bound[i] = i /\ bound[i - 1] = i - 1
      BY <1>2, <1>4
    <3>2. Len(lists[i]) <= 1 /\ Len(lists[i]) \in Nat
      BY <1>3, <1>4
    <3> QED
      BY <1>2, <1>4, <3>1, <3>2
  <2>3. bound[Len(lists)] = n
    BY <1>2, <1>4
  <2> HIDE DEF bound
  <2>4. Len(FlattenSeq(lists)) <= bound[Len(lists)]
    BY <1>4, <2>1, <2>2, FlattenBound
  <2> QED
    BY <2>3, <2>4
<1> QED
  BY <1>2, <1>5, <1>6, <1>7 DEF n

LEMMA PhasesLength ==
  ASSUME NEW u \in Uses
  PROVE  OfPhases(u) \in Seq(Records) /\ Len(OfPhases(u)) = Len(u.pp) /\ Len(u.pp) \in Nat
<1>1. u.pp \in Seq([phase : STRING, add : STRING])
  BY ModelAssumption DEF Reactants
<1>2. \A i \in 1..Len(u.pp) : Unknown("PP", u.pp[i].phase, u.pp[i].add) \in Records
  <2>1. \A i \in 1..Len(u.pp) : u.pp[i] \in [phase : STRING, add : STRING]
    BY <1>1, ElementIn, Zenon
  <2> QED
    BY <2>1, UnknownTyped DEF Types, Names
<1> QED
  BY <1>1, <1>2 DEF OfPhases

\* The unknowns of the gas phase, as setup_unknowns counts them.
GasCount(u, num) ==
  IF u.gas = None THEN 0
  ELSE IF u.gas.volume /\ u.gas.real /\ num THEN Len(u.gas.comps) ELSE 1

LEMMA GasLength ==
  ASSUME NEW u \in Uses, NEW num \in BOOLEAN
  PROVE  OfGas(u, num) \in Seq(Records) /\ Len(OfGas(u, num)) = GasCount(u, num)
<1>1. CASE u.gas = None
  BY <1>1 DEF OfGas, GasCount
<1>2. CASE u.gas # None
  <2>1. u.gas \in [volume : BOOLEAN, real : BOOLEAN, comps : Seq(STRING)]
    BY <1>2, ModelAssumption DEF Reactants
  <2>2. u.gas.comps \in Seq(STRING)
    BY <2>1
  <2>3. CASE u.gas.volume /\ u.gas.real /\ num
    <3> DEFINE list == [i \in 1..Len(u.gas.comps) |-> Unknown("GAS_MOLES", u.gas.comps[i], "")]
    <3>1. ASSUME NEW i \in 1..Len(u.gas.comps) PROVE list[i] \in Records
      <4>1. u.gas.comps[i] \in STRING
        BY <2>2, ElementIn
      <4> QED
        BY <4>1, UnknownTyped DEF Types, Names
    <3>2. OfGas(u, num) = list
      BY <1>2, <2>3 DEF OfGas
    <3>3. GasCount(u, num) = Len(u.gas.comps) /\ Len(u.gas.comps) \in Nat
      BY <1>2, <2>2, <2>3 DEF GasCount
    <3> HIDE DEF list
    <3>4. list = [i \in 1..Len(u.gas.comps) |-> list[i]]
      BY DEF list
    <3>5. list \in Seq(Records) /\ Len(list) = Len(u.gas.comps)
      BY <3>1, <3>3, <3>4, ListOf
    <3> QED
      BY <3>2, <3>3, <3>5
  <2>4. CASE ~(u.gas.volume /\ u.gas.real /\ num)
    <3>1. Unknown("GAS_MOLES", "gas_moles", "") \in Records
      BY UnknownTyped DEF Types, Names
    <3>2. OfGas(u, num) = <<Unknown("GAS_MOLES", "gas_moles", "")>> /\ GasCount(u, num) = 1
      BY <1>2, <2>4 DEF OfGas, GasCount
    <3> QED
      BY <3>1, <3>2, ShortLists, Zenon
  <2> QED
    BY <2>3, <2>4
<1> QED
  BY <1>1, <1>2

LEMMA SolidSolutionsTyped ==
  ASSUME NEW u \in Uses
  PROVE  OfSolidSolutions(u) \in Seq(Records)
<1> DEFINE lists == [j \in 1..Len(u.ss) |->
                       [i \in 1..Len(u.ss[j].comps) |->
                          Unknown("SS_MOLES", u.ss[j].comps[i], u.ss[j].name)]]
<1>1. u.ss \in Seq([name : STRING, comps : Seq(STRING)])
  BY ModelAssumption DEF Reactants
<1>2. ASSUME NEW j \in 1..Len(u.ss)
      PROVE  lists[j] \in Seq(Records)
  <2>1. u.ss[j].name \in STRING /\ u.ss[j].comps \in Seq(STRING)
    <3>1. u.ss[j] \in [name : STRING, comps : Seq(STRING)]
      BY <1>1, ElementIn, Zenon
    <3> QED
      BY <3>1
  <2> DEFINE n == Len(u.ss[j].comps)
             list == [i \in 1..n |-> Unknown("SS_MOLES", u.ss[j].comps[i], u.ss[j].name)]
  <2>2. ASSUME NEW i \in 1..n PROVE list[i] \in Records
    <3>1. u.ss[j].comps[i] \in STRING
      BY <2>1, ElementIn
    <3> QED
      BY <2>1, <3>1, UnknownTyped DEF Types, Names
  <2>3. n \in Nat /\ lists[j] = list
    BY <2>1
  <2> HIDE DEF list, n
  <2>4. list = [i \in 1..n |-> list[i]]
    BY DEF list
  <2> QED
    BY <2>2, <2>3, <2>4, ListOf
<1>3. lists \in Seq(Seq(Records))
  <2>1. Len(u.ss) \in Nat
    BY <1>1
  <2> HIDE DEF lists
  <2>2. lists = [j \in 1..Len(u.ss) |-> lists[j]]
    BY DEF lists
  <2> QED
    BY <1>2, <2>1, <2>2, ListOf
<1>4. OfSolidSolutions(u) = FlattenSeq(lists)
  BY Zenon DEF OfSolidSolutions
<1> HIDE DEF lists
<1> QED
  BY <1>3, <1>4, FlattenTyped

\* The charges of the first i sites are as many as those of which a site is the first.
LEMMA ChargesCounted ==
  ASSUME NEW n \in Nat, NEW charges, NEW i \in 1..n
  PROVE  LET C(k) == {charges[j] : j \in 1..k} IN
           /\ IsFiniteSet(C(i)) /\ Cardinality(C(i)) \in Nat /\ Cardinality(C(i - 1)) \in Nat
           /\ Cardinality(C(i)) = Cardinality(C(i - 1)) + (IF IsNew(charges, i) THEN 1 ELSE 0)
<1> DEFINE C(k) == {charges[j] : j \in 1..k}
           before == C(i - 1)
           now == C(i)
<1>1. IsFiniteSet(before)
  <2> DEFINE f == [j \in 1..(i - 1) |-> charges[j]]
  <2>1. f \in Surjection(1..(i - 1), before)
    BY DEF Surjection
  <2>2. IsFiniteSet(1..(i - 1))
    BY FS_Interval
  <2> QED
    BY <2>1, <2>2, FS_Surjection
<1>2. now = before \cup {charges[i]}
  <2>1. \A j \in 1..i : j = i \/ j \in 1..(i - 1)
    OBVIOUS
  <2>2. \A j \in 1..(i - 1) : j \in 1..i
    OBVIOUS
  <2>3. i \in 1..i
    OBVIOUS
  <2> QED
    BY <2>1, <2>2, <2>3
<1>3. charges[i] \in before <=> ~IsNew(charges, i)
  BY DEF IsNew
<1> HIDE DEF before, now
<1>4. /\ IsFiniteSet(now)
      /\ Cardinality(now) = IF charges[i] \in before THEN Cardinality(before) ELSE Cardinality(before) + 1
  BY <1>1, <1>2, FS_AddElement
<1>5. Cardinality(now) \in Nat /\ Cardinality(before) \in Nat
  BY <1>1, <1>4, FS_CardinalityType
<1>6. Cardinality(now) = Cardinality(before) + (IF IsNew(charges, i) THEN 1 ELSE 0)
  BY <1>3, <1>4, <1>5
<1> QED
  BY <1>4, <1>5, <1>6 DEF before, now

LEMMA PlanesOfType ==
  ASSUME NEW type \in {"no_edl", "ddl", "cd_music"}
  PROVE  /\ Len(Planes(type)) \in {0, 1, 3} /\ (type # "cd_music" => Len(Planes(type)) # 3)
         /\ \A k \in 1..Len(Planes(type)) : Planes(type)[k] \in Types
<1>1. CASE type = "no_edl"
  <2>1. Planes(type) = <<>>
    BY <1>1 DEF Planes
  <2>2. Len(<<>>) = 0
    OBVIOUS
  <2>3. 1..0 = {}
    OBVIOUS
  <2>4. 0 # 3
    OBVIOUS
  <2> QED
    BY <2>1, <2>2, <2>3, <2>4, Zenon
<1>2. CASE type = "ddl"
  <2>1. Planes(type) = <<"SURFACE_CB">>
    BY <1>2 DEF Planes
  <2>2. Len(<<"SURFACE_CB">>) = 1 /\ \A k \in 1..1 : k = 1
    OBVIOUS
  <2>3. <<"SURFACE_CB">>[1] \in Types
    BY DEF Types
  <2>4. 1 # 3
    OBVIOUS
  <2> QED
    BY <2>1, <2>2, <2>3, <2>4, Zenon
<1>3. CASE type = "cd_music"
  <2> DEFINE planes == <<"SURFACE_CB", "SURFACE_CB1", "SURFACE_CB2">>
  <2>1. Planes(type) = planes
    BY <1>3 DEF Planes
  <2>2. Len(planes) = 3
    OBVIOUS
  <2>3. planes[1] \in Types /\ planes[2] \in Types /\ planes[3] \in Types
    BY DEF Types
  <2> HIDE DEF planes
  <2>4. \A k \in 1..3 : planes[k] \in Types
    BY <2>3
  <2> QED
    BY <1>3, <2>1, <2>2, <2>4, Zenon
<1> QED
  BY <1>1, <1>2, <1>3, Zenon

\* The sites are as many as the components, and each charge has its potentials once.
LEMMA SurfaceLength ==
  ASSUME NEW u \in Uses
  PROVE  /\ OfSurface(u) \in Seq(Records) /\ SurfaceCount(u) \in Nat
         /\ Len(OfSurface(u)) <= SurfaceCount(u)
<1>1. CASE u.surface = None
  BY <1>1 DEF OfSurface, SurfaceCount
<1>2. CASE u.surface # None
  <2> DEFINE comps == u.surface.comps
             n == Len(comps)
             charges == [i \in 1..n |-> comps[i].charge]
             planes == Planes(u.surface.type)
             Potentials(i) == [k \in 1..(IF IsNew(charges, i) THEN Len(planes) ELSE 0) |->
                                 Unknown(planes[k], charges[i], comps[i].phase)]
             Site(i) == <<Unknown("SURFACE", comps[i].master, comps[i].phase)>>
             lists == [i \in 1..n |-> Site(i) \o Potentials(i)]
             SiteRecords == [formula : STRING, master : STRING, charge : STRING, phase : STRING]
             Many(k) == Cardinality({charges[j] : j \in 1..k})
             times == IF u.surface.type = "cd_music" THEN 4 ELSE 1
  <2>1. /\ u.surface.type \in {"no_edl", "ddl", "cd_music"}
        /\ comps \in Seq(SiteRecords)
    <3>1. u.surface \in [type : {"no_edl", "ddl", "cd_music"}, dl : STRING, comps : Seq(SiteRecords)]
      BY <1>2, ModelAssumption DEF Reactants
    <3> QED
      BY <3>1
  <2>2. /\ n \in Nat
        /\ \A i \in 1..n : /\ comps[i].master \in STRING /\ comps[i].charge \in STRING
                           /\ comps[i].phase \in STRING
    <3>1. \A i \in 1..n : comps[i] \in SiteRecords
      BY <2>1, ElementIn, Zenon
    <3>2. n \in Nat
      BY <2>1, LenProperties, Zenon
    <3> QED
      BY <3>1, <3>2
  <2>3. /\ Len(planes) \in Nat /\ times \in Nat /\ Len(planes) <= times
        /\ \A k \in 1..Len(planes) : planes[k] \in Types
    <3>1. /\ Len(planes) \in {0, 1, 3} /\ (u.surface.type # "cd_music" => Len(planes) # 3)
          /\ \A k \in 1..Len(planes) : planes[k] \in Types
      BY <2>1, PlanesOfType, Zenon
    <3> HIDE DEF planes
    <3>2. CASE u.surface.type = "cd_music"
      <4>1. times = 4
        BY <3>2, Zenon
      <4> QED
        BY <3>1, <4>1
    <3>3. CASE u.surface.type # "cd_music"
      <4>1. times = 1
        BY <3>3, Zenon
      <4> QED
        BY <3>1, <3>3, <4>1
    <3> QED
      BY <3>2, <3>3
  <2>4. OfSurface(u) = FlattenSeq(lists)
    BY <1>2, Zenon DEF OfSurface
  <2>5. \A i \in 1..n : charges[i] = comps[i].charge
    OBVIOUS
  <2>6. Charges(u) = {charges[j] : j \in 1..n}
    BY <2>5 DEF Charges
  <2>7. SurfaceCount(u) = n + times * Cardinality(Charges(u))
    BY <1>2 DEF SurfaceCount
  <2> HIDE DEF planes, times, charges
  <2>8. ASSUME NEW i \in 1..n
        PROVE  /\ lists[i] \in Seq(Records)
               /\ Len(lists[i]) = 1 + (IF IsNew(charges, i) THEN Len(planes) ELSE 0)
    <3>1. Unknown("SURFACE", comps[i].master, comps[i].phase) \in Records
      BY <2>2, UnknownTyped DEF Types, Names
    <3>2. Site(i) \in Seq(Records) /\ Len(Site(i)) = 1
      BY <3>1, ShortLists, Zenon
    <3> DEFINE m == IF IsNew(charges, i) THEN Len(planes) ELSE 0
               list == [k \in 1..m |-> Unknown(planes[k], charges[i], comps[i].phase)]
    <3>3. m \in Nat /\ \A k \in 1..m : k \in 1..Len(planes)
      BY <2>3
    <3>4. ASSUME NEW k \in 1..m PROVE list[k] \in Records
      <4>1. planes[k] \in Types /\ charges[i] \in Names /\ comps[i].phase \in Names
        BY <2>2, <2>3, <2>5, <3>3 DEF Names
      <4>2. Unknown(planes[k], charges[i], comps[i].phase) \in Records
        BY <4>1, UnknownTyped
      <4> QED
        BY <4>2
    <3>5. lists[i] = Site(i) \o list
      OBVIOUS
    <3>6. list \in Seq(Records) /\ Len(list) = m
      <4> HIDE DEF list, m
      <4>1. list = [k \in 1..m |-> list[k]]
        BY DEF list
      <4> QED
        BY <3>3, <3>4, <4>1, ListOf
    <3> HIDE DEF list, lists, Site
    <3>7. lists[i] \in Seq(Records) /\ Len(lists[i]) = Len(Site(i)) + Len(list)
      BY <3>2, <3>5, <3>6, Joined, Zenon
    <3> QED
      BY <3>2, <3>6, <3>7
  <2>9. lists \in Seq(Seq(Records)) /\ Len(lists) = n
    <3> HIDE DEF lists, n
    <3>1. lists = [i \in 1..n |-> lists[i]]
      BY DEF lists
    <3> QED
      BY <2>2, <2>8, <3>1, ListOf
  <2>10. Many(0) = 0 /\ \A i \in 0..n : Many(i) \in Nat
    <3>1. {charges[j] : j \in 1..0} = {}
      OBVIOUS
    <3>2. Many(0) = 0
      BY <3>1, FS_EmptySet
    <3>3. ASSUME NEW i \in 0..n, i # 0 PROVE Many(i) \in Nat
      <4>1. i \in 1..n
        BY <2>2, <3>3
      <4> QED
        BY <2>2, <4>1, ChargesCounted
    <3>4. 0 \in Nat
      OBVIOUS
    <3> QED
      BY <3>2, <3>3, <3>4, Zenon
  <2>11. \A i \in 1..n : Many(i) = Many(i - 1) + (IF IsNew(charges, i) THEN 1 ELSE 0)
    BY <2>2, ChargesCounted
  <2> HIDE DEF lists, Many
  <2> DEFINE bound == [i \in 0..Len(lists) |-> i + times * Many(i)]
  <2>12. bound \in [0..Len(lists) -> Nat]
    <3>1. ASSUME NEW i \in 0..n PROVE i + times * Many(i) \in Nat
      <4>1. Many(i) \in Nat /\ i \in Nat
        BY <2>2, <2>10
      <4> QED
        BY <2>3, <4>1
    <3> QED
      BY <2>9, <3>1
  <2>13. ASSUME NEW i \in 1..Len(lists) PROVE bound[i - 1] + Len(lists[i]) <= bound[i]
    <3>1. i \in 1..n /\ i - 1 \in 0..Len(lists) /\ i \in 0..Len(lists)
      BY <2>2, <2>9
    <3>2. bound[i] = i + times * Many(i) /\ bound[i - 1] = i - 1 + times * Many(i - 1)
      BY <3>1
    <3> DEFINE p == Many(i - 1)
               d == times * p
    <3>3. p \in Nat /\ d \in Nat
      BY <2>3, <2>9, <2>10, <3>1
    <3>4. CASE IsNew(charges, i)
      <4>1. Many(i) = p + 1 /\ Len(lists[i]) = 1 + Len(planes)
        BY <2>8, <2>11, <3>1, <3>4
      <4>2. times * Many(i) = d + times
        BY <2>3, <3>3, <4>1
      <4> HIDE DEF d
      <4> QED
        BY <2>3, <3>1, <3>2, <3>3, <4>1, <4>2 DEF d
    <3>5. CASE ~IsNew(charges, i)
      <4>1. Many(i) = p + 0 /\ Len(lists[i]) = 1 + 0
        BY <2>8, <2>11, <3>1, <3>5
      <4> QED
        BY <2>3, <3>1, <3>2, <3>3, <4>1
    <3> QED
      BY <3>4, <3>5
  <2>14. bound[Len(lists)] = n + times * Many(n)
    BY <2>2, <2>9
  <2> HIDE DEF bound
  <2>15. Len(FlattenSeq(lists)) <= bound[Len(lists)]
    BY <2>9, <2>12, <2>13, FlattenBound
  <2>16. SurfaceCount(u) = bound[Len(lists)]
    BY <2>6, <2>7, <2>14 DEF Many
  <2>17. bound[Len(lists)] \in Nat
    <3>1. Len(lists) \in 0..Len(lists)
      BY <2>2, <2>9
    <3> QED
      BY <2>12, <3>1, Zenon
  <2>18. FlattenSeq(lists) \in Seq(Records)
    BY <2>9, FlattenTyped
  <2> QED
    BY <2>4, <2>15, <2>16, <2>17, <2>18
<1> QED
  BY <1>1, <1>2

\* What setup_unknowns counts is more than what the reactants have unknowns.
LEMMA RoomForUnknowns ==
  ASSUME NEW u \in Uses, NEW st \in States, NEW num \in BOOLEAN, NEW r
  PROVE  Len(Structure(u, st, num, r).unknowns) < MaxUnknowns(u, num)
<1> DEFINE one == OfSolution(u, st) \o OfExchange(u)
           two == one \o OfSurface(u)
           three == two \o OfPhases(u)
           four == three \o OfGas(u, num)
           five == four \o OfSolidSolutions(u)
<1>1. Structure(u, st, num, r).unknowns = five
  BY Zenon DEF Structure
<1>2. one \in Seq(Records) /\ Len(one) = Len(OfSolution(u, st)) + Len(OfExchange(u))
  BY SolutionLength, ExchangeLength, Joined, Zenon
<1> HIDE DEF one
<1>3. two \in Seq(Records) /\ Len(two) = Len(one) + Len(OfSurface(u))
  BY <1>2, SurfaceLength, Joined, Zenon
<1> HIDE DEF two
<1>4. three \in Seq(Records) /\ Len(three) = Len(two) + Len(OfPhases(u))
  BY <1>3, PhasesLength, Joined, Zenon
<1> HIDE DEF three
<1>5. four \in Seq(Records) /\ Len(four) = Len(three) + Len(OfGas(u, num))
  <2>1. OfGas(u, num) \in Seq(Records)
    BY GasLength
  <2> QED
    BY <1>4, <2>1, Joined
<1> HIDE DEF four
<1>6. Len(five) = Len(four) + Len(OfSolidSolutions(u))
  BY <1>5, SolidSolutionsTyped, Joined, Zenon
<1> HIDE DEF five
<1>7. MaxUnknowns(u, num) = Len(u.totals) + 5 + Len(u.pp) + Len(u.exchange) + SurfaceCount(u)
                              + GasCount(u, num) + Len(OfSolidSolutions(u)) + 1
  BY Zenon DEF MaxUnknowns, GasCount
<1>8. /\ Len(OfSolution(u, st)) \in Nat /\ Len(OfExchange(u)) \in Nat /\ Len(OfSurface(u)) \in Nat
      /\ Len(OfPhases(u)) \in Nat /\ Len(OfGas(u, num)) \in Nat /\ Len(OfSolidSolutions(u)) \in Nat
  BY SolutionLength, ExchangeLength, SurfaceLength, PhasesLength, GasLength, SolidSolutionsTyped,
     LenProperties, Zenon
<1>9. /\ Len(u.totals) \in Nat /\ Len(OfSolution(u, st)) <= Len(u.totals) + 5
      /\ Len(u.exchange) \in Nat /\ Len(OfExchange(u)) <= Len(u.exchange)
      /\ SurfaceCount(u) \in Nat /\ Len(OfSurface(u)) <= SurfaceCount(u)
      /\ Len(OfPhases(u)) = Len(u.pp) /\ Len(OfGas(u, num)) = GasCount(u, num)
  BY SolutionLength, ExchangeLength, SurfaceLength, PhasesLength, GasLength, Zenon
<1>10. Len(five) = Len(OfSolution(u, st)) + Len(OfExchange(u)) + Len(OfSurface(u))
                    + Len(OfPhases(u)) + Len(OfGas(u, num)) + Len(OfSolidSolutions(u))
  BY <1>2, <1>3, <1>4, <1>5, <1>6, Zenon
<1>12. Len(five) < Len(u.totals) + 5 + Len(OfPhases(u)) + Len(u.exchange) + SurfaceCount(u)
                     + Len(OfGas(u, num)) + Len(OfSolidSolutions(u)) + 1
  <2>1. PICK a \in Nat, b \in Nat, c \in Nat : /\ a = Len(OfSolution(u, st))
                                              /\ b = Len(OfExchange(u)) /\ c = Len(OfSurface(u))
    BY <1>8, Zenon
  <2>2. PICK d \in Nat, e \in Nat, f \in Nat : /\ d = Len(OfPhases(u)) /\ e = Len(OfGas(u, num))
                                              /\ f = Len(OfSolidSolutions(u))
    BY <1>8, Zenon
  <2>3. PICK p \in Nat, q \in Nat, k \in Nat : /\ p = Len(u.totals) /\ q = Len(u.exchange)
                                              /\ k = SurfaceCount(u)
    BY <1>9, Zenon
  <2>4. Len(five) = a + b + c + d + e + f
    BY <1>10, <2>1, <2>2, Zenon
  <2>5. a <= p + 5 /\ b <= q /\ c <= k
    BY <1>9, <2>1, <2>3, Zenon
  <2>6. a + b + c + d + e + f < p + 5 + d + q + k + e + f + 1
    BY <2>5
  <2> QED
    BY <2>1, <2>2, <2>3, <2>4, <2>6, Zenon
<1> QED
  BY <1>1, <1>7, <1>9, <1>12, Zenon

--------------------------------------------------------------------------------
(* Types *)

LEMMA TypedInit == Init => Typed
<1> SUFFICES ASSUME Init PROVE Typed
  OBVIOUS
<1>1. -1 \in -1..MaxReads /\ 0 \in 0..MaxReads
  BY ModelAssumption
<1>2. x = [unknowns |-> <<>>, gas |-> <<>>, surface |-> <<>>, reads |-> -1]
  BY DEF Init, NoModel
<1>3. Shape
  BY <1>1, <1>2, Zenon DEF Shape
<1>4. numeric \in BOOLEAN /\ torn \in BOOLEAN /\ reads \in 0..MaxReads
  BY <1>1, Zenon DEF Init
<1> QED
  BY <1>3, <1>4 DEF Init, Typed, States

\* A description has the flag, whatever of it is changed.
LEMMA FlagStays ==
  ASSUME "force" \in DOMAIN last, [Next]_vars
  PROVE  "force" \in DOMAIN last'
<1>1. CASE last' = last
  BY <1>1
<1>2. CASE last' = SavedModel
  BY <1>2 DEF SavedModel, Description
<1>3. CASE TidyModel \/ StartOfColumn \/ Setup
  BY <1>3 DEF TidyModel, StartOfColumn, Setup, Reset
<1> QED
  BY <1>1, <1>2, <1>3
     DEF Next, vars, Start, InverseModels, QuickSetup, SetupStops, BuildModel, BuildStops,
         SwitchToNumeric, Reprep, Solved, SolveStops

LEMMA TypedNext == Typed /\ [Next]_vars => Typed'
<1> SUFFICES ASSUME Typed, [Next]_vars PROVE Typed'
  OBVIOUS
<1>0. \A r \in 0..MaxReads, st \in States, num \in BOOLEAN, u \in Uses :
        \E us \in {<<>>} \cup AllUnknowns, q \in -1..MaxReads : \E g, s :
           Structure(u, st, num, r) = [unknowns |-> us, gas |-> g, surface |-> s, reads |-> q]
  BY ShapeOfStructure
<1>flag. "force" \in DOMAIN last'
  BY FlagStays DEF Typed
<1>1. CASE TidyModel
  <2>1. reads' \in 0..MaxReads
    BY <1>1, ModelAssumption DEF TidyModel, Typed
  <2> QED
    BY <1>1, <2>1, <1>flag DEF TidyModel, Idle, Typed, Shape
<1>2. CASE StartOfColumn
  BY <1>2, <1>flag DEF StartOfColumn, Idle, Typed, Shape
<1>3. CASE Start
  BY <1>3, <1>flag DEF Start, Idle, Typed, Shape, States
<1>4. CASE InverseModels
  BY <1>4, <1>flag DEF InverseModels, Idle, Typed, Shape
<1>5. CASE QuickSetup
  BY <1>5, <1>flag DEF QuickSetup, Typed, Shape
<1>6. CASE Setup
  <2>1. Shape'
    BY <1>0, <1>6, ShapeOfUnfinished DEF Setup, Typed, Shape
  <2> QED
    BY <1>6, <2>1, <1>flag DEF Setup, Typed
<1>7. CASE SetupStops
  BY <1>7, <1>flag DEF SetupStops, Typed, Shape
<1>8. CASE BuildModel
  <2>1. Shape'
    <3>1. x' = Structure(use, state, numeric, reads)
      BY <1>8 DEF BuildModel
    <3>2. \E us \in {<<>>} \cup AllUnknowns, q \in -1..MaxReads : \E g, s :
            Structure(use, state, numeric, reads) = [unknowns |-> us, gas |-> g, surface |-> s, reads |-> q]
      BY <1>0 DEF Typed
    <3> QED
      BY <3>1, <3>2, Zenon DEF Shape
  <2> QED
    BY <1>8, <2>1, <1>flag DEF BuildModel, Typed
<1>9. CASE BuildStops
  BY <1>9, <1>flag DEF BuildStops, Typed, Shape
<1>10. CASE SwitchToNumeric
  BY <1>10, <1>flag DEF SwitchToNumeric, Typed, Shape
<1>11. CASE Reprep
  <2>1. PICK us \in {<<>>} \cup AllUnknowns, r \in -1..MaxReads : \E g, s :
          x = [unknowns |-> us, gas |-> g, surface |-> s, reads |-> r]
    BY DEF Typed, Shape
  <2>2. ASSUME x' = [Made EXCEPT !.unknowns = x.unknowns]
        PROVE  Shape'
    <3>1. \E vs \in {<<>>} \cup AllUnknowns, q \in -1..MaxReads : \E g, s :
            Made = [unknowns |-> vs, gas |-> g, surface |-> s, reads |-> q]
      BY <1>0, <1>flag DEF Made, Typed
    <3>2. PICK vs \in {<<>>} \cup AllUnknowns, q \in -1..MaxReads : \E g, s :
            Made = [unknowns |-> vs, gas |-> g, surface |-> s, reads |-> q]
      BY <3>1
    <3>3. PICK g, s : Made = [unknowns |-> vs, gas |-> g, surface |-> s, reads |-> q]
      BY <3>2
    <3>4. x.unknowns = us
      BY <2>1
    <3>5. x' = [unknowns |-> us, gas |-> g, surface |-> s, reads |-> q]
      BY <2>2, <3>3, <3>4
    <3> QED
      BY <3>5, Zenon DEF Shape
  <2>3. ASSUME x' = Unfinished(x)
        PROVE  Shape'
    <3>1. PICK g, s : x = [unknowns |-> us, gas |-> g, surface |-> s, reads |-> r]
      BY <2>1
    <3>2. \E vs \in {<<>>} \cup AllUnknowns, q \in -1..MaxReads : \E f, t :
            Unfinished(x) = [unknowns |-> vs, gas |-> f, surface |-> t, reads |-> q]
      BY <3>1, ShapeOfUnfinished
    <3> QED
      BY <2>3, <3>2, Zenon DEF Shape
  <2>4. x' = [Made EXCEPT !.unknowns = x.unknowns] \/ x' = Unfinished(x)
    BY <1>11, Zenon DEF Reprep, Made
  <2>5. Shape'
    BY <2>2, <2>3, <2>4
  <2> QED
    BY <1>11, <2>5, <1>flag DEF Reprep, Typed
<1>12. CASE Solved
  BY <1>12, <1>flag DEF Solved, Typed, Shape
<1>13. CASE SolveStops
  BY <1>13, <1>flag DEF SolveStops, Typed, Shape
<1>14. CASE UNCHANGED vars
  BY <1>14, <1>flag DEF vars, Typed, Shape
<1> QED
  BY <1>1, <1>2, <1>3, <1>4, <1>5, <1>6, <1>7, <1>8, <1>9, <1>10, <1>11, <1>12, <1>13, <1>14 DEF Next

\* The typing of prep() and its model.
THEOREM ModelsTyped == Spec => []TypeOK
<1>1. Typed => TypeOK
  BY DEF Typed, Shape, TypeOK, States
<1> QED
  BY <1>1, TypedInit, TypedNext, PTL DEF Spec

--------------------------------------------------------------------------------
(* Reuse *)

LEMMA CurrentInit == Init => Current
BY DEF Init, Current, Reusable

\* Where nothing but the reactants to come changes, a model stays as reusable as it was.
LEMMA ReusableLater ==
  ASSUME Reusable, pc \in {"idle", "prep"}, UNCHANGED <<x, array, reads>>,
         torn' = torn, last' = last \/ last'.force
  PROVE  Reusable'
<1>1. CASE last'.force
  BY <1>1 DEF Reusable
<1>2. CASE last' = last
  BY <1>2 DEF Reusable, Describes
<1> QED
  BY <1>1, <1>2

\* A model that was made or taken again can be reused for the reactants it was made for.
LEMMA SolvedIsReusable ==
  ASSUME Typed, Current, pc = "solve", UNCHANGED <<x, array, reads, torn, last>>
  PROVE  Reusable'
<1> SUFFICES ASSUME ~torn', ~last'.force
             PROVE  /\ array' = "model"
                    /\ \E u \in Uses, num \in BOOLEAN :
                         x' = Structure(u, "reaction", num, reads') /\ Describes(u, num)'
  BY DEF Reusable
<1>1. /\ x = Made /\ array = "model" /\ Describes(use, numeric) /\ state = "reaction"
  BY DEF Current
<1>2. use \in Uses /\ numeric \in BOOLEAN
  BY DEF Typed
<1>3. x' = Structure(use, "reaction", numeric, reads')
  BY <1>1 DEF Made
<1>4. last' = Description(use, numeric, last'.force)
  BY <1>1 DEF Describes
<1> QED
  BY <1>1, <1>2, <1>3, <1>4 DEF Describes

LEMMA CurrentQuickSetup ==
  ASSUME DescriptionTells, Typed, Current, QuickSetup
  PROVE  Current'
<1>1. /\ pc = "prep" /\ pc' = "solve" /\ state = "reaction" /\ array # "none"
      /\ ~last.force /\ Fits(last, use, numeric)
      /\ last' = Description(use, numeric, last.force)
      /\ UNCHANGED <<state, use, reads, numeric, x, array, torn>>
  BY DEF QuickSetup, SameModel, SavedModel
<1>2. ASSUME ~torn
      PROVE  x = Made /\ array = "model"
  <2>1. /\ array = "model"
        /\ \E u \in Uses, num \in BOOLEAN : x = Structure(u, "reaction", num, reads) /\ Describes(u, num)
    BY <1>1, <1>2 DEF Current, Reusable
  <2>2. PICK u \in Uses, num \in BOOLEAN :
          x = Structure(u, "reaction", num, reads) /\ last = Description(u, num, last.force)
    BY <2>1 DEF Describes
  <2>3. Fits(Description(u, num, last.force), use, numeric)
    BY <1>1, <2>2
  <2>4. use \in Uses /\ numeric \in BOOLEAN /\ reads \in 0..MaxReads
    BY DEF Typed
  <2>5. Structure(u, "reaction", num, reads) = Structure(use, "reaction", numeric, reads)
    BY <2>3, <2>4, FittingModel
  <2> QED
    BY <1>1, <2>1, <2>2, <2>5 DEF Made
<1>3. Made' = Made
  BY <1>1 DEF Made
<1>4. last'.force = last.force /\ Describes(use, numeric)'
  BY <1>1 DEF Description, Describes
<1> QED
  BY <1>1, <1>2, <1>3, <1>4 DEF Current, Reusable

LEMMA CurrentNext ==
  ASSUME DescriptionTells, Typed, Current, [Next]_vars
  PROVE  Current'
<1>1. CASE TidyModel
  <2>1. last'.force /\ pc' = "idle" /\ pc = "idle" /\ array' = array /\ torn' = torn
    BY <1>1 DEF TidyModel, Idle, Reset
  <2> QED
    BY <2>1 DEF Current, Reusable
<1>2. CASE StartOfColumn
  BY <1>2 DEF StartOfColumn, Idle, Current, Reusable
<1>3. CASE Start
  <2>1. Reusable'
    BY <1>3, ReusableLater DEF Start, Idle, Current
  <2> QED
    BY <1>3, <2>1 DEF Start, Idle, Current
<1>4. CASE InverseModels
  BY <1>4 DEF InverseModels, Idle, Current, Reusable
<1>5. CASE QuickSetup
  BY <1>5, CurrentQuickSetup
<1>6. CASE Setup
  <2>1. ASSUME state = "initial"
        PROVE  last'.force
    <3>1. last' = [last EXCEPT !.force = (state = "initial")]
      BY <1>6 DEF Setup
    <3>2. (state = "initial") = TRUE
      BY <2>1, Zenon
    <3>3. last' = [last EXCEPT !.force = TRUE]
      BY <3>1, <3>2, Zenon
    <3> QED
      BY <3>3
  <2>2. ~last'.force => state = "reaction"
    BY <2>1 DEF Typed, States
  <2> QED
    BY <1>6, <2>2 DEF Setup, Current, Reusable, Made
<1>7. CASE SetupStops
  BY <1>7 DEF SetupStops, Current, Reusable
<1>8. CASE BuildModel
  <2>1. last'.force = last.force /\ Describes(use, numeric)'
    BY <1>8 DEF BuildModel, SavedModel, Description, Describes
  <2> QED
    BY <1>8, <2>1 DEF BuildModel, Current, Reusable, Made
<1>9. CASE BuildStops
  BY <1>9 DEF BuildStops, Current, Reusable
<1>10. CASE SwitchToNumeric
  BY <1>10, SolvedIsReusable DEF SwitchToNumeric, Current
<1>11. CASE Reprep
  <2>1. CASE torn'
    BY <1>11, <2>1 DEF Reprep, Current, Reusable
  <2>2. CASE ~torn'
    <3>1. /\ x' = [Made EXCEPT !.unknowns = x.unknowns] /\ ~torn
          /\ last' = SavedModel /\ pc = "solve" /\ pc' = "solve"
          /\ UNCHANGED <<state, use, reads, numeric, array>>
      BY <1>11, <2>2 DEF Reprep, Made
    <3>2. x = Made /\ array = "model" /\ (~last.force => state = "reaction")
      BY <3>1 DEF Current
    <3>3. x' = Made
      BY <3>1, <3>2 DEF Made, Structure
    <3>4. last'.force = last.force /\ Describes(use, numeric)'
      BY <3>1 DEF SavedModel, Description, Describes
    <3> QED
      BY <3>1, <3>2, <3>3, <3>4 DEF Current, Reusable, Made
  <2> QED
    BY <2>1, <2>2
<1>12. CASE Solved
  BY <1>12, SolvedIsReusable DEF Solved, Current
<1>13. CASE SolveStops
  BY <1>13, SolvedIsReusable DEF SolveStops, Current
<1>14. CASE UNCHANGED vars
  BY <1>14 DEF vars, Current, Reusable, Describes, Made
<1> QED
  BY <1>1, <1>2, <1>3, <1>4, <1>5, <1>6, <1>7, <1>8, <1>9, <1>10, <1>11, <1>12, <1>13, <1>14 DEF Next

\* Where reactants of one description have the same equations, those that are solved are the
\* equations of the reactants in use, after any calculations, readings and stops; but for
\* stops in the middle of the lists or of inverse modelling.
THEOREM ReusedModelsAreRight ==
  ASSUME DescriptionTells
  PROVE  Spec => []SolvesItsOwnModelUnlessTorn
<1>1. Init => Typed /\ Current
  BY TypedInit, CurrentInit
<1>2. Typed /\ Current /\ [Next]_vars => (Typed /\ Current)'
  BY TypedNext, CurrentNext
<1>3. Current => SolvesItsOwnModelUnlessTorn
  BY DEF Current, SolvesItsOwnModelUnlessTorn, SolvesItsOwnModel, Made
<1> QED
  BY <1>1, <1>2, <1>3, PTL DEF Spec

--------------------------------------------------------------------------------
(* Room *)

\* Between the unknowns and the lists, the unknowns are those of the reactants in use.
Begun == pc = "setup" => x = Unfinished(Made)

LEMMA BegunNext == [Next]_vars /\ Begun => Begun'
BY DEF Next, vars, Begun, Made, Idle, TidyModel, StartOfColumn, Start, InverseModels, QuickSetup,
   Setup, SetupStops, BuildModel, BuildStops, SwitchToNumeric, Reprep, Solved, SolveStops

\* Whatever the reactants, setup_unknowns has made the vector of unknowns long enough for
\* all that the setup_ functions put into it, with one to spare.
THEOREM VectorIsLongEnough == Spec => []UnknownsFit
<1>1. Init => Begun
  BY DEF Init, Begun
<1>2. Typed /\ Begun => UnknownsFit
  <2> SUFFICES ASSUME Typed, Begun, pc = "setup"
               PROVE  Len(x.unknowns) < MaxUnknowns(use, numeric)
    BY DEF UnknownsFit
  <2>1. use \in Uses /\ state \in States /\ numeric \in BOOLEAN
    BY DEF Typed
  <2>2. x.unknowns = Structure(use, state, numeric, reads).unknowns
    BY DEF Begun, Made, Unfinished, Structure
  <2>3. Len(Structure(use, state, numeric, reads).unknowns) < MaxUnknowns(use, numeric)
    BY <2>1, RoomForUnknowns
  <2> QED
    BY <2>2, <2>3
<1> QED
  BY <1>1, <1>2, BegunNext, TypedInit, TypedNext, PTL DEF Spec
================================================================================
