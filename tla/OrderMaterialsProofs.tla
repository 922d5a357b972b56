------------------------ MODULE OrderMaterialsProofs ------------------------
(***************************************************************************)
(* Proofs about OrderMaterials, for any number of people pressing Reserve,  *)
(* any bill of materials, any units and any quantities; then about BomIssue,*)
(* for any number of people issuing, correcting, saving, removing and       *)
(* linking its lines.  The two share no state; their names are distinct.    *)
(***************************************************************************)
EXTENDS OrderMaterials, BomIssue, SumTheorems, TLAPS

LEMMA MaxOfTwo ==
  ASSUME NEW a \in Int, NEW b \in Int
  PROVE  Max({a, b}) \in Int /\ Max({a, b}) = IF a >= b THEN a ELSE b
<1>1. \E x \in {a, b} : \A y \in {a, b} : x >= y
  OBVIOUS
<1>2. Max({a, b}) \in {a, b} /\ \A y \in {a, b} : Max({a, b}) >= y
  BY <1>1 DEF Max
<1> QED  BY <1>2

LEMMA MinOfTwo ==
  ASSUME NEW a \in Int, NEW b \in Int
  PROVE  Min({a, b}) \in Int /\ Min({a, b}) = IF a <= b THEN a ELSE b
<1>1. \E x \in {a, b} : \A y \in {a, b} : x <= y
  OBVIOUS
<1>2. Min({a, b}) \in {a, b} /\ \A y \in {a, b} : Min({a, b}) <= y
  BY <1>1 DEF Min
<1> QED  BY <1>2

LEMMA InSeq ==
  ASSUME NEW S, NEW s \in Seq(S)
  PROVE  /\ \A i \in DOMAIN s : s[i] \in S
         /\ s # <<>> => 1 \in DOMAIN s /\ Head(s) = s[1]
  OBVIOUS

-----------------------------------------------------------------------------
(* Converting a quantity is exact to half a unit of what it is converted to. *)

LEMMA Division ==
  ASSUME NEW a \in Int, NEW b \in Nat, b > 0
  PROVE  a \div b \in Int /\ b * (a \div b) <= a /\ a < b * (a \div b) + b
  OBVIOUS

LEMMA Products ==
  ASSUME NEW u \in Nat, NEW a \in Int, NEW b \in Int
  PROVE  /\ u * a \in Int /\ u * (a + b) = u * a + u * b
         /\ a <= b => u * a <= u * b
  OBVIOUS

LEMMA RoundedNear ==
  ASSUME NEW a \in Int, NEW b \in Nat, b > 0
  PROVE  /\ Rounded(a, b) \in Int
         /\ 2 * (b * Rounded(a, b)) <= 2 * a + b
         /\ 2 * a <= 2 * (b * Rounded(a, b)) + b
<1> DEFINE x == 2 * a + b
           c == 2 * b
           d == x \div c
<1>1. x \in Int /\ c \in Nat /\ c > 0
  OBVIOUS
<1>2. d \in Int /\ c * d <= x /\ x < c * d + c
  <2> HIDE DEF x, c
  <2> QED  BY <1>1, Division
<1>3. c * d = 2 * (b * d) /\ b * d \in Int
  <2> HIDE DEF d
  <2> QED  BY <1>2
<1>4. PICK y \in Int : y = b * d
  BY <1>3
<1>5. 2 * y <= 2 * a + b /\ 2 * a <= 2 * y + b
  BY <1>2, <1>3, <1>4
<1>6. Rounded(a, b) = d
  BY DEF Rounded
<1> QED  BY <1>2, <1>4, <1>5, <1>6

LEMMA ConvertedNear ==
  ASSUME NEW q \in Int, NEW from \in Nat \ {0}, NEW to \in Nat \ {0}
  PROVE  /\ Converted(q, from, to) \in Int
         /\ from = to => Converted(q, from, to) = q
         /\ from # to => /\ 2 * (to * Converted(q, from, to)) <= 2 * (from * q) + to
                         /\ 2 * (from * q) <= 2 * (to * Converted(q, from, to)) + to
         /\ q >= 0 => Converted(q, from, to) >= 0
<1>1. CASE from = to
  BY <1>1 DEF Converted
<1>2. CASE from # to
  <2>1. q * from \in Int /\ q * from = from * q
    OBVIOUS
  <2>2. Converted(q, from, to) = Rounded(from * q, to)
    BY <1>2, <2>1 DEF Converted
  <2>3. PICK c \in Int : c = Converted(q, from, to)
    BY <2>1, <2>2, RoundedNear
  <2>4. 2 * (to * c) <= 2 * (from * q) + to /\ 2 * (from * q) <= 2 * (to * c) + to
    BY <2>1, <2>2, <2>3, RoundedNear
  <2>5. q >= 0 => c >= 0
    <3> SUFFICES ASSUME q >= 0, c <= -1 PROVE FALSE
      OBVIOUS
    <3>1. to * c <= to * (-1) /\ to * c \in Int
      BY Products
    <3>2. from * q >= 0 /\ from * q \in Int
      BY Products
    <3> QED  BY <2>4, <3>1, <3>2
  <2> QED  BY <1>2, <2>3, <2>4, <2>5
<1> QED  BY <1>1, <1>2

-----------------------------------------------------------------------------
(* The inductive invariant.                                                 *)

\* What rounding the two figures read may add to what a run still means to ask.
Spare(n) == IF StockUnit[MaterialOf[n]] = LineUnit[n] THEN 0 ELSE 2 * LineUnit[n]

Room(n, k) == 2 * Held(n) + 2 * (LineUnit[n] * k) <= 2 * (LineUnit[n] * required[n]) + Spare(n)

\* What a run still means to ask for is of a line linked to a material, and within
\* the line's need unless someone has asked more of the line since.
EntryFits(p, i) ==
  \/ todo[p][i].reservable = 0
  \/ /\ MaterialOf[todo[p][i].line] \in Material
     /\ todo[p][i].line \in moved[p] \/ Room(todo[p][i].line, todo[p][i].reservable)

RunsFit == \A p \in Session : \A i \in DOMAIN todo[p] : EntryFits(p, i)

\* A run comes to each line once.
LinesOnce == \A p \in Session : \A i, j \in DOMAIN todo[p] :
  todo[p][i].line = todo[p][j].line => i = j

\* Whoever is not running has no line to go through.
IdleDone == \A p \in Session : pc[p] # "running" => todo[p] = <<>>

IInv == TypeOK /\ LinesOnce /\ IdleDone /\ RunsFit

LEMMA Units ==
  ASSUME NEW n \in Line, MaterialOf[n] \in Material
  PROVE  StockUnit[MaterialOf[n]] \in Nat \ {0} /\ LineUnit[n] \in Nat \ {0}
  BY UnitAssumption

LEMMA LineConversion ==
  ASSUME NEW n \in Line, MaterialOf[n] \in Material, NEW q \in Int,
         NEW u \in Nat \ {0}, u = LineUnit[n],
         NEW v \in Nat \ {0}, v = StockUnit[MaterialOf[n]]
  PROVE  \E c \in Int : /\ c = InLineUnit(n, q)
                        /\ u = v => c = q
                        /\ u # v => 2 * (u * c) <= 2 * (v * q) + u /\ 2 * (v * q) <= 2 * (u * c) + u
                        /\ q >= 0 => c >= 0
<1>1. PICK c : c = Converted(q, v, u)
  OBVIOUS
<1>2. c = InLineUnit(n, q)
  BY <1>1 DEF InLineUnit
<1>3. /\ c \in Int /\ (u = v => c = q) /\ (q >= 0 => c >= 0)
      /\ u # v => 2 * (u * c) <= 2 * (v * q) + u /\ 2 * (v * q) <= 2 * (u * c) + u
  BY <1>1, ConvertedNear
<1> QED  BY <1>2, <1>3

LEMMA StockConversion ==
  ASSUME NEW n \in Line, MaterialOf[n] \in Material, NEW q \in Int,
         NEW u \in Nat \ {0}, u = LineUnit[n],
         NEW v \in Nat \ {0}, v = StockUnit[MaterialOf[n]]
  PROVE  \E c \in Int : /\ c = InStockUnit(n, q)
                        /\ u = v => c = q
                        /\ u # v => 2 * (v * c) <= 2 * (u * q) + v
<1>1. PICK c : c = Converted(q, u, v)
  OBVIOUS
<1>2. c = InStockUnit(n, q)
  BY <1>1 DEF InStockUnit
<1>3. c \in Int /\ (u = v => c = q) /\ (u # v => 2 * (v * c) <= 2 * (u * q) + v)
  BY <1>1, ConvertedNear
<1> QED  BY <1>2, <1>3

LEMMA HeldIsWhole ==
  ASSUME TypeOK, NEW n \in Line, MaterialOf[n] \in Material
  PROVE  /\ Held(n) \in Int /\ LineUnit[n] * required[n] \in Int /\ Spare(n) \in Int
         /\ \A k \in Int : LineUnit[n] * k \in Int
<1>1. /\ reserved[n] \in Nat /\ requested[n] \in Nat /\ issued[n] \in Nat
      /\ required[n] \in Nat
  BY DEF TypeOK
<1>2. PICK u \in Nat \ {0} : u = LineUnit[n]
  BY Units
<1>3. PICK v \in Nat \ {0} : v = StockUnit[MaterialOf[n]]
  BY Units
<1>4. \A a \in Nat, b \in Int : a * b \in Int
  OBVIOUS
<1>5. Held(n) = v * (reserved[n] + requested[n]) + u * issued[n]
  BY <1>2, <1>3 DEF Held
<1>6. v * (reserved[n] + requested[n]) \in Int /\ u * issued[n] \in Int
  BY <1>1, <1>4
<1>7. Spare(n) \in Int
  BY <1>2, <1>4 DEF Spare
<1> QED  BY <1>1, <1>2, <1>4, <1>5, <1>6, <1>7

\* Four parts of a need, taken together in any unit, are within it.
LEMMA FourParts ==
  ASSUME NEW u \in Nat, NEW a \in Int, NEW b \in Int, NEW c \in Int, NEW k \in Int,
         NEW r \in Int, a + b + c + k <= r
  PROVE  u * a + u * b + u * c + u * k <= u * r
<1>1. u * (a + b + c + k) <= u * r
  BY Products
<1>2. u * (a + b + c + k) = u * (a + b + c) + u * k
  BY Products
<1>3. u * (a + b + c) = u * (a + b) + u * c
  BY Products
<1>4. u * (a + b) = u * a + u * b
  BY Products
<1> QED  BY <1>1, <1>2, <1>3, <1>4

\* What the position offers of a line is within what the line still needs.
LEMMA OfferFits ==
  ASSUME TypeOK, NEW n \in Line
  PROVE  /\ Requirement(n).line = n
         /\ Requirement(n).reservable \in Nat
         /\ \/ Requirement(n).reservable = 0
            \/ MaterialOf[n] \in Material /\ Room(n, Requirement(n).reservable)
<1>1. CASE MaterialOf[n] = Unlinked
  BY <1>1 DEF Requirement
<1>2. CASE MaterialOf[n] # Unlinked
  <2>1. MaterialOf[n] \in Material
    BY <1>2, MaterialAssumption
  <2>2. PICK u \in Nat \ {0} : u = LineUnit[n]
    BY <2>1, Units
  <2>3. PICK v \in Nat \ {0} : v = StockUnit[MaterialOf[n]]
    BY <2>1, Units
  <2>4. /\ reserved[n] \in Nat /\ requested[n] \in Nat /\ issued[n] \in Nat
        /\ required[n] \in Nat /\ free[MaterialOf[n]] \in Int
        /\ reserved[n] \in Int /\ requested[n] \in Int
    BY <2>1 DEF TypeOK
  <2>5. PICK a \in Int : /\ a = InLineUnit(n, reserved[n])
                         /\ u = v => a = reserved[n]
                         /\ u # v => 2 * (v * reserved[n]) <= 2 * (u * a) + u
                         /\ reserved[n] >= 0 => a >= 0
    BY <2>1, <2>2, <2>3, <2>4, LineConversion
  <2>6. PICK b \in Int : /\ b = InLineUnit(n, requested[n])
                         /\ u = v => b = requested[n]
                         /\ u # v => 2 * (v * requested[n]) <= 2 * (u * b) + u
                         /\ requested[n] >= 0 => b >= 0
    BY <2>1, <2>2, <2>3, <2>4, LineConversion
  <2>7. PICK f \in Int : /\ f = InLineUnit(n, free[MaterialOf[n]])
                         /\ u = v => f = free[MaterialOf[n]]
                         /\ u # v => 2 * (v * free[MaterialOf[n]]) <= 2 * (u * f) + u
                         /\ free[MaterialOf[n]] >= 0 => f >= 0
    BY <2>1, <2>2, <2>3, <2>4, LineConversion
  <2>8. PICK need \in Int : need = required[n] - (a + issued[n])
    BY <2>4, <2>5
  <2>9. PICK due : due = OutstandingOf(n)
    OBVIOUS
  <2>10. due \in Nat /\ (due > 0 => due = need)
    <3>1. due = Max({0, need})
      BY <2>5, <2>8, <2>9 DEF OutstandingOf
    <3> QED  BY <3>1, MaxOfTwo
  <2>11. PICK rest \in Int : rest = due - b
    BY <2>6, <2>10
  <2>12. PICK unasked : unasked = Unrequested(n)
    OBVIOUS
  <2>13. unasked \in Nat /\ (unasked > 0 => unasked = rest)
    <3>1. unasked = Max({0, rest})
      BY <2>6, <2>9, <2>11, <2>12 DEF Unrequested
    <3> QED  BY <3>1, MaxOfTwo
  <2>14. PICK least : least = Min({unasked, f - b})
    OBVIOUS
  <2>15. least \in Int /\ least <= unasked
    BY <2>6, <2>7, <2>13, <2>14, MinOfTwo
  <2>16. PICK k : k = Requirement(n).reservable
    OBVIOUS
  <2>17. Requirement(n).line = n /\ k = Max({0, least})
    BY <1>2, <2>6, <2>7, <2>12, <2>14, <2>16 DEF Requirement, Coverable
  <2>18. k \in Nat /\ (k > 0 => k <= unasked)
    <3>1. Max({0, least}) = IF 0 >= least THEN 0 ELSE least
      BY <2>15, MaxOfTwo
    <3> QED  BY <2>15, <2>17, <3>1
  <2>19. ASSUME k > 0 PROVE Room(n, k)
    <3>1. a + b + issued[n] + k <= required[n]
      <4>1. rest > 0 /\ unasked = rest
        BY <2>13, <2>18, <2>19
      <4>2. b >= 0
        BY <2>4, <2>6
      <4>3. due > 0 /\ due = need
        BY <4>1, <4>2, <2>10, <2>11
      <4> QED  BY <4>1, <4>3, <2>4, <2>8, <2>11, <2>18, <2>19
    <3>2. PICK x \in Int, y \in Int, z \in Int, w \in Int, t \in Int :
            x = u * a /\ y = u * b /\ z = u * issued[n] /\ w = u * k /\ t = u * required[n]
      <4>1. issued[n] \in Int /\ k \in Int /\ required[n] \in Int
        BY <2>4, <2>18
      <4>2. u * a \in Int /\ u * b \in Int /\ u * issued[n] \in Int /\ u * k \in Int
            /\ u * required[n] \in Int
        BY <4>1
      <4> QED  BY <4>2
    <3>3. x + y + z + w <= t
      BY <3>1, <3>2, <2>4, <2>18, FourParts
    <3>4. PICK g \in Int, h \in Int : g = v * reserved[n] /\ h = v * requested[n]
      BY <2>4, Products
    <3>5. Held(n) = g + h + z
      <4>1. v * (reserved[n] + requested[n]) = g + h
        BY <2>4, <3>4, Products
      <4> QED  BY <4>1, <2>2, <2>3, <3>2 DEF Held
    <3>6. CASE u = v
      <4>1. a = reserved[n] /\ b = requested[n]
        BY <3>6, <2>5, <2>6
      <4>2. x = g /\ y = h
        BY <4>1, <3>2, <3>4, <3>6
      <4>3. 2 * (g + h + z) + 2 * w <= 2 * t
        BY <4>2, <3>3
      <4> QED  BY <4>3, <3>2, <3>5, <3>6, <2>2, <2>3 DEF Room, Spare
    <3>7. CASE u # v
      <4>1. 2 * g <= 2 * x + u
        BY <3>7, <2>5, <3>2, <3>4
      <4>2. 2 * h <= 2 * y + u
        BY <3>7, <2>6, <3>2, <3>4
      <4>3. 2 * (g + h + z) + 2 * w <= 2 * t + 2 * u
        BY <4>1, <4>2, <3>3
      <4> QED  BY <4>3, <3>2, <3>5, <3>7, <2>2, <2>3 DEF Room, Spare
    <3> QED  BY <3>6, <3>7
  <2> QED  BY <2>1, <2>16, <2>17, <2>18, <2>19
<1> QED  BY <1>1, <1>2

-----------------------------------------------------------------------------
(* Every step keeps the inductive invariant.                                *)

\* The figures of line n stay as they are.
SameLine(n) ==
  /\ required'[n] = required[n] /\ issued'[n] = issued[n]
  /\ reserved'[n] = reserved[n] /\ requested'[n] = requested[n]

\* Line n has no more asked of it, and needs no less.
Eased(n) ==
  /\ required[n] <= required'[n] /\ issued'[n] <= issued[n]
  /\ reserved'[n] + requested'[n] <= reserved[n] + requested[n]

LEMMA SameLineRoom ==
  ASSUME NEW n \in Line, SameLine(n), NEW k \in Int
  PROVE  Held(n)' = Held(n) /\ (Room(n, k) => Room(n, k)')
<1>1. Held(n)' = Held(n)
  BY DEF SameLine, Held
<1>2. Spare(n)' = Spare(n)
  BY DEF Spare
<1>3. (LineUnit[n] * required[n])' = LineUnit[n] * required[n]
      /\ (LineUnit[n] * k)' = LineUnit[n] * k
  BY DEF SameLine
<1> QED  BY <1>1, <1>2, <1>3 DEF Room

LEMMA EasedRoom ==
  ASSUME TypeOK, TypeOK', NEW n \in Line, MaterialOf[n] \in Material, Eased(n), NEW k \in Int,
         Room(n, k)
  PROVE  Room(n, k)'
<1>1. PICK u \in Nat \ {0} : u = LineUnit[n]
  BY Units
<1>2. PICK v \in Nat \ {0} : v = StockUnit[MaterialOf[n]]
  BY Units
<1>3. PICK a \in Int, b \in Int, c \in Int, d \in Int :
        a = reserved[n] + requested[n] /\ b = reserved'[n] + requested'[n]
        /\ c = issued[n] /\ d = issued'[n] /\ b <= a /\ d <= c
  BY DEF TypeOK, Eased
<1>4. PICK r \in Int, t \in Int : r = required[n] /\ t = required'[n] /\ r <= t
  BY DEF TypeOK, Eased
<1>5. v * b <= v * a /\ u * d <= u * c /\ u * r <= u * t
  BY <1>3, <1>4, Products
<1>6. v * b \in Int /\ v * a \in Int /\ u * d \in Int /\ u * c \in Int /\ u * r \in Int
      /\ u * t \in Int /\ u * k \in Int
  BY <1>3, <1>4, Products
<1>7. Held(n) = v * a + u * c /\ Held(n)' = v * b + u * d
  BY <1>1, <1>2, <1>3 DEF Held
<1>8. PICK e \in Int : e = Spare(n) /\ e = Spare(n)'
  BY <1>1 DEF Spare
<1>9. 2 * (v * a + u * c) + 2 * (u * k) <= 2 * (u * r) + e
  BY <1>1, <1>4, <1>7, <1>8 DEF Room
<1>10. 2 * (v * b + u * d) + 2 * (u * k) <= 2 * (u * t) + e
  <2> HIDE <1>1, <1>2
  <2> QED  BY <1>5, <1>6, <1>9
<1> QED  BY <1>1, <1>4, <1>7, <1>8, <1>10 DEF Room

\* What others do to one line: those under way that mean to ask for it are told, or
\* the line has no more asked of it than before.
LEMMA MoveKeeps ==
  ASSUME IInv, TypeOK', NEW n \in Line, UNCHANGED <<pc, todo>>,
         \A m \in Line : m # n => SameLine(m),
         \/ \A s \in Session : pc[s] = "running" => moved'[s] = moved[s] \cup {n}
         \/ moved' = moved /\ Eased(n)
  PROVE  IInv'
<1> USE DEF IInv
<1>1. LinesOnce' /\ IdleDone'
  BY DEF LinesOnce, IdleDone
<1>2. RunsFit'
  <2> SUFFICES ASSUME NEW s \in Session, NEW i \in DOMAIN todo'[s]
               PROVE  EntryFits(s, i)'
    BY DEF RunsFit
  <2>1. todo'[s] = todo[s] /\ EntryFits(s, i)
    BY DEF RunsFit
  <2>2. pc[s] = "running"
    <3> SUFFICES ASSUME pc[s] # "running" PROVE FALSE
      OBVIOUS
    <3>1. todo[s] = <<>>
      BY DEF IdleDone
    <3>2. DOMAIN todo[s] = {}
      BY <3>1
    <3> QED  BY <2>1, <3>2
  <2>3. PICK m : m = todo[s][i].line
    OBVIOUS
  <2>4. PICK k : k = todo[s][i].reservable
    OBVIOUS
  <2>5. m \in Line /\ k \in Nat
    <3>1. todo[s] \in Seq([line : Line, reservable : Nat])
      BY DEF TypeOK
    <3>2. todo[s][i] \in [line : Line, reservable : Nat]
      BY <2>1, <3>1, InSeq
    <3> QED  BY <2>3, <2>4, <3>2
  <2>6. CASE k = 0
    BY <2>1, <2>4, <2>6 DEF EntryFits
  <2>7. CASE k # 0
    <3>1. MaterialOf[m] \in Material /\ (m \in moved[s] \/ Room(m, k))
      BY <2>1, <2>3, <2>4, <2>7 DEF EntryFits
    <3>2. moved[s] \subseteq moved'[s]
      BY <2>2
    <3>3. CASE m \in moved[s] \/ (m = n /\ moved' # moved)
      <4>1. m \in moved'[s]
        BY <2>2, <3>2, <3>3
      <4> QED  BY <2>1, <2>3, <3>1, <4>1 DEF EntryFits
    <3>4. CASE Room(m, k) /\ m # n
      <4>1. Room(m, k)'
        BY <2>5, <3>4, SameLineRoom
      <4> QED  BY <2>1, <2>3, <2>4, <3>1, <4>1 DEF EntryFits
    <3>5. CASE Room(m, k) /\ m = n /\ Eased(n)
      <4>1. Room(m, k)'
        BY <2>5, <3>1, <3>5, EasedRoom
      <4> QED  BY <2>1, <2>3, <2>4, <3>1, <4>1 DEF EntryFits
    <3>6. m \in moved'[s] \/ Room(m, k) \/ m \in moved[s]
      BY <3>1
    <3>7. CASE m \in moved'[s]
      BY <2>1, <2>3, <3>1, <3>7 DEF EntryFits
    <3>8. m = n => m \in moved'[s] \/ Eased(n)
      BY <2>2
    <3> QED  BY <3>1, <3>3, <3>4, <3>5, <3>7, <3>8
  <2> QED  BY <2>6, <2>7
<1> QED  BY <1>1, <1>2

LEMMA InitSafe == Init => IInv
<1> SUFFICES ASSUME Init PROVE IInv
  OBVIOUS
<1>1. free \in [Material -> Int]
  <2>1. -MaxDebt .. MaxQty \subseteq Int
    BY QuantityAssumption
  <2> QED  BY <2>1 DEF Init
<1>2. required \in [Line -> Nat]
  BY BillsAssumption DEF Init
<1>3. TypeOK
  BY <1>1, <1>2 DEF Init, TypeOK
<1>4. LinesOnce /\ IdleDone /\ RunsFit
  BY DEF Init, LinesOnce, IdleDone, RunsFit
<1> QED  BY <1>3, <1>4 DEF IInv

\* A run that begins goes through the lines in turn.
LEMMA ReadSafe ==
  ASSUME IInv, NEW p \in Session, ReadPosition(p)
  PROVE  IInv'
<1> USE DEF IInv
<1>1. Requirements \in Seq([line : Line, reservable : Nat]) /\ DOMAIN Requirements = DOMAIN BomLines
      /\ \A i \in DOMAIN BomLines : Requirements[i] = Requirement(BomLines[i])
  <2>1. \A n \in Line : Requirement(n) \in [line : Line, reservable : Nat]
    BY OfferFits DEF Requirement
  <2>2. \A i \in DOMAIN BomLines : BomLines[i] \in Line
    BY LinesAssumption
  <2>3. DOMAIN BomLines = 1 .. Len(BomLines) /\ Len(BomLines) \in Nat
    BY LinesAssumption
  <2>4. Requirements = [i \in 1 .. Len(BomLines) |-> Requirement(BomLines[i])]
    BY <2>3 DEF Requirements
  <2>5. \A i \in 1 .. Len(BomLines) : Requirement(BomLines[i]) \in [line : Line, reservable : Nat]
    BY <2>1, <2>2, <2>3
  <2>6. Requirements \in Seq([line : Line, reservable : Nat])
    BY <2>3, <2>4, <2>5, Z3
  <2> QED  BY <2>3, <2>4, <2>6
<1>2. PICK s : s = Requirements
  OBVIOUS
<1>3. todo' = [todo EXCEPT ![p] = s] /\ pc' = [pc EXCEPT ![p] = "running"]
      /\ UNCHANGED <<order, free, moves, moved>>
  BY <1>2 DEF ReadPosition
<1>4. TypeOK'
  BY <1>1, <1>2, <1>3 DEF TypeOK, order
<1>5. \A i \in DOMAIN s : /\ s[i].line = BomLines[i] /\ s[i].line \in Line
                          /\ s[i].reservable \in Nat
                          /\ \/ s[i].reservable = 0
                             \/ /\ MaterialOf[s[i].line] \in Material
                                /\ Room(s[i].line, s[i].reservable)
  BY <1>1, <1>2, OfferFits, LinesAssumption
<1>6. \A n \in Line : SameLine(n)
  BY <1>3 DEF SameLine, order
<1>7. LinesOnce'
  <2> SUFFICES ASSUME NEW q \in Session, NEW i \in DOMAIN todo'[q], NEW j \in DOMAIN todo'[q],
                      todo'[q][i].line = todo'[q][j].line
               PROVE  i = j
    BY DEF LinesOnce
  <2>1. CASE q = p
    <3>1. todo'[q] = s
      BY <1>3, <2>1 DEF TypeOK
    <3>2. i \in DOMAIN BomLines /\ j \in DOMAIN BomLines /\ BomLines[i] = BomLines[j]
      BY <3>1, <1>5, <1>1, <1>2
    <3> QED  BY <3>2, LinesAssumption DEF IsInjective
  <2>2. CASE q # p
    BY <1>3, <2>2 DEF TypeOK, LinesOnce
  <2> QED  BY <2>1, <2>2
<1>8. RunsFit'
  <2> SUFFICES ASSUME NEW q \in Session, NEW i \in DOMAIN todo'[q]
               PROVE  EntryFits(q, i)'
    BY DEF RunsFit
  <2>1. CASE q = p
    <3>1. todo'[q] = s
      BY <1>3, <2>1 DEF TypeOK
    <3>2. PICK n, k : n = s[i].line /\ k = s[i].reservable
      OBVIOUS
    <3>3. n \in Line /\ k \in Nat /\ (k = 0 \/ (MaterialOf[n] \in Material /\ Room(n, k)))
      BY <1>5, <3>1, <3>2
    <3>4. k = 0 \/ (MaterialOf[n] \in Material /\ Room(n, k)')
      BY <1>6, <3>3, SameLineRoom
    <3> QED  BY <3>1, <3>2, <3>4 DEF EntryFits
  <2>2. CASE q # p
    <3>1. todo'[q] = todo[q] /\ moved'[q] = moved[q]
      BY <1>3, <2>2 DEF TypeOK
    <3>2. EntryFits(q, i)
      BY <3>1 DEF RunsFit
    <3>3. PICK n, k : n = todo[q][i].line /\ k = todo[q][i].reservable
      OBVIOUS
    <3>4. n \in Line /\ k \in Nat
      <4>1. todo[q] \in Seq([line : Line, reservable : Nat])
        BY DEF TypeOK
      <4>2. todo[q][i] \in [line : Line, reservable : Nat]
        BY <3>1, <4>1, InSeq
      <4> QED  BY <3>3, <4>2
    <3>5. Room(n, k) => Room(n, k)'
      BY <1>6, <3>4, SameLineRoom
    <3> QED  BY <3>1, <3>2, <3>3, <3>5 DEF EntryFits
  <2> QED  BY <2>1, <2>2
<1>9. IdleDone'
  <2> SUFFICES ASSUME NEW q \in Session, pc'[q] # "running" PROVE todo'[q] = <<>>
    BY DEF IdleDone
  <2>1. q # p
    BY <1>3 DEF TypeOK
  <2> QED  BY <1>3, <2>1 DEF TypeOK, IdleDone
<1> QED  BY <1>4, <1>7, <1>8, <1>9

\* Coming to the next line changes nothing about the lines that follow.
LEMMA AdvanceKeeps ==
  ASSUME TypeOK, LinesOnce, NEW p \in Session, todo[p] # <<>>, Advance(p)
  PROVE  /\ todo' \in [Session -> Seq([line : Line, reservable : Nat])]
         /\ LinesOnce'
         /\ \A q \in Session : q # p => todo'[q] = todo[q]
         /\ \A i \in DOMAIN todo'[p] : /\ i + 1 \in DOMAIN todo[p]
                                       /\ todo'[p][i] = todo[p][i + 1]
                                       /\ todo'[p][i].line # Head(todo[p]).line
<1>1. todo[p] \in Seq([line : Line, reservable : Nat])
  BY DEF TypeOK
<1>2. PICK s : s = Tail(todo[p])
  OBVIOUS
<1>3. s \in Seq([line : Line, reservable : Nat])
      /\ \A i \in DOMAIN s : i + 1 \in DOMAIN todo[p] /\ s[i] = todo[p][i + 1]
  BY <1>1, <1>2
<1>4. todo' = [todo EXCEPT ![p] = s]
  BY <1>2 DEF Advance
<1>5. todo' \in [Session -> Seq([line : Line, reservable : Nat])] /\ todo'[p] = s
      /\ \A q \in Session : q # p => todo'[q] = todo[q]
  BY <1>3, <1>4 DEF TypeOK
<1>6. 1 \in DOMAIN todo[p] /\ Head(todo[p]) = todo[p][1]
  BY <1>1
<1>7. \A i \in DOMAIN s : i \in Nat \ {0}
  BY <1>3
<1>8. \A i \in DOMAIN s : s[i].line # Head(todo[p]).line
  <2> SUFFICES ASSUME NEW i \in DOMAIN s, s[i].line = Head(todo[p]).line PROVE FALSE
    OBVIOUS
  <2>1. i + 1 = 1
    BY <1>3, <1>6 DEF LinesOnce
  <2> QED  BY <2>1, <1>7
<1>9. LinesOnce'
  <2> SUFFICES ASSUME NEW q \in Session, NEW i \in DOMAIN todo'[q], NEW j \in DOMAIN todo'[q],
                      todo'[q][i].line = todo'[q][j].line
               PROVE  i = j
    BY DEF LinesOnce
  <2>1. CASE q = p
    <3>1. i + 1 = j + 1
      BY <2>1, <1>3, <1>5 DEF LinesOnce
    <3> QED  BY <3>1, <2>1, <1>5, <1>7
  <2>2. CASE q # p
    BY <1>5, <2>2 DEF LinesOnce
  <2> QED  BY <2>1, <2>2
<1> QED  BY <1>3, <1>5, <1>8, <1>9

LEMMA SkipSafe ==
  ASSUME IInv, NEW p \in Session, SkipLine(p)
  PROVE  IInv'
<1> USE DEF IInv
<1>0. Advance(p) /\ todo[p] # <<>> /\ pc[p] = "running"
      /\ UNCHANGED <<order, free, pc, moves, moved>>
  BY DEF SkipLine
<1>1. /\ todo' \in [Session -> Seq([line : Line, reservable : Nat])]
      /\ LinesOnce'
      /\ \A q \in Session : q # p => todo'[q] = todo[q]
      /\ \A i \in DOMAIN todo'[p] : i + 1 \in DOMAIN todo[p] /\ todo'[p][i] = todo[p][i + 1]
  BY <1>0, AdvanceKeeps
<1>2. TypeOK'
  BY <1>0, <1>1 DEF TypeOK, order
<1>3. RunsFit'
  <2> SUFFICES ASSUME NEW q \in Session, NEW i \in DOMAIN todo'[q]
               PROVE  EntryFits(q, i)'
    BY DEF RunsFit
  <2>1. \E j \in DOMAIN todo[q] : todo'[q][i] = todo[q][j]
    BY <1>1
  <2>2. PICK j \in DOMAIN todo[q] : todo'[q][i] = todo[q][j]
    BY <2>1
  <2>3. EntryFits(q, j)
    BY DEF RunsFit
  <2> QED  BY <2>2, <2>3, <1>0 DEF EntryFits, Room, Held, Spare, order
<1>4. IdleDone'
  BY <1>0, <1>1 DEF IdleDone
<1> QED  BY <1>1, <1>2, <1>3, <1>4

\* A run that ends has no line left.
LEMMA StopSafe ==
  ASSUME IInv, NEW p \in Session, RefuseLine(p) \/ Finish(p)
  PROVE  IInv'
<1> USE DEF IInv
<1>1. /\ pc' = [pc EXCEPT ![p] = "idle"] /\ todo' = [todo EXCEPT ![p] = <<>>]
      /\ moved' = [moved EXCEPT ![p] = {}] /\ UNCHANGED <<order, free, moves>>
  <2>1. Finish(p) => todo = [todo EXCEPT ![p] = <<>>]
    BY DEF Finish, TypeOK
  <2> QED  BY <2>1 DEF RefuseLine, Finish
<1>2. TypeOK'
  <2>1. <<>> \in Seq([line : Line, reservable : Nat])
    OBVIOUS
  <2>2. todo' \in [Session -> Seq([line : Line, reservable : Nat])]
    BY <1>1, <2>1 DEF TypeOK
  <2> QED  BY <1>1, <2>2 DEF TypeOK, order
<1>3. /\ todo'[p] = <<>> /\ DOMAIN todo'[p] = {}
      /\ \A q \in Session : q # p => todo'[q] = todo[q] /\ moved'[q] = moved[q] /\ pc'[q] = pc[q]
  BY <1>1 DEF TypeOK
<1>4. LinesOnce' /\ IdleDone'
  BY <1>3 DEF LinesOnce, IdleDone
<1>5. RunsFit'
  <2> SUFFICES ASSUME NEW q \in Session, NEW i \in DOMAIN todo'[q]
               PROVE  EntryFits(q, i)'
    BY DEF RunsFit
  <2>1. q # p /\ EntryFits(q, i)
    BY <1>3 DEF RunsFit
  <2> QED  BY <1>1, <1>3, <2>1 DEF EntryFits, Room, Held, Spare, order
<1> QED  BY <1>2, <1>4, <1>5

\* However a quantity is reserved on a line, it adds to what is asked of it.
LEMMA TakenAdds ==
  ASSUME TypeOK, NEW q \in Nat, NEW n \in Line, NEW decides \in BOOLEAN,
         MaterialOf[n] \in Material, Taken(n, q, decides)
  PROVE  /\ reserved' \in [Line -> Nat] /\ requested' \in [Line -> Nat]
         /\ free' \in [Material -> Int] /\ required' = required /\ issued' = issued
         /\ reserved'[n] + requested'[n] = reserved[n] + requested[n] + q
         /\ \A m \in Line : m # n => SameLine(m)
<1>0. /\ reserved \in [Line -> Nat] /\ requested \in [Line -> Nat] /\ free \in [Material -> Int]
  BY DEF TypeOK
<1>1. CASE decides
  <2>1. /\ reserved' = [reserved EXCEPT ![n] = @ + q]
        /\ free' = [free EXCEPT ![MaterialOf[n]] = @ - q]
        /\ UNCHANGED <<required, issued, requested>>
    BY <1>1 DEF Taken
  <2>2. /\ reserved'[n] = reserved[n] + q /\ reserved' \in [Line -> Nat]
        /\ free' \in [Material -> Int] /\ \A m \in Line : m # n => reserved'[m] = reserved[m]
    BY <1>0, <2>1
  <2>3. reserved'[n] + requested'[n] = reserved[n] + requested[n] + q
    BY <1>0, <2>1, <2>2
  <2> QED  BY <1>0, <2>1, <2>2, <2>3 DEF SameLine
<1>2. CASE ~decides
  <2>1. /\ requested' = [requested EXCEPT ![n] = @ + q]
        /\ UNCHANGED <<required, issued, reserved, free>>
    BY <1>2 DEF Taken
  <2>2. /\ requested'[n] = requested[n] + q /\ requested' \in [Line -> Nat]
        /\ \A m \in Line : m # n => requested'[m] = requested[m]
    BY <1>0, <2>1
  <2>3. reserved'[n] + requested'[n] = reserved[n] + requested[n] + q
    BY <1>0, <2>1, <2>2
  <2> QED  BY <1>0, <2>1, <2>2, <2>3 DEF SameLine
<1> QED  BY <1>1, <1>2

\* What a reserving step works on.
LEMMA ReserveTakes ==
  ASSUME IInv, NEW p \in Session, ReserveLine(p)
  PROVE  /\ Head(todo[p]).line \in Line /\ MaterialOf[Head(todo[p]).line] \in Material
         /\ Head(todo[p]).reservable \in Nat /\ Reservable(p) \in Nat
         /\ Reservable(p) <= InStockUnit(Head(todo[p]).line, Head(todo[p]).reservable)
         /\ \/ Head(todo[p]).line \in moved[p]
            \/ Room(Head(todo[p]).line, Head(todo[p]).reservable)
         /\ todo[p] # <<>> /\ Advance(p)
         /\ Taken(Head(todo[p]).line, Reservable(p), p \in Decider)
         /\ Overtake(Head(todo[p]).line, Session \ {p})
         /\ UNCHANGED <<pc, moves>>
<1> USE DEF IInv
<1>1. PICK e, n, k, q : /\ e = Head(todo[p]) /\ n = e.line /\ k = e.reservable
                        /\ q = Reservable(p)
  OBVIOUS
<1>2. /\ todo[p] # <<>> /\ k > 0 /\ q > 0 /\ Taken(n, q, p \in Decider) /\ Advance(p)
      /\ Overtake(n, Session \ {p}) /\ UNCHANGED <<pc, moves>>
  BY <1>1 DEF ReserveLine
<1>3. 1 \in DOMAIN todo[p] /\ e = todo[p][1] /\ n \in Line /\ k \in Nat
  <2>1. todo[p] \in Seq([line : Line, reservable : Nat])
    BY DEF TypeOK
  <2>2. 1 \in DOMAIN todo[p] /\ Head(todo[p]) = todo[p][1]
    BY <1>2, <2>1, InSeq
  <2>3. todo[p][1] \in [line : Line, reservable : Nat]
    BY <2>1, <2>2, InSeq
  <2> QED  BY <1>1, <2>2, <2>3
<1>4. MaterialOf[n] \in Material /\ (n \in moved[p] \/ Room(n, k))
  <2>1. EntryFits(p, 1)
    BY <1>3 DEF RunsFit
  <2> QED  BY <1>1, <1>2, <1>3, <2>1 DEF EntryFits
<1>5. PICK have \in Int : have = free[MaterialOf[n]]
  BY <1>4 DEF TypeOK
<1>6. PICK want \in Int : want = InStockUnit(n, k)
  <2>1. k \in Int
    BY <1>3
  <2> QED  BY <1>3, <1>4, <2>1, Units, StockConversion
<1>7. q = Min({want, have})
  BY <1>1, <1>5, <1>6 DEF Reservable
<1>8. q \in Int /\ q <= want
  BY <1>7, MinOfTwo
<1>9. q \in Nat
  BY <1>2, <1>8
<1> QED  BY <1>1, <1>2, <1>3, <1>4, <1>6, <1>8, <1>9

LEMMA ReserveSafe ==
  ASSUME IInv, NEW p \in Session, ReserveLine(p)
  PROVE  IInv'
<1> USE DEF IInv
<1>1. PICK n : n = Head(todo[p]).line
  OBVIOUS
<1>2. PICK q : q = Reservable(p)
  OBVIOUS
<1>3. /\ n \in Line /\ MaterialOf[n] \in Material /\ q \in Nat
      /\ todo[p] # <<>> /\ Advance(p) /\ Taken(n, q, p \in Decider)
      /\ Overtake(n, Session \ {p}) /\ UNCHANGED <<pc, moves>>
  BY <1>1, <1>2, ReserveTakes
<1>4. /\ reserved' \in [Line -> Nat] /\ requested' \in [Line -> Nat]
      /\ free' \in [Material -> Int] /\ required' = required /\ issued' = issued
      /\ \A m \in Line : m # n => SameLine(m)
  <2>1. (p \in Decider) \in BOOLEAN
    OBVIOUS
  <2> QED  BY <1>3, <2>1, TakenAdds
<1>5. /\ todo' \in [Session -> Seq([line : Line, reservable : Nat])]
      /\ LinesOnce'
      /\ \A s \in Session : s # p => todo'[s] = todo[s]
      /\ \A i \in DOMAIN todo'[p] : /\ i + 1 \in DOMAIN todo[p]
                                    /\ todo'[p][i] = todo[p][i + 1]
                                    /\ todo'[p][i].line # n
  BY <1>1, <1>3, AdvanceKeeps
<1>6. moved' = [s \in Session |-> IF s \in Session \ {p} /\ pc[s] = "running"
                                  THEN moved[s] \cup {n} ELSE moved[s]]
  BY <1>3 DEF Overtake
<1>7. TypeOK'
  BY <1>3, <1>4, <1>5, <1>6 DEF TypeOK
<1>8. pc[p] = "running"
  BY DEF ReserveLine
<1>9. IdleDone'
  BY <1>3, <1>5, <1>8 DEF IdleDone
<1>10. RunsFit'
  <2> SUFFICES ASSUME NEW s \in Session, NEW i \in DOMAIN todo'[s]
               PROVE  EntryFits(s, i)'
    BY DEF RunsFit
  <2>1. PICK j \in DOMAIN todo[s] : todo'[s][i] = todo[s][j] /\ (s = p => todo[s][j].line # n)
    <3>1. CASE s = p
      <4>1. i + 1 \in DOMAIN todo[p] /\ todo'[p][i] = todo[p][i + 1] /\ todo'[p][i].line # n
        BY <3>1, <1>5
      <4> QED  BY <3>1, <4>1
    <3>2. CASE s # p
      BY <3>2, <1>5
    <3> QED  BY <3>1, <3>2
  <2>2. PICK m, k : m = todo[s][j].line /\ k = todo[s][j].reservable
    OBVIOUS
  <2>3. m \in Line /\ k \in Nat
    <3>1. todo[s] \in Seq([line : Line, reservable : Nat])
      BY DEF TypeOK
    <3>2. todo[s][j] \in [line : Line, reservable : Nat]
      BY <3>1, InSeq
    <3> QED  BY <2>2, <3>2
  <2>4. k = 0 \/ (MaterialOf[m] \in Material /\ (m \in moved[s] \/ Room(m, k)))
    <3>1. EntryFits(s, j)
      BY DEF RunsFit
    <3> QED  BY <2>2, <3>1 DEF EntryFits
  <2>5. pc[s] = "running"
    <3> SUFFICES ASSUME pc[s] # "running" PROVE FALSE
      OBVIOUS
    <3>1. todo[s] = <<>> /\ DOMAIN todo[s] = {}
      BY DEF IdleDone
    <3> QED  BY <2>1, <3>1
  <2>6. m \in moved[s] => m \in moved'[s]
    BY <1>6
  <2>7. CASE m = n
    <3>1. s # p
      BY <2>1, <2>2, <2>7
    <3>2. m \in moved'[s]
      BY <1>6, <2>5, <2>7, <3>1
    <3> QED  BY <2>1, <2>2, <2>7, <3>2, <1>3 DEF EntryFits
  <2>8. CASE m # n
    <3>1. Room(m, k) => Room(m, k)'
      BY <1>4, <2>3, <2>8, SameLineRoom
    <3> QED  BY <2>1, <2>2, <2>4, <2>6, <3>1 DEF EntryFits
  <2> QED  BY <2>7, <2>8
<1> QED  BY <1>5, <1>7, <1>9, <1>10

\* A run's own reservation stays within the need it read, and rounding.
LEMMA ReserveFits ==
  ASSUME IInv, NEW p \in Session, ReserveLine(p),
         NEW n \in Line, n = Head(todo[p]).line, n \notin moved[p]
  PROVE  WithinNeed(n)'
<1> USE DEF IInv
<1>1. PICK k, q : k = Head(todo[p]).reservable /\ q = Reservable(p)
  OBVIOUS
<1>2. /\ n \in Line /\ MaterialOf[n] \in Material /\ k \in Nat /\ q \in Nat
      /\ q <= InStockUnit(n, k) /\ Room(n, k) /\ Taken(n, q, p \in Decider)
  BY <1>1, ReserveTakes
<1>3. PICK u \in Nat \ {0} : u = LineUnit[n]
  BY <1>2, Units
<1>4. PICK v \in Nat \ {0} : v = StockUnit[MaterialOf[n]]
  BY <1>2, Units
<1>5. /\ required'[n] = required[n] /\ issued'[n] = issued[n]
      /\ reserved'[n] + requested'[n] = reserved[n] + requested[n] + q
  <2>1. (p \in Decider) \in BOOLEAN
    OBVIOUS
  <2> QED  BY <1>2, <2>1, TakenAdds
<1>6. PICK c \in Int : /\ c = InStockUnit(n, k) /\ (u = v => c = k)
                       /\ u # v => 2 * (v * c) <= 2 * (u * k) + v
  <2>1. k \in Int
    BY <1>2
  <2> QED  BY <1>2, <1>3, <1>4, <2>1, StockConversion
<1>7. PICK a \in Int, i \in Int, r \in Int :
        a = reserved[n] + requested[n] /\ i = issued[n] /\ r = required[n]
  <2>1. /\ reserved[n] \in Nat /\ requested[n] \in Nat /\ issued[n] \in Nat
        /\ required[n] \in Nat
    BY <1>2 DEF TypeOK
  <2> QED  BY <2>1
<1>8. PICK x \in Int, y \in Int, z \in Int, w \in Int, t \in Int :
        x = v * a /\ y = u * i /\ z = u * k /\ w = v * q /\ t = u * r
  <2>1. k \in Int /\ q \in Int
    BY <1>2
  <2>2. v * a \in Int /\ u * i \in Int /\ u * k \in Int /\ v * q \in Int /\ u * r \in Int
    BY <2>1
  <2> QED  BY <2>2
<1>9. v * (a + q) = x + w
  <2>1. v \in Nat /\ a \in Int /\ q \in Int
    BY <1>2
  <2>2. v * (a + q) = v * a + v * q
    BY <2>1, Products
  <2> QED  BY <1>8, <2>2
<1>10. w <= v * c /\ v * c \in Int
  BY <1>2, <1>6, <1>8, Products
<1>11. Held(n)' = x + w + y
  <2>1. Held(n)' = v * (reserved'[n] + requested'[n]) + u * issued'[n]
    BY <1>3, <1>4 DEF Held
  <2> QED  BY <2>1, <1>5, <1>7, <1>8, <1>9
<1>12. 2 * (x + y) + 2 * z <= 2 * t + (IF v = u THEN 0 ELSE 2 * u)
  <2>1. Held(n) = x + y
    BY <1>3, <1>4, <1>7, <1>8 DEF Held
  <2> QED  BY <1>2, <1>3, <1>4, <1>7, <1>8, <2>1 DEF Room, Spare
<1>13. 2 * (x + w + y) <= 2 * t + (IF v = u THEN 0 ELSE 2 * u + v)
  <2>1. CASE u = v
    <3>1. w <= z
      BY <2>1, <1>6, <1>8, <1>10
    <3> QED  BY <2>1, <3>1, <1>12
  <2>2. CASE u # v
    <3>1. 2 * w <= 2 * z + v
      BY <2>2, <1>6, <1>8, <1>10
    <3> QED  BY <2>2, <3>1, <1>12
  <2> QED  BY <2>1, <2>2
<1>14. WithinNeed(n)' <=> 2 * Held(n)' <= 2 * (u * required'[n]) + (IF v = u THEN 0 ELSE 2 * u + v)
  BY <1>3, <1>4 DEF WithinNeed, Slack
<1> QED  BY <1>1, <1>5, <1>7, <1>8, <1>11, <1>13, <1>14

\* Each thing others do to a line changes that line alone.
LEMMA OthersSafe ==
  ASSUME IInv, NEW n \in Line, ByOthers(n)
  PROVE  IInv'
<1> USE DEF IInv
<1>0. MaterialOf[n] \in Material /\ UNCHANGED <<pc, todo>> /\ moves' \in Nat
  <2>1. Move(n)
    BY DEF ByOthers, ReserveByHand, Accept, Withdraw, Release, IssueToLine, ReturnFromLine, SaveLine
  <2> QED  BY <2>1, MaterialAssumption DEF Move, TypeOK
<1>1. \A q \in Int : Shift(MaterialOf[n], q) => free' \in [Material -> Int]
  BY <1>0 DEF Shift, TypeOK
<1>2. ASSUME NEW sessions \in SUBSET Session, Overtake(n, sessions)
      PROVE  /\ moved' \in [Session -> SUBSET Line]
             /\ sessions = Session =>
                  \A s \in Session : pc[s] = "running" => moved'[s] = moved[s] \cup {n}
             /\ sessions = {} => moved' = moved
  <2>1. moved \in [Session -> SUBSET Line]
    BY DEF TypeOK
  <2>2. moved' = [s \in Session |-> IF s \in sessions /\ pc[s] = "running"
                                    THEN moved[s] \cup {n} ELSE moved[s]]
    BY <1>2 DEF Overtake
  <2> QED  BY <2>1, <2>2
<1>3. CASE ReserveByHand(n)
  <2>1. PICK q \in Nat, decides \in BOOLEAN : Taken(n, q, decides) /\ Overtake(n, Session)
    <3>1. 1 .. MaxQty \subseteq Nat
      BY QuantityAssumption
    <3> QED  BY <1>3, <3>1 DEF ReserveByHand
  <2>2. /\ reserved' \in [Line -> Nat] /\ requested' \in [Line -> Nat]
        /\ free' \in [Material -> Int] /\ required' = required /\ issued' = issued
        /\ \A m \in Line : m # n => SameLine(m)
    BY <1>0, <2>1, TakenAdds
  <2>3. TypeOK'
    BY <1>0, <1>2, <2>1, <2>2 DEF TypeOK
  <2> QED  BY <1>0, <1>2, <2>1, <2>2, <2>3, MoveKeeps
<1>4. CASE Accept(n)
  <2>1. /\ reserved' = [reserved EXCEPT ![n] = @ + requested[n]]
        /\ requested' = [requested EXCEPT ![n] = 0]
        /\ Shift(MaterialOf[n], -requested[n])
        /\ UNCHANGED <<required, issued, moved>>
    BY <1>4 DEF Accept
  <2>2. requested[n] \in Nat /\ -requested[n] \in Int
    BY DEF TypeOK
  <2>3. TypeOK'
    BY <1>0, <1>1, <2>1, <2>2 DEF TypeOK
  <2>4. (\A m \in Line : m # n => SameLine(m)) /\ Eased(n)
    BY <2>1 DEF TypeOK, SameLine, Eased
  <2> QED  BY <1>0, <2>1, <2>3, <2>4, MoveKeeps
<1>5. CASE Withdraw(n)
  <2>1. /\ requested' = [requested EXCEPT ![n] = 0]
        /\ UNCHANGED <<required, issued, reserved, free, moved>>
    BY <1>5 DEF Withdraw
  <2>2. TypeOK'
    BY <1>0, <2>1 DEF TypeOK
  <2>3. (\A m \in Line : m # n => SameLine(m)) /\ Eased(n)
    BY <2>1 DEF TypeOK, SameLine, Eased
  <2> QED  BY <1>0, <2>1, <2>2, <2>3, MoveKeeps
<1>6. CASE Release(n)
  <2>1. PICK q \in 1 .. reserved[n] :
          /\ reserved' = [reserved EXCEPT ![n] = @ - q]
          /\ free' = free \/ Shift(MaterialOf[n], q)
          /\ UNCHANGED <<required, issued, requested, moved>>
    BY <1>6 DEF Release
  <2>2. reserved[n] \in Nat /\ q \in Int /\ q <= reserved[n] /\ 1 <= q
    BY DEF TypeOK
  <2>3. reserved' \in [Line -> Nat] /\ reserved'[n] = reserved[n] - q
        /\ \A m \in Line : m # n => reserved'[m] = reserved[m]
    BY <2>1, <2>2 DEF TypeOK
  <2>4. TypeOK'
    BY <1>0, <1>1, <2>1, <2>2, <2>3 DEF TypeOK
  <2>5. (\A m \in Line : m # n => SameLine(m)) /\ Eased(n)
    BY <2>1, <2>2, <2>3 DEF TypeOK, SameLine, Eased
  <2> QED  BY <1>0, <2>1, <2>4, <2>5, MoveKeeps
<1>7. CASE IssueToLine(n)
  <2>1. PICK k \in Nat, d \in 0 .. reserved[n], f \in Nat :
          /\ issued' = [issued EXCEPT ![n] = @ + k]
          /\ reserved' = [reserved EXCEPT ![n] = @ - d]
          /\ Shift(MaterialOf[n], -f) /\ Overtake(n, Session)
          /\ UNCHANGED <<required, requested>>
    <3>1. 0 .. MaxQty \subseteq Nat /\ 1 .. MaxQty \subseteq Nat
      BY QuantityAssumption
    <3> QED  BY <1>7, <3>1 DEF IssueToLine
  <2>2. reserved[n] \in Nat /\ d \in Int /\ 0 <= d /\ d <= reserved[n] /\ -f \in Int
    BY DEF TypeOK
  <2>3. reserved' \in [Line -> Nat]
    BY <2>1, <2>2 DEF TypeOK
  <2>4. TypeOK'
    <3>1. free' \in [Material -> Int] /\ moved' \in [Session -> SUBSET Line]
      BY <1>1, <1>2, <2>1, <2>2
    <3>2. issued' \in [Line -> Nat]
      BY <2>1 DEF TypeOK
    <3> QED  BY <1>0, <2>1, <2>3, <3>1, <3>2 DEF TypeOK
  <2>5. \A m \in Line : m # n => SameLine(m)
    BY <2>1 DEF TypeOK, SameLine
  <2> QED  BY <1>0, <1>2, <2>1, <2>4, <2>5, MoveKeeps
<1>8. CASE ReturnFromLine(n)
  <2>1. PICK q \in Int, d \in Nat, f \in Nat :
          /\ issued' = [issued EXCEPT ![n] = Max({0, @ - InLineUnit(n, q)})]
          /\ reserved' = [reserved EXCEPT ![n] = @ + d]
          /\ Shift(MaterialOf[n], f) /\ Overtake(n, Session)
          /\ UNCHANGED <<required, requested>>
    <3>1. PICK q \in 1 .. MaxQty : \E d \in 0 .. q : \E f \in 0 .. q - d :
            /\ issued' = [issued EXCEPT ![n] = Max({0, @ - InLineUnit(n, q)})]
            /\ reserved' = [reserved EXCEPT ![n] = @ + d]
            /\ Shift(MaterialOf[n], f) /\ Overtake(n, Session)
            /\ UNCHANGED <<required, requested>>
      BY <1>8 DEF ReturnFromLine
    <3>2. q \in Int /\ \A d \in 0 .. q : d \in Nat /\ \A f \in 0 .. q - d : f \in Nat
      BY QuantityAssumption
    <3> QED  BY <3>1, <3>2
  <2>2. InLineUnit(n, q) \in Int
    BY <1>0, <2>1, Units, LineConversion
  <2>3. PICK left \in Int : left = issued[n] - InLineUnit(n, q)
    BY <2>2 DEF TypeOK
  <2>4. PICK k : k = Max({0, left})
    OBVIOUS
  <2>5. k \in Nat
    BY <2>4, MaxOfTwo
  <2>6. issued' = [issued EXCEPT ![n] = k]
    BY <2>1, <2>3, <2>4
  <2>7. TypeOK'
    BY <1>0, <1>1, <1>2, <2>1, <2>5, <2>6 DEF TypeOK
  <2>8. \A m \in Line : m # n => SameLine(m)
    BY <2>1, <2>6 DEF TypeOK, SameLine
  <2> QED  BY <1>0, <1>2, <2>1, <2>7, <2>8, MoveKeeps
<1>9. CASE SaveLine(n)
  <2>1. PICK r \in Nat, k \in Nat :
          /\ required' = [required EXCEPT ![n] = r]
          /\ issued' = [issued EXCEPT ![n] = k]
          /\ Overtake(n, IF r < required[n] \/ k > issued[n] THEN Session ELSE {})
          /\ UNCHANGED <<reserved, requested, free>>
    <3>1. 0 .. MaxQty \subseteq Nat
      BY QuantityAssumption
    <3> QED  BY <1>9, <3>1 DEF SaveLine
  <2>2. required[n] \in Nat /\ issued[n] \in Nat
    BY DEF TypeOK
  <2>3. \A m \in Line : m # n => SameLine(m)
    BY <2>1 DEF TypeOK, SameLine
  <2>4. required'[n] = r /\ issued'[n] = k
    BY <2>1 DEF TypeOK
  <2>5. CASE r < required[n] \/ k > issued[n]
    <3>1. Overtake(n, Session)
      BY <2>1, <2>5
    <3>2. TypeOK'
      BY <1>0, <1>2, <2>1, <3>1 DEF TypeOK
    <3> QED  BY <1>0, <1>2, <2>3, <3>1, <3>2, MoveKeeps
  <2>6. CASE ~(r < required[n] \/ k > issued[n])
    <3>1. Overtake(n, {})
      BY <2>1, <2>6
    <3>2. moved' = moved
      BY <1>2, <3>1
    <3>3. TypeOK'
      BY <1>0, <2>1, <3>2 DEF TypeOK
    <3>4. Eased(n)
      BY <2>1, <2>2, <2>4, <2>6 DEF Eased, TypeOK
    <3> QED  BY <1>0, <2>3, <3>2, <3>3, <3>4, MoveKeeps
  <2> QED  BY <2>5, <2>6
<1> QED  BY <1>3, <1>4, <1>5, <1>6, <1>7, <1>8, <1>9 DEF ByOthers

\* Steps that leave the lines and the runs alone.
LEMMA ElsewhereKeeps ==
  ASSUME IInv, UNCHANGED <<order, pc, todo, moves, moved>>, free' \in [Material -> Int]
  PROVE  IInv'
<1> USE DEF IInv
<1>1. TypeOK'
  BY DEF TypeOK, order
<1>2. RunsFit'
  <2> SUFFICES ASSUME NEW p \in Session, NEW i \in DOMAIN todo'[p]
               PROVE  EntryFits(p, i)'
    BY DEF RunsFit
  <2>1. EntryFits(p, i)
    BY DEF RunsFit
  <2> QED  BY <2>1 DEF EntryFits, Room, Held, Spare, order
<1>3. LinesOnce' /\ IdleDone'
  BY DEF LinesOnce, IdleDone
<1> QED  BY <1>1, <1>2, <1>3

LEMMA NextSafe == IInv /\ [Next]_vars => IInv'
<1> SUFFICES ASSUME IInv, [Next]_vars PROVE IInv'
  OBVIOUS
<1>1. ASSUME NEW p \in Session, Press(p) PROVE IInv'
  <2>1. CASE ReadPosition(p)
    BY <2>1, ReadSafe
  <2>2. CASE SkipLine(p)
    BY <2>2, SkipSafe
  <2>3. CASE ReserveLine(p)
    BY <2>3, ReserveSafe
  <2>4. CASE RefuseLine(p) \/ Finish(p)
    BY <2>4, StopSafe
  <2> QED  BY <1>1, <2>1, <2>2, <2>3, <2>4 DEF Press
<1>2. ASSUME NEW n \in Line, ByOthers(n) PROVE IInv'
  BY <1>2, OthersSafe
<1>3. ASSUME NEW m \in Material, Elsewhere(m) PROVE IInv'
  <2>1. PICK f \in -MaxDebt .. MaxQty : free' = [free EXCEPT ![m] = f]
    BY <1>3 DEF Elsewhere
  <2>2. f \in Int
    BY QuantityAssumption
  <2>3. free' \in [Material -> Int]
    BY <2>1, <2>2 DEF IInv, TypeOK
  <2> QED  BY <1>3, <2>3, ElsewhereKeeps DEF Elsewhere
<1>4. CASE UNCHANGED vars
  <2>1. free' \in [Material -> Int]
    BY <1>4 DEF vars, IInv, TypeOK
  <2> QED  BY <1>4, <2>1, ElsewhereKeeps DEF vars
<1> QED  BY <1>1, <1>2, <1>3, <1>4 DEF Next

-----------------------------------------------------------------------------
\* Whatever others do to the order's lines in between, what each run still means to
\* ask for of a line is within its need, unless more was asked of that line since.
THEOREM Invariance == Spec => []IInv
<1>1. Init => IInv
  BY InitSafe
<1>2. IInv /\ [Next]_vars => IInv'
  BY NextSafe
<1> QED  BY <1>1, <1>2, PTL DEF Spec

\* No figure is ever negative and every run is at a line of the order.
THEOREM TypeCorrect == Spec => []TypeOK
<1>1. IInv => TypeOK
  BY DEF IInv
<1> QED  BY Invariance, <1>1, PTL

\* reserveOrderMaterials reserves no more than a line needs, to within the rounding of
\* units, unless someone asked more of that line between the reading and the reserving.
THEOREM RunsAskWithinNeed == Spec => RunAsksWithinNeed
<1>1. IInv /\ [Next]_vars =>
        [\A p \in Session : \A n \in Line :
           ReserveLine(p) /\ n = Head(todo[p]).line => n \in moved[p] \/ WithinNeed(n)']_vars
  BY ReserveFits
<1> QED  BY Invariance, <1>1, PTL DEF Spec, RunAsksWithinNeed

-----------------------------------------------------------------------------
(* BomIssue: what a line was issued, and its log                             *)

\* Requests that move stock owe the log their difference.
Owed == [s \in Person |-> job[s].delta]
Owing(n) == SumFunctionOnSet(Owed, Unlogged(n))

\* What a request works from.
Fits(s) ==
  /\ step[s] # "idle" => job[s].on \in born
  /\ step[s] = "issue" => job[s].delta > 0
  /\ step[s] \in {"correct", "settle", "save"} => job[s].was + job[s].delta >= 0
  /\ step[s] \in {"remove", "delete", "link"} => job[s].clean

\* A line not written yet has no books, one without log rows no log.
BooksOK == \A n \in Item :
  /\ n \notin born => figure[n] = 0
  /\ n \notin logged => log[n] = 0

Busy == {s \in Person : step[s] # "idle"}

Explained == \A n \in there \ blamed : figure[n] = log[n] + Owing(n)

BomInv ==
  /\ BomTypeOK /\ BooksOK /\ IsFiniteSet(Busy)
  /\ \A s \in Person : Fits(s)
  /\ Explained

\* Before anything was issued nothing is owed.
LEMMA BomInitSafe == BomInit => BomInv
<1> SUFFICES ASSUME BomInit PROVE BomInv
  OBVIOUS
<1> USE LineAssumption, BoundAssumption DEF BomInit, NoJob
<1>1. BomTypeOK
  BY DEF BomTypeOK, Place, Job
<1>2. BooksOK
  BY DEF BooksOK
<1>3. Busy = {} /\ IsFiniteSet(Busy)
  BY FS_EmptySet DEF Busy
<1>4. \A s \in Person : Fits(s)
  BY DEF Fits
<1>5. Explained
  <2> SUFFICES ASSUME NEW n \in there \ blamed PROVE figure[n] = log[n] + Owing(n)
    BY DEF Explained
  <2>1. Unlogged(n) = {}
    BY DEF Unlogged
  <2>2. Owing(n) = 0
    BY <2>1, SumEmpty DEF Owing
  <2>3. figure[n] = 0 /\ log[n] = 0
    OBVIOUS
  <2> QED  BY <2>2, <2>3
<1> QED  BY <1>1, <1>2, <1>3, <1>4, <1>5 DEF BomInv

TablesOK ==
  /\ there \subseteq born /\ born \subseteq Item
  /\ linked \cup logged \cup held \subseteq there
  /\ figure \in [Item -> Nat] /\ log \in [Item -> Int] /\ out \in Nat
  /\ blamed \subseteq there /\ requests \in 0 .. MaxRequests

\* What a request owes the log of a line.
Share(s, n) == IF s \in Unlogged(n) THEN job[s].delta ELSE 0

\* What one element adds to a sum over T.
Part(f, T, x) == IF x \in T THEN f[x] ELSE 0

\* A sum, one element apart.
LEMMA SumBut ==
  ASSUME NEW f, NEW T, IsFiniteSet(T), \A y \in T : f[y] \in Int, NEW x
  PROVE  /\ SumFunctionOnSet(f, T \ {x}) \in Int
         /\ SumFunctionOnSet(f, T) = Part(f, T, x) + SumFunctionOnSet(f, T \ {x})
<1>1. IsFiniteSet(T \ {x}) /\ \A y \in T \ {x} : f[y] \in Int
  BY FS_Subset
<1>2. SumFunctionOnSet(f, T \ {x}) \in Int
  BY <1>1, SumIsInt
<1>3. CASE x \in T
  BY <1>2, <1>3, SumSplit DEF Part
<1>4. CASE x \notin T
  <2>1. T \ {x} = T
    BY <1>4
  <2>2. SumFunctionOnSet(f, T) = SumFunctionOnSet(f, T \ {x})
    BY <2>1, Zenon
  <2> QED  BY <1>2, <1>4, <2>2 DEF Part
<1> QED  BY <1>2, <1>3, <1>4

\* Finitely many requests are in flight, so what is owed is a sum.
LEMMA UnloggedFinite ==
  ASSUME BomTypeOK, IsFiniteSet(Busy), NEW n
  PROVE  /\ IsFiniteSet(Unlogged(n)) /\ Unlogged(n) \subseteq Busy
         /\ \A s \in Unlogged(n) : s \in Person /\ Owed[s] \in Int
<1>1. Unlogged(n) \subseteq Busy
  BY DEF Unlogged, Busy
<1>2. \A s \in Unlogged(n) : s \in Person /\ Owed[s] \in Int
  BY DEF Unlogged, Owed, BomTypeOK, Job
<1> QED  BY <1>1, <1>2, FS_Subset

\* What is owed for a line, one request apart.
LEMMA OwingBut ==
  ASSUME BomTypeOK, IsFiniteSet(Busy), NEW n, NEW s \in Person
  PROVE  /\ SumFunctionOnSet(Owed, Unlogged(n) \ {s}) \in Int
         /\ Share(s, n) \in Int /\ Owing(n) \in Int
         /\ Owing(n) = Share(s, n) + SumFunctionOnSet(Owed, Unlogged(n) \ {s})
<1> DEFINE T == Unlogged(n)
<1>1. IsFiniteSet(T) /\ \A y \in T : Owed[y] \in Int
  BY UnloggedFinite
<1>2. SumFunctionOnSet(Owed, T) \in Int
  BY <1>1, SumIsInt
<1>3. /\ SumFunctionOnSet(Owed, T \ {s}) \in Int
      /\ SumFunctionOnSet(Owed, T) = Part(Owed, T, s) + SumFunctionOnSet(Owed, T \ {s})
  <2>1. PICK o, U : o = Owed /\ U = T
    OBVIOUS
  <2>2. IsFiniteSet(U) /\ \A y \in U : o[y] \in Int
    BY <1>1, <2>1
  <2>3. SumFunctionOnSet(o, U \ {s}) \in Int
    BY <2>2, SumBut
  <2>4. SumFunctionOnSet(o, U) = Part(o, U, s) + SumFunctionOnSet(o, U \ {s})
    BY <2>2, SumBut
  <2> QED  BY <2>1, <2>3, <2>4, Zenon
<1>4. Share(s, n) = Part(Owed, T, s)
  BY DEF Share, Owed, Part
<1>5. Share(s, n) \in Int
  BY <1>1, <1>4 DEF Part
<1> QED  BY <1>2, <1>3, <1>4, <1>5 DEF Owing

\* A step of one request changes what is owed by its own share.
LEMMA OwingStep ==
  ASSUME BomTypeOK, IsFiniteSet(Busy), NEW s \in Person, NEW w \in Place, NEW j \in Job,
         step' = [step EXCEPT ![s] = w], job' = [job EXCEPT ![s] = j]
  PROVE  /\ step' \in [Person -> Place] /\ job' \in [Person -> Job] /\ step'[s] = w /\ job'[s] = j
         /\ \A q \in Person : q # s => step'[q] = step[q] /\ job'[q] = job[q]
         /\ IsFiniteSet(Busy')
         /\ \A n : /\ Owing(n) \in Int /\ Share(s, n) \in Int /\ Share(s, n)' \in Int
                   /\ Owing(n)' = Owing(n) - Share(s, n) + Share(s, n)'
                   /\ Share(s, n)' = IF w \in {"log", "settle"} /\ j.on = n THEN j.delta ELSE 0
<1>1. /\ step' \in [Person -> Place] /\ job' \in [Person -> Job] /\ step'[s] = w /\ job'[s] = j
      /\ \A q \in Person : q # s => step'[q] = step[q] /\ job'[q] = job[q]
  BY DEF BomTypeOK
<1>2. IsFiniteSet(Busy')
  <2>1. Busy' \subseteq Busy \cup {s}
    BY <1>1 DEF Busy
  <2>2. IsFiniteSet(Busy \cup {s})
    BY FS_AddElement
  <2> QED  BY <2>1, <2>2, FS_Subset
<1>3. ASSUME NEW n
      PROVE  /\ Owing(n) \in Int /\ Share(s, n) \in Int /\ Share(s, n)' \in Int
             /\ Owing(n)' = Owing(n) - Share(s, n) + Share(s, n)'
             /\ Share(s, n)' = IF w \in {"log", "settle"} /\ j.on = n THEN j.delta ELSE 0
  <2>1. Share(s, n)' = IF w \in {"log", "settle"} /\ j.on = n THEN j.delta ELSE 0
    BY <1>1 DEF Share, Unlogged
  <2>2. Share(s, n)' \in Int
    BY <2>1 DEF Job
  <2> DEFINE R == Unlogged(n) \ {s}
  <2>3. Unlogged(n)' \ {s} = R /\ R \subseteq Person \ {s}
    BY <1>1 DEF Unlogged
  <2>4. /\ SumFunctionOnSet(Owed, R) \in Int /\ Share(s, n) \in Int /\ Owing(n) \in Int
        /\ Owing(n) = Share(s, n) + SumFunctionOnSet(Owed, R)
    BY OwingBut
  <2>5. IsFiniteSet(R) /\ \A q \in R : Owed[q] = Owed'[q]
    <3>1. IsFiniteSet(R)
      BY UnloggedFinite, FS_Subset
    <3> QED  BY <1>1, <2>3, <3>1 DEF Owed
  <2>6. SumFunctionOnSet(Owed, R) = SumFunctionOnSet(Owed', R)
    <3> HIDE DEF R
    <3> QED  BY <2>5, SumSame
  <2>7. Owing(n)' = Share(s, n)' + SumFunctionOnSet(Owed', R)
    <3>a. PICK U : U = Unlogged(n)'
      OBVIOUS
    <3>b. PICK o : o = Owed'
      OBVIOUS
    <3>1. IsFiniteSet(U) /\ \A y \in U : y \in Person /\ o[y] \in Int
      <4>1. U \subseteq Busy' /\ \A y \in U : y \in Person /\ o[y] \in Int
        BY <1>1, <3>a, <3>b DEF Unlogged, Busy, Owed, Job
      <4> QED  BY <1>2, <4>1, FS_Subset
    <3>2. SumFunctionOnSet(o, U) = Part(o, U, s) + SumFunctionOnSet(o, U \ {s})
      <4>1. \A y \in U : o[y] \in Int
        BY <3>1
      <4> QED  BY <3>1, <4>1, SumBut
    <3>3. Share(s, n)' = Part(o, U, s)
      BY <3>a, <3>b DEF Share, Owed, Unlogged, Part
    <3>4. Owing(n)' = SumFunctionOnSet(o, U)
      BY <3>a, <3>b DEF Owing
    <3>5. U \ {s} = R
      BY <2>3, <3>a
    <3> DEFINE whole == SumFunctionOnSet(o, U)
               rest == SumFunctionOnSet(o, U \ {s})
               mine == Part(o, U, s)
    <3>6. whole = mine + rest
      BY <3>2
    <3>7. rest = SumFunctionOnSet(Owed', R)
      BY <3>5, <3>b, Zenon
    <3>8. Owing(n)' = whole /\ Share(s, n)' = mine
      BY <3>3, <3>4
    <3> HIDE DEF whole, rest, mine, R
    <3> QED  BY <3>6, <3>7, <3>8
  <2> DEFINE rest == SumFunctionOnSet(Owed, R)
             share == Share(s, n)
             now == Share(s, n)'
             owing == Owing(n)
  <2>8. rest \in Int /\ share \in Int /\ owing = share + rest /\ now \in Int /\ Owing(n)' = now + rest
    <3> HIDE DEF R
    <3>1. owing = share + rest
      BY <2>4
    <3>2. Owing(n)' = now + rest
      BY <2>6, <2>7
    <3> QED  BY <2>2, <2>4, <3>1, <3>2
  <2>9. Owing(n)' = owing - share + now
    <3> HIDE DEF rest, share, now, owing
    <3> QED  BY <2>8
  <2> QED  BY <2>1, <2>2, <2>4, <2>9
<1> QED  BY <1>1, <1>2, <1>3

\* What the tables owe each other after a step: a line that is there and not blamed was so
\* before, and what its log is short by changes with what is owed.
Balanced(s) == \A n \in there' \ blamed' :
  /\ n \in there \ blamed
  /\ figure'[n] - log'[n] - Share(s, n)' = figure[n] - log[n] - Share(s, n)

\* A step of one request.
LEMMA StepSafe ==
  ASSUME BomInv, NEW s \in Person, NEW w \in Place, NEW j \in Job,
         step' = [step EXCEPT ![s] = w], job' = [job EXCEPT ![s] = j],
         TablesOK', BooksOK', born \subseteq born', Fits(s)', Balanced(s)
  PROVE  BomInv'
<1>1. /\ step' \in [Person -> Place] /\ job' \in [Person -> Job] /\ step'[s] = w /\ job'[s] = j
      /\ \A q \in Person : q # s => step'[q] = step[q] /\ job'[q] = job[q]
      /\ IsFiniteSet(Busy')
      /\ \A n : /\ Owing(n) \in Int /\ Share(s, n) \in Int /\ Share(s, n)' \in Int
                /\ Owing(n)' = Owing(n) - Share(s, n) + Share(s, n)'
  BY OwingStep DEF BomInv
<1>2. BomTypeOK'
  BY <1>1 DEF BomTypeOK, TablesOK
<1>3. \A q \in Person : Fits(q)'
  <2> SUFFICES ASSUME NEW q \in Person, q # s
               PROVE  Fits(q)'
    OBVIOUS
  <2>1. Fits(q) /\ step'[q] = step[q] /\ job'[q] = job[q]
    BY <1>1 DEF BomInv
  <2> QED  BY <2>1 DEF Fits
<1>4. Explained'
  <2> SUFFICES ASSUME NEW n \in there' \ blamed'
               PROVE  figure'[n] = log'[n] + Owing(n)'
    BY DEF Explained
  <2>1. n \in Item /\ n \in there \ blamed
    BY DEF Balanced, TablesOK, BomInv, BomTypeOK
  <2> DEFINE f == figure[n]
             l == log[n]
             g == figure'[n]
             m == log'[n]
             was == Share(s, n)
             is == Share(s, n)'
             owing == Owing(n)
             after == Owing(n)'
  <2>2. f \in Int /\ l \in Int /\ g \in Int /\ m \in Int
    BY <2>1 DEF TablesOK, BomInv, BomTypeOK
  <2>3. was \in Int /\ is \in Int /\ owing \in Int /\ after = owing - was + is
    BY <1>1
  <2>4. g - m - is = f - l - was
    BY DEF Balanced
  <2>5. f = l + owing
    BY <2>1 DEF BomInv, Explained
  <2>6. g = m + after
    <3> HIDE DEF f, l, g, m, was, is, owing, after
    <3> QED  BY <2>2, <2>3, <2>4, <2>5
  <2> QED  BY <2>6
<1> QED  BY <1>1, <1>2, <1>3, <1>4 DEF BomInv

\* A line nobody has written yet is owed nothing.
LEMMA NothingOwed ==
  ASSUME BomInv, NEW n, n \notin born
  PROVE  Owing(n) = 0
<1>1. Unlogged(n) = {}
  BY DEF Unlogged, BomInv, Fits
<1> QED  BY <1>1, SumEmpty DEF Owing

\* A step that is no request's.
LEMMA AsideSafe ==
  ASSUME BomInv, UNCHANGED <<step, job>>, TablesOK', BooksOK', born \subseteq born',
         \A n \in there' \ blamed' :
           \/ n \in there \ blamed /\ figure'[n] - log'[n] = figure[n] - log[n]
           \/ n \notin born /\ figure'[n] = log'[n]
  PROVE  BomInv'
<1>1. BomTypeOK'
  BY DEF BomTypeOK, TablesOK, BomInv
<1>2. /\ Busy' = Busy /\ \A s \in Person : Fits(s)'
  BY DEF Busy, BomInv, Fits
<1>3. \A n : Owing(n)' = Owing(n)
  BY DEF Owing, Owed, Unlogged
<1>4. Explained'
  <2> SUFFICES ASSUME NEW n \in there' \ blamed'
               PROVE  figure'[n] = log'[n] + Owing(n)'
    BY DEF Explained
  <2>1. n \in Item /\ figure[n] \in Int /\ log[n] \in Int /\ figure'[n] \in Int /\ log'[n] \in Int
    BY DEF TablesOK, BomInv, BomTypeOK
  <2>2. CASE n \in there \ blamed /\ figure'[n] - log'[n] = figure[n] - log[n]
    <3> DEFINE f == figure[n]
               l == log[n]
               g == figure'[n]
               m == log'[n]
               owing == Owing(n)
    <3>1. f = l + owing
      BY <2>2 DEF BomInv, Explained
    <3>2. owing \in Int
      <4>1. \A y \in Unlogged(n) : Owed[y] \in Int
        BY UnloggedFinite DEF BomInv
      <4>2. IsFiniteSet(Unlogged(n))
        BY UnloggedFinite DEF BomInv
      <4> QED  BY <4>1, <4>2, SumIsInt DEF Owing
    <3>3. f \in Int /\ l \in Int /\ g \in Int /\ m \in Int /\ g - m = f - l
      BY <2>1, <2>2
    <3>4. g = m + owing
      <4> HIDE DEF f, l, g, m, owing
      <4> QED  BY <3>1, <3>2, <3>3
    <3> QED  BY <1>3, <3>4
  <2>3. CASE n \notin born /\ figure'[n] = log'[n]
    <3>1. Owing(n) = 0
      BY <2>3, NothingOwed
    <3>2. Owing(n)' = 0
      BY <1>3, <3>1, Zenon
    <3> QED  BY <2>1, <2>3, <3>2
  <2> QED  BY <2>2, <2>3
<1> QED  BY <1>1, <1>2, <1>4 DEF BomInv

\* What one request owes.
LEMMA ShareIs ==
  ASSUME BomTypeOK, NEW s \in Person, NEW n
  PROVE  /\ Share(s, n) = IF step[s] \in {"log", "settle"} /\ job[s].on = n THEN job[s].delta ELSE 0
         /\ Share(s, n) \in Int
BY DEF Share, Unlogged, BomTypeOK, Job

\* A request that ends owes nothing any more.
LEMMA EndSafe ==
  ASSUME BomInv, NEW s \in Person, End(s), TablesOK', BooksOK', born \subseteq born',
         \A n \in there' \ blamed' :
           /\ n \in there \ blamed
           /\ figure'[n] - log'[n] = figure[n] - log[n] - Share(s, n)
  PROVE  BomInv'
<1>1. NoJob \in Job /\ "idle" \in Place
  BY DEF NoJob, Job, Place
<1>2. step' = [step EXCEPT ![s] = "idle"] /\ job' = [job EXCEPT ![s] = NoJob]
  BY DEF End
<1>3. step'[s] = "idle"
  BY <1>2 DEF BomInv, BomTypeOK
<1>4. Fits(s)'
  BY <1>3 DEF Fits
<1>5. Balanced(s)
  <2> SUFFICES ASSUME NEW n \in there' \ blamed'
               PROVE  /\ n \in there \ blamed
                      /\ figure'[n] - log'[n] - Share(s, n)' = figure[n] - log[n] - Share(s, n)
    BY DEF Balanced
  <2>1. Share(s, n)' = 0
    BY <1>3 DEF Share, Unlogged
  <2>2. figure'[n] \in Int /\ log'[n] \in Int
    BY DEF TablesOK
  <2>3. figure'[n] - log'[n] - 0 = figure'[n] - log'[n]
    BY <2>2
  <2> QED  BY <2>1, <2>3
<1> QED  BY <1>1, <1>2, <1>4, <1>5, StepSafe

\* A request begins: it owes nothing yet.
LEMMA BeginSafe ==
  ASSUME BomInv, NEW s \in Person, NEW at \in Place \ {"idle", "log", "settle"}, NEW j \in Job,
         Begin(s, at, j),
         at = "issue" => j.delta > 0,
         at \in {"correct", "save"} => j.was + j.delta >= 0,
         at \in {"remove", "delete", "link"} => j.clean
  PROVE  BomInv'
<1>1. /\ step' = [step EXCEPT ![s] = at] /\ job' = [job EXCEPT ![s] = j] /\ j.on \in there
      /\ step[s] = "idle" /\ requests < MaxRequests /\ requests' = requests + 1
      /\ UNCHANGED <<lines, books, held, out, blamed>>
  BY DEF Begin
<1>2. step'[s] = at /\ job'[s] = j
  BY <1>1 DEF BomInv, BomTypeOK
<1>3. TablesOK' /\ BooksOK'
  BY <1>1, BoundAssumption DEF BomInv, BomTypeOK, TablesOK, BooksOK, lines, books
<1>4. Fits(s)'
  BY <1>1, <1>2 DEF Fits, lines, BomInv, BomTypeOK
<1>5. Balanced(s)
  <2>1. \A n : Share(s, n) = 0 /\ Share(s, n)' = 0
    BY <1>1, <1>2 DEF Share, Unlogged
  <2> QED  BY <1>1, <2>1 DEF Balanced, lines, books
<1>6. born \subseteq born'
  BY <1>1 DEF lines
<1> QED  BY <1>1, <1>3, <1>4, <1>5, <1>6, StepSafe

\* Looking before issuing, correcting, saving, removing and linking.
LEMMA LookSafe ==
  ASSUME BomInv, NEW s \in Person, NEW n \in there,
         \/ \E q \in 1 .. MaxEntry : Issue(s, n, q)
         \/ \E v \in 0 .. MaxEntry : Correct(s, n, v) \/ SaveRead(s, n, v)
         \/ \E at \in {"remove", "delete", "link"} : ClaimCheck(s, at, n)
  PROVE  BomInv'
<1>0. n \in Item /\ figure[n] \in Nat
  BY BoundAssumption DEF BomInv, BomTypeOK
<1> DEFINE asked(d) == [on |-> n, was |-> figure[n], delta |-> d, linked |-> (n \in linked), clean |-> TRUE]
<1>1. ASSUME NEW d \in Int
      PROVE  asked(d) \in Job /\ asked(d).was = figure[n] /\ asked(d).delta = d
  <2>1. (n \in linked) \in BOOLEAN
    OBVIOUS
  <2> QED  BY <1>0, <2>1 DEF Job
<1>2. ASSUME NEW q \in 1 .. MaxEntry, Issue(s, n, q)  PROVE BomInv'
  <2>1. Begin(s, "issue", asked(q))
    BY <1>2, Zenon DEF Issue, Ask
  <2>2. q \in Int /\ q > 0
    BY <1>0
  <2> HIDE DEF asked
  <2>3. PICK j \in Job : Begin(s, "issue", j) /\ j.delta > 0
    BY <1>1, <2>1, <2>2
  <2> QED  BY <2>3, BeginSafe DEF Place
<1>3. ASSUME NEW v \in 0 .. MaxEntry, Correct(s, n, v) \/ SaveRead(s, n, v)  PROVE BomInv'
  <2>1. PICK at \in {"correct", "save"} : Begin(s, at, asked(v - figure[n]))
    BY <1>3 DEF Correct, SaveRead, Ask
  <2>2. v - figure[n] \in Int /\ figure[n] + (v - figure[n]) >= 0
    BY <1>0
  <2> HIDE DEF asked
  <2>3. PICK j \in Job : Begin(s, at, j) /\ j.was + j.delta >= 0
    BY <1>1, <2>1, <2>2
  <2> QED  BY <2>1, <2>3, BeginSafe DEF Place
<1>4. ASSUME NEW at \in {"remove", "delete", "link"}, ClaimCheck(s, at, n)  PROVE BomInv'
  <2>1. Untouched(n)
    BY <1>0, <1>4 DEF ClaimCheck, Claimed, Untouched
  <2> DEFINE j == [on |-> n, was |-> 0, delta |-> 0, linked |-> (n \in linked), clean |-> Untouched(n)]
  <2>2. j \in Job /\ j.clean /\ Begin(s, at, j)
    <3>1. (n \in linked) \in BOOLEAN /\ Untouched(n) \in BOOLEAN
      BY DEF Untouched
    <3>2. j \in Job /\ j.clean
      BY <1>0, <2>1, <3>1 DEF Job
    <3>3. Begin(s, at, j)
      BY <1>4, Zenon DEF ClaimCheck
    <3> QED  BY <3>2, <3>3
  <2> HIDE DEF j
  <2> QED  BY <2>2, BeginSafe DEF Place
<1> QED  BY <1>2, <1>3, <1>4

\* What the inventory service leaves on the line.
LEMMA IssuedAfterIs ==
  ASSUME NEW n, figure[n] \in Nat, NEW d \in Int
  PROVE  /\ IssuedAfter(n, d) \in Nat
         /\ figure[n] + d >= 0 => IssuedAfter(n, d) = figure[n] + d
<1> DEFINE f == figure[n] + d
<1>1. f \in Int
  OBVIOUS
<1>2. IssuedAfter(n, d) = Max({0, f})
  BY DEF IssuedAfter
<1> HIDE DEF f
<1>3. Max({0, f}) = IF 0 >= f THEN 0 ELSE f
  BY <1>1, MaxOfTwo
<1>4. Max({0, f}) \in Nat /\ (f >= 0 => Max({0, f}) = f)
  BY <1>1, <1>3
<1>5. f = figure[n] + d
  BY DEF f
<1> QED  BY <1>2, <1>4, <1>5

\* Stock moves: the figure changes, and what is owed with it.
LEMMA MoveSafe == ASSUME BomInv, NEW s \in Person, MoveStock(s)  PROVE BomInv'
<1>1. PICK n, d : n = job[s].on /\ d = job[s].delta
  OBVIOUS
<1>2. /\ step[s] \in {"issue", "correct"} /\ n \in linked /\ out + d \in 0 .. MaxFigure
      /\ figure' = [figure EXCEPT ![n] = IssuedAfter(n, d)]
      /\ out' = out + d
      /\ blamed' = IF figure[n] + d < 0 THEN blamed \cup {n} ELSE blamed
      /\ UNCHANGED <<lines, log, logged, held, job, requests>>
  BY <1>1 DEF MoveStock
<1>3. PICK w \in {"log", "settle"} : /\ step' = [step EXCEPT ![s] = w]
                                     /\ w = "settle" <=> step[s] = "correct"
  BY <1>2 DEF MoveStock
<1>4. /\ n \in there /\ n \in Item /\ figure[n] \in Nat /\ d \in Int /\ job[s] \in Job
      /\ job' = [job EXCEPT ![s] = job[s]] /\ Fits(s)
  BY <1>1, <1>2 DEF BomInv, BomTypeOK, Job
<1>5. /\ IssuedAfter(n, d) \in Nat
      /\ figure[n] + d >= 0 => IssuedAfter(n, d) = figure[n] + d
  BY <1>4, IssuedAfterIs
<1>6. /\ figure' \in [Item -> Nat] /\ figure'[n] = IssuedAfter(n, d)
      /\ \A m \in Item : m # n => figure'[m] = figure[m]
  BY <1>2, <1>4, <1>5 DEF BomInv, BomTypeOK
<1>7. TablesOK'
  BY <1>2, <1>4, <1>6, BoundAssumption DEF BomInv, BomTypeOK, TablesOK, lines
<1>8. BooksOK'
  BY <1>2, <1>4, <1>6 DEF BomInv, BomTypeOK, BooksOK, lines
<1>9. step'[s] = w /\ job'[s] = job[s]
  BY <1>3, <1>4 DEF BomInv, BomTypeOK
<1>10. Fits(s)'
  BY <1>2, <1>3, <1>4, <1>9 DEF Fits, lines
<1>11. Balanced(s)
  <2> SUFFICES ASSUME NEW m \in there' \ blamed'
               PROVE  /\ m \in there \ blamed
                      /\ figure'[m] - log'[m] - Share(s, m)' = figure[m] - log[m] - Share(s, m)
    BY DEF Balanced
  <2>1. m \in there \ blamed /\ m \in Item /\ log'[m] = log[m] /\ log[m] \in Int /\ figure[m] \in Nat
    BY <1>2 DEF lines, BomInv, BomTypeOK
  <2>2. Share(s, m) = 0
    BY <1>2 DEF Share, Unlogged
  <2>3. CASE m = n
    <3>1. Share(s, m)' = d
      BY <1>1, <1>9, <2>3 DEF Share, Unlogged
    <3>2. figure[n] + d >= 0
      BY <1>2, <1>4, <2>3
    <3> DEFINE f == figure[m]
               g == figure'[m]
               l == log[m]
    <3>3. f \in Int /\ l \in Int /\ g = f + d /\ d \in Int
      BY <1>4, <1>5, <1>6, <2>1, <2>3, <3>2
    <3>4. g - l - d = f - l - 0
      <4> HIDE DEF f, g, l
      <4> QED  BY <3>3
    <3> QED  BY <2>1, <2>2, <3>1, <3>4
  <2>4. CASE m # n
    <3>1. Share(s, m)' = 0
      BY <1>1, <1>9, <2>4 DEF Share, Unlogged
    <3> QED  BY <1>6, <2>1, <2>2, <2>4, <3>1
  <2> QED  BY <2>3, <2>4
<1>12. born \subseteq born' /\ w \in Place
  BY <1>2 DEF lines, Place
<1> QED  BY <1>3, <1>4, <1>7, <1>8, <1>10, <1>11, <1>12, StepSafe

\* Writing over the books of one line.
Rewritten(n, f, l) ==
  /\ figure' = [figure EXCEPT ![n] = f] /\ log' = [log EXCEPT ![n] = l]
  /\ logged' = logged \cup {n} \/ (logged' = logged /\ l = log[n])
  /\ UNCHANGED <<born, there, linked, held>>

\* What the tables keep when a line's books are written over.
LEMMA BooksSet ==
  ASSUME BomInv, NEW n \in there, NEW f \in Nat, NEW l \in Int, Rewritten(n, f, l),
         out' \in Nat, requests' = requests, blamed' \subseteq blamed \cup {n}
  PROVE  /\ TablesOK' /\ BooksOK' /\ born \subseteq born' /\ there' = there
         /\ \A m \in Item : /\ figure'[m] = IF m = n THEN f ELSE figure[m]
                            /\ log'[m] = IF m = n THEN l ELSE log[m]
<1>1. \A m \in Item : /\ figure'[m] = IF m = n THEN f ELSE figure[m]
                      /\ log'[m] = IF m = n THEN l ELSE log[m]
  BY DEF Rewritten, BomInv, BomTypeOK
<1>2. n \in Item /\ n \in born
  BY DEF BomInv, BomTypeOK
<1>3. TablesOK'
  BY <1>2 DEF Rewritten, BomInv, BomTypeOK, TablesOK
<1>4. BooksOK'
  BY <1>1, <1>2 DEF Rewritten, BomInv, BooksOK
<1> QED  BY <1>1, <1>3, <1>4 DEF Rewritten

\* The log row: the figure stays, or is written again as it is.
LEMMA WriteLogSafe == ASSUME BomInv, NEW s \in Person, WriteLog(s)  PROVE BomInv'
<1>1. PICK n, d : n = job[s].on /\ d = job[s].delta
  OBVIOUS
<1>2. /\ step[s] \in {"log", "settle"} /\ n \in there /\ End(s)
      /\ log' = [log EXCEPT ![n] = log[n] + d] /\ logged' = logged \cup {n}
      /\ UNCHANGED <<lines, held, out, requests>> /\ blamed' = blamed
  BY <1>1 DEF WriteLog, Plus, marks
<1>3. n \in Item /\ job[s] \in Job /\ d \in Int /\ figure[n] \in Nat /\ log[n] \in Int
      /\ figure = [figure EXCEPT ![n] = figure[n]] /\ job[s].was \in Int
  BY <1>1, <1>2 DEF BomInv, BomTypeOK, Job
<1>4. Settled(job[s], figure[n]) = figure[n]
  BY <1>1, <1>3 DEF Settled
<1>5. PICK f \in Nat, l \in Int : f = figure[n] /\ l = log[n] + d
  BY <1>3
<1>6. figure' = [figure EXCEPT ![n] = f] /\ log' = [log EXCEPT ![n] = l]
  BY <1>1, <1>2, <1>3, <1>4, <1>5 DEF WriteLog
<1>7. /\ TablesOK' /\ BooksOK' /\ born \subseteq born' /\ there' = there
      /\ \A m \in Item : /\ figure'[m] = IF m = n THEN f ELSE figure[m]
                         /\ log'[m] = IF m = n THEN l ELSE log[m]
  <2>1. Rewritten(n, f, l)
    BY <1>2, <1>6 DEF Rewritten, lines
  <2>2. out' \in Nat /\ requests' = requests /\ blamed' \subseteq blamed \cup {n}
    BY <1>2 DEF BomInv, BomTypeOK
  <2> QED  BY <1>2, <2>1, <2>2, BooksSet
<1>8. ASSUME NEW m \in there' \ blamed'
      PROVE  /\ m \in there \ blamed
             /\ figure'[m] - log'[m] = figure[m] - log[m] - Share(s, m)
  <2>1. m \in there \ blamed /\ m \in Item /\ figure[m] \in Int /\ log[m] \in Int
    BY <1>2, <1>7 DEF BomInv, BomTypeOK
  <2>2. Share(s, m) = IF m = n THEN d ELSE 0
    BY <1>1, <1>2 DEF Share, Unlogged
  <2>3. CASE m = n
    BY <1>3, <1>5, <1>7, <2>1, <2>2, <2>3
  <2>4. CASE m # n
    BY <1>7, <2>1, <2>2, <2>4
  <2> QED  BY <2>1, <2>3, <2>4
<1> QED  BY <1>2, <1>7, <1>8, EndSafe

\* A request that ends having written over the books of a line, all that was owed or blamed.
LEMMA WrittenSafe ==
  ASSUME BomInv, NEW s \in Person, step[s] \notin {"log", "settle"}, End(s),
         NEW n \in there, NEW f \in Nat, NEW l \in Int, Rewritten(n, f, l),
         out' \in Nat, requests' = requests,
         n \in blamed' \/ f - l = figure[n] - log[n],
         blamed \subseteq blamed', blamed' \subseteq blamed \cup {n}
  PROVE  BomInv'
<1>1. /\ TablesOK' /\ BooksOK' /\ born \subseteq born' /\ there' = there
      /\ \A m \in Item : /\ figure'[m] = IF m = n THEN f ELSE figure[m]
                         /\ log'[m] = IF m = n THEN l ELSE log[m]
  BY BooksSet
<1>2. ASSUME NEW m \in there' \ blamed'
      PROVE  /\ m \in there \ blamed
             /\ figure'[m] - log'[m] = figure[m] - log[m] - Share(s, m)
  <2>1. m \in there \ blamed /\ m \in Item /\ figure[m] \in Int /\ log[m] \in Int
    BY <1>1 DEF BomInv, BomTypeOK
  <2>2. Share(s, m) = 0
    BY DEF Share, Unlogged
  <2>3. figure[m] - log[m] - 0 = figure[m] - log[m]
    BY <2>1
  <2>4. m = n => f - l = figure[n] - log[n]
    OBVIOUS
  <2>5. figure'[m] - log'[m] = figure[m] - log[m]
    BY <1>1, <2>1, <2>4
  <2> QED  BY <2>1, <2>2, <2>3, <2>5
<1> QED  BY <1>1, <1>2, EndSafe

\* Figure and log moved together.
LEMMA BookIs ==
  ASSUME BomInv, NEW n \in there, NEW d \in Int, figure[n] + d \in Nat, Book(n, d),
         UNCHANGED <<born, there, linked, held>>
  PROVE  \E f \in Nat, l \in Int : Rewritten(n, f, l) /\ f - l = figure[n] - log[n]
<1>1. figure[n] \in Nat /\ log[n] \in Int
  BY DEF BomInv, BomTypeOK
<1>2. PICK f \in Nat, l \in Int : f = figure[n] + d /\ l = log[n] + d
  BY <1>1
<1>3. figure' = [figure EXCEPT ![n] = f] /\ log' = [log EXCEPT ![n] = l]
  BY <1>2 DEF Book, Plus
<1>4. logged' = logged \cup {n} \/ (logged' = logged /\ l = log[n])
  <2>1. CASE d = 0
    BY <1>1, <1>2, <2>1 DEF Book
  <2>2. CASE d # 0
    BY <2>2 DEF Book
  <2> QED  BY <2>1, <2>2
<1>5. f - l = figure[n] - log[n]
  BY <1>1, <1>2
<1>6. Rewritten(n, f, l)
  BY <1>3, <1>4 DEF Rewritten
<1> QED  BY <1>5, <1>6

\* A line linked to nothing: figure and log in one transaction.
LEMMA BookDirectlySafe == ASSUME BomInv, NEW s \in Person, BookDirectly(s)  PROVE BomInv'
<1>1. PICK n : n = job[s].on
  OBVIOUS
<1>2. PICK d : d = Difference(s)
  OBVIOUS
<1>3. /\ step[s] \in {"issue", "correct"} /\ n \in there /\ End(s) /\ Book(n, d)
      /\ UNCHANGED <<born, there, linked, held>>
      /\ out' = out /\ requests' = requests /\ blamed' = blamed
  <2>1. /\ step[s] \in {"issue", "correct"} /\ n \in there /\ End(s)
        /\ UNCHANGED <<born, there, linked, held>>
        /\ out' = out /\ requests' = requests /\ blamed' = blamed
    BY <1>1 DEF BookDirectly, marks, lines
  <2>2. Book(n, d)
    BY <1>1, <1>2 DEF BookDirectly
  <2> QED  BY <2>1, <2>2
<1>4. n \in Item /\ job[s] \in Job /\ figure[n] \in Nat /\ Fits(s) /\ out \in Nat
  BY <1>3 DEF BomInv, BomTypeOK
<1>5. d \in Int /\ figure[n] + d \in Nat
  BY <1>1, <1>2, <1>3, <1>4 DEF Fits, Job, Difference
<1>6. PICK f \in Nat, l \in Int : Rewritten(n, f, l) /\ f - l = figure[n] - log[n]
  BY <1>3, <1>5, BookIs
<1>7. step[s] \notin {"log", "settle"}
  BY <1>3
<1> QED  BY <1>3, <1>4, <1>6, <1>7, WrittenSafe

\* A save: the figure as it was typed, and the difference from what was read.
LEMMA SaveWriteSafe == ASSUME BomInv, NEW s \in Person, SaveWrite(s)  PROVE BomInv'
<1>1. PICK n, d : n = job[s].on /\ d = job[s].delta
  OBVIOUS
<1>2. /\ step[s] = "save" /\ step[s] \notin {"log", "settle"} /\ n \in there /\ End(s)
      /\ UNCHANGED <<born, there, linked, held>>
      /\ out' = out /\ out \in Nat /\ requests' = requests
  BY <1>1 DEF SaveWrite, lines, BomInv, BomTypeOK
<1>3. n \in Item /\ d \in Int /\ job[s].was \in Nat /\ figure[n] \in Nat /\ log[n] \in Int
      /\ figure = [figure EXCEPT ![n] = figure[n]] /\ log = [log EXCEPT ![n] = log[n]]
      /\ job[s].was + d \in Nat
  BY <1>1, <1>2 DEF BomInv, BomTypeOK, Job, Fits
<1>4. CASE d = 0
  <2>1. figure' = figure /\ log' = log /\ logged' = logged /\ blamed' = blamed
    BY <1>1, <1>4 DEF SaveWrite, books
  <2>2. PICK f \in Nat, l \in Int : f = figure[n] /\ l = log[n]
    BY <1>3
  <2>3. Rewritten(n, f, l)
    BY <1>2, <1>3, <2>1, <2>2 DEF Rewritten
  <2> QED  BY <1>2, <2>1, <2>2, <2>3, WrittenSafe
<1>5. CASE d # 0
  <2>1. PICK f \in Nat, l \in Int : f = job[s].was + d /\ l = log[n] + d
    BY <1>3
  <2>2. /\ figure' = [figure EXCEPT ![n] = f] /\ log' = [log EXCEPT ![n] = l]
        /\ logged' = logged \cup {n}
        /\ blamed' = IF figure[n] # job[s].was THEN blamed \cup {n} ELSE blamed
    BY <1>1, <1>5, <2>1 DEF SaveWrite, Plus
  <2>3. n \in blamed' \/ f - l = figure[n] - log[n]
    BY <1>3, <2>1, <2>2
  <2>4. Rewritten(n, f, l) /\ blamed \subseteq blamed' /\ blamed' \subseteq blamed \cup {n}
    BY <1>2, <2>2 DEF Rewritten
  <2> QED  BY <1>2, <2>3, <2>4, WrittenSafe
<1> QED  BY <1>4, <1>5

\* A line goes, and its log with it.
LEMMA VanishSafe ==
  ASSUME BomInv, NEW s \in Person, step[s] \notin {"log", "settle"}, NEW n, Vanish(s, n)
  PROVE  BomInv'
<1>1. /\ n \in there /\ End(s)
      /\ there' = there \ {n} /\ linked' = linked \ {n}
      /\ figure' = [figure EXCEPT ![n] = 0] /\ log' = [log EXCEPT ![n] = 0]
      /\ logged' = logged \ {n} /\ held' = held \ {n} /\ blamed' = blamed \ {n}
      /\ UNCHANGED <<born, out, requests>>
  BY DEF Vanish
<1>2. TablesOK'
  BY <1>1 DEF BomInv, BomTypeOK, TablesOK
<1>3. BooksOK'
  BY <1>1 DEF BomInv, BomTypeOK, BooksOK
<1>4. ASSUME NEW m \in there' \ blamed'
      PROVE  /\ m \in there \ blamed
             /\ figure'[m] - log'[m] = figure[m] - log[m] - Share(s, m)
  <2>1. /\ m \in there \ blamed /\ m \in Item /\ figure[m] \in Int /\ log[m] \in Int
        /\ figure'[m] = figure[m] /\ log'[m] = log[m]
    BY <1>1 DEF BomInv, BomTypeOK
  <2>2. Share(s, m) = 0
    BY DEF Share, Unlogged
  <2>3. figure[m] - log[m] - 0 = figure[m] - log[m]
    BY <2>1
  <2> QED  BY <2>1, <2>2, <2>3
<1> QED  BY <1>1, <1>2, <1>3, <1>4, EndSafe

\* A removal, with a save or by itself.
LEMMA RemovalSafe ==
  ASSUME BomInv, NEW s \in Person, RemoveWrite(s) \/ DeleteWrite(s)
  PROVE  BomInv'
<1>1. PICK n : step[s] \in {"remove", "delete"} /\ Vanish(s, n)
  BY DEF RemoveWrite, DeleteWrite
<1> QED  BY <1>1, VanishSafe

\* A line linked, or to nothing any more.
LEMMA LinkWriteSafe == ASSUME BomInv, NEW s \in Person, LinkWrite(s)  PROVE BomInv'
<1>1. PICK n : n = job[s].on
  OBVIOUS
<1>2. /\ step[s] = "link" /\ n \in there /\ End(s)
      /\ linked' \subseteq linked \cup {n}
      /\ UNCHANGED <<born, there, figure, log, logged, held, out, blamed, requests>>
  BY <1>1 DEF LinkWrite, books, marks
<1>3. TablesOK' /\ BooksOK'
  BY <1>2 DEF BomInv, BomTypeOK, TablesOK, BooksOK
<1>4. ASSUME NEW m \in there' \ blamed'
      PROVE  /\ m \in there \ blamed
             /\ figure'[m] - log'[m] = figure[m] - log[m] - Share(s, m)
  <2>1. m \in there \ blamed /\ m \in Item /\ figure[m] \in Int /\ log[m] \in Int
    BY <1>2 DEF BomInv, BomTypeOK
  <2>2. Share(s, m) = 0
    BY <1>2 DEF Share, Unlogged
  <2>3. figure[m] - log[m] - 0 = figure[m] - log[m]
    BY <2>1
  <2> QED  BY <1>2, <2>1, <2>2, <2>3
<1> QED  BY <1>2, <1>3, <1>4, EndSafe

\* A request that stops between the stock and the log is blamed for what it owes.
LEMMA GiveUpSafe == ASSUME BomInv, NEW s \in Person, GiveUp(s)  PROVE BomInv'
<1>1. PICK n : n = job[s].on
  OBVIOUS
<1>2. /\ End(s) /\ UNCHANGED <<lines, books, held, out, requests>>
      /\ blamed' = IF step[s] \in {"log", "settle"} /\ n \in there THEN blamed \cup {n} ELSE blamed
  BY <1>1 DEF GiveUp
<1>3. TablesOK' /\ BooksOK'
  BY <1>2 DEF BomInv, BomTypeOK, TablesOK, BooksOK, lines, books
<1>4. ASSUME NEW m \in there' \ blamed'
      PROVE  /\ m \in there \ blamed
             /\ figure'[m] - log'[m] = figure[m] - log[m] - Share(s, m)
  <2>1. m \in there \ blamed /\ m \in Item /\ figure[m] \in Int /\ log[m] \in Int
    BY <1>2 DEF BomInv, BomTypeOK, lines
  <2>2. Share(s, m) = 0
    BY <1>1, <1>2, <2>1 DEF Share, Unlogged
  <2>3. figure[m] - log[m] - 0 = figure[m] - log[m]
    BY <2>1
  <2> QED  BY <1>2, <2>1, <2>2, <2>3 DEF books
<1>5. born \subseteq born'
  BY <1>2 DEF lines
<1> QED  BY <1>2, <1>3, <1>4, <1>5, EndSafe


\* A line written for the first time: its log follows, or it is blamed.
LEMMA AddLineSafe ==
  ASSUME BomInv, NEW n \in Item, NEW v \in 0 .. MaxEntry, NEW withBill \in BOOLEAN,
         AddLine(n, v, withBill)
  PROVE  BomInv'
<1>1. v \in Nat /\ n \notin born /\ n \notin there /\ n \notin logged
  BY BoundAssumption DEF AddLine, BomInv, BomTypeOK
<1>2. /\ born' = born \cup {n} /\ there' = there \cup {n}
      /\ figure' = [figure EXCEPT ![n] = v]
      /\ UNCHANGED <<linked, held, out, step, job, requests>>
  BY DEF AddLine
<1>3. log[n] = 0 /\ figure \in [Item -> Nat] /\ log \in [Item -> Int]
  BY <1>1 DEF BomInv, BomTypeOK, BooksOK
<1>4. CASE withBill /\ v > 0
  <2>1. log' = [log EXCEPT ![n] = v] /\ logged' = logged \cup {n} /\ blamed' = blamed
    BY <1>4 DEF AddLine
  <2>2. TablesOK'
    BY <1>1, <1>2, <2>1 DEF BomInv, BomTypeOK, TablesOK
  <2>3. BooksOK'
    BY <1>1, <1>2, <1>3, <2>1 DEF BomInv, BooksOK
  <2>4. \A m \in there' \ blamed' :
          \/ m \in there \ blamed /\ figure'[m] - log'[m] = figure[m] - log[m]
          \/ m \notin born /\ figure'[m] = log'[m]
    BY <1>1, <1>2, <1>3, <2>1 DEF BomInv, BomTypeOK
  <2> QED  BY <1>2, <2>2, <2>3, <2>4, AsideSafe
<1>5. CASE ~(withBill /\ v > 0)
  <2>1. /\ log' = log /\ logged' = logged
        /\ blamed' = IF v > 0 THEN blamed \cup {n} ELSE blamed
    BY <1>5 DEF AddLine
  <2>2. TablesOK'
    BY <1>1, <1>2, <2>1 DEF BomInv, BomTypeOK, TablesOK
  <2>3. BooksOK'
    BY <1>1, <1>2, <1>3, <2>1 DEF BomInv, BooksOK
  <2>4. \A m \in there' \ blamed' :
          \/ m \in there \ blamed /\ figure'[m] - log'[m] = figure[m] - log[m]
          \/ m \notin born /\ figure'[m] = log'[m]
    BY <1>1, <1>2, <1>3, <2>1 DEF BomInv, BomTypeOK
  <2> QED  BY <1>2, <2>2, <2>3, <2>4, AsideSafe
<1> QED  BY <1>4, <1>5

\* Stock drawn for a line or brought back from it.
LEMMA StockSafe ==
  ASSUME BomInv, NEW n \in Item, NEW q \in 1 .. MaxEntry, FromStock(n, q) \/ BackToStock(n, q)
  PROVE  BomInv'
<1>1. n \in there /\ q \in Nat /\ figure[n] \in Nat /\ log[n] \in Int /\ out \in Nat
  BY BoundAssumption DEF FromStock, BackToStock, BomInv, BomTypeOK
<1>2. \E d \in Int : Book(n, d) /\ figure[n] + d \in Nat
  <2>1. CASE FromStock(n, q)
    <3>1. Book(n, q) /\ q \in Int /\ figure[n] + q \in Nat
      BY <1>1, <2>1 DEF FromStock
    <3> QED  BY <3>1
  <2>2. CASE BackToStock(n, q)
    <3>1. IssuedAfter(n, -q) \in Nat
      BY <1>1, IssuedAfterIs
    <3>2. PICK d : d = IssuedAfter(n, -q) - figure[n]
      OBVIOUS
    <3>3. Book(n, d)
      BY <2>2, <3>2, Zenon DEF BackToStock
    <3>4. d \in Int /\ figure[n] + d \in Nat
      BY <1>1, <3>1, <3>2
    <3> QED  BY <3>3, <3>4
  <2> QED  BY <2>1, <2>2
<1>3. /\ UNCHANGED <<born, there, linked, held>> /\ UNCHANGED <<step, job>>
      /\ out' \in Nat /\ requests' = requests /\ blamed' = blamed
  BY <1>1 DEF FromStock, BackToStock, lines, marks
<1>4. PICK f \in Nat, l \in Int : Rewritten(n, f, l) /\ f - l = figure[n] - log[n]
  BY <1>1, <1>2, <1>3, BookIs
<1>5. /\ TablesOK' /\ BooksOK' /\ born \subseteq born' /\ there' = there
      /\ \A m \in Item : /\ figure'[m] = IF m = n THEN f ELSE figure[m]
                         /\ log'[m] = IF m = n THEN l ELSE log[m]
  BY <1>1, <1>3, <1>4, BooksSet
<1>6. \A m \in there' \ blamed' : m \in there \ blamed /\ figure'[m] - log'[m] = figure[m] - log[m]
  BY <1>3, <1>4, <1>5 DEF BomInv, BomTypeOK
<1> QED  BY <1>3, <1>5, <1>6, AsideSafe

\* The order's other movements, and reservations that come and go.
LEMMA OtherSafe ==
  ASSUME BomInv, \/ \E d \in -MaxEntry .. MaxEntry : General(d)
               \/ \E n \in Item : SetHeld(n)
  PROVE  BomInv'
<1>1. /\ UNCHANGED <<lines, books, marks>> /\ UNCHANGED <<step, job>>
      /\ out' \in Nat /\ held' \subseteq held \cup linked
  BY BoundAssumption DEF General, SetHeld, BomInv, BomTypeOK
<1>2. TablesOK' /\ BooksOK'
  BY <1>1 DEF BomInv, BomTypeOK, TablesOK, BooksOK, lines, books, marks
<1>3. \A m \in there' \ blamed' : m \in there \ blamed /\ figure'[m] - log'[m] = figure[m] - log[m]
  BY <1>1 DEF lines, books, marks
<1>4. born \subseteq born'
  BY <1>1 DEF lines
<1> QED  BY <1>1, <1>2, <1>3, <1>4, AsideSafe

\* Every step keeps the invariant.
LEMMA BomNextSafe == BomInv /\ [BomNext]_bomVars => BomInv'
<1> SUFFICES ASSUME BomInv, [BomNext]_bomVars PROVE BomInv'
  OBVIOUS
<1>1. ASSUME NEW s \in Person, Request(s) PROVE BomInv'
  <2>1. \/ \E n \in there : \/ \E q \in 1 .. MaxEntry : Issue(s, n, q)
                            \/ \E v \in 0 .. MaxEntry : Correct(s, n, v) \/ SaveRead(s, n, v)
                            \/ \E at \in {"remove", "delete", "link"} : ClaimCheck(s, at, n)
        \/ MoveStock(s) \/ WriteLog(s) \/ BookDirectly(s) \/ SaveWrite(s)
        \/ RemoveWrite(s) \/ DeleteWrite(s) \/ LinkWrite(s) \/ GiveUp(s)
    BY <1>1, Zenon DEF Request
  <2>2. ASSUME NEW n \in there, \/ \E q \in 1 .. MaxEntry : Issue(s, n, q)
                                \/ \E v \in 0 .. MaxEntry : Correct(s, n, v) \/ SaveRead(s, n, v)
                                \/ \E at \in {"remove", "delete", "link"} : ClaimCheck(s, at, n)
        PROVE BomInv'
    BY <2>2, LookSafe, Zenon
  <2> QED  BY <2>1, <2>2, MoveSafe, WriteLogSafe, BookDirectlySafe, SaveWriteSafe,
              RemovalSafe, LinkWriteSafe, GiveUpSafe, Zenon
<1>2. ASSUME NEW n \in Item, NEW v \in 0 .. MaxEntry, NEW withBill \in BOOLEAN, AddLine(n, v, withBill)
      PROVE BomInv'
  BY <1>2, AddLineSafe
<1>3. ASSUME NEW n \in Item, NEW q \in 1 .. MaxEntry, FromStock(n, q) \/ BackToStock(n, q)
      PROVE BomInv'
  BY <1>3, StockSafe
<1>4. CASE \/ \E d \in -MaxEntry .. MaxEntry : General(d)
           \/ \E n \in Item : SetHeld(n)
  BY <1>4, OtherSafe
<1>5. CASE UNCHANGED bomVars
  <2>1. /\ UNCHANGED <<lines, books, marks>> /\ UNCHANGED <<step, job>>
        /\ UNCHANGED <<held, out>>
    BY <1>5 DEF bomVars
  <2>2. TablesOK' /\ BooksOK'
    BY <2>1 DEF BomInv, BomTypeOK, TablesOK, BooksOK, lines, books, marks
  <2>3. \A m \in there' \ blamed' : m \in there \ blamed /\ figure'[m] - log'[m] = figure[m] - log[m]
    BY <2>1 DEF lines, books, marks
  <2>4. born \subseteq born'
    BY <2>1 DEF lines
  <2> QED  BY <2>1, <2>2, <2>3, <2>4, AsideSafe
<1> QED  BY <1>1, <1>2, <1>3, <1>4, <1>5, Zenon DEF BomNext

\* At any time: the figure of a line that is there and not blamed is its log and what requests
\* in flight owe the log, every request works on a line that was written once, and one that
\* removes or links it found it clean.
THEOREM BomInvariant == BomSpec => []BomInv
BY BomInitSafe, BomNextSafe, PTL DEF BomSpec

\* The tables and the requests hold what the code stores (routes/materials.ts,
\* routes/inventory.ts); no figure is below zero.
THEOREM BomTypeCorrect == BomSpec => []BomTypeOK
<1>1. BomInv => BomTypeOK
  BY DEF BomInv
<1> QED  BY <1>1, BomInvariant, PTL

\* The log adds up to the figure but for the movements still to be logged, for any number of
\* requests, lines and quantities, on every line no named exception touched.
THEOREM LogAddsUp == BomSpec => []LogIsExplained
<1>1. BomInv => LogIsExplained
  BY DEF BomInv, Explained, LogIsExplained, Owing, Owed
<1> QED  BY <1>1, BomInvariant, PTL

\* A line without a history: nothing is owed for it, unless its log parted from its figure.
LEMMA Untraced ==
  ASSUME BomInv, NEW n \in there \ blamed, n \notin logged, Unlogged(n) = {}
  PROVE  figure[n] = 0
<1>1. Owing(n) = 0
  BY SumEmpty DEF Owing
<1>2. n \in Item /\ log[n] = 0
  BY DEF BomInv, BomTypeOK, BooksOK
<1>3. figure[n] = log[n] + Owing(n)
  BY DEF BomInv, Explained
<1> QED  BY <1>1, <1>2, <1>3

\* A line with a history is removed or linked only by a request overtaken since it looked.
THEOREM HistoryStays == BomSpec => HistoryKeepsItsLine
<1> DEFINE Kept == \A n \in there :
             n \notin there' \/ (n \in linked) # (n \in linked') =>
               Untouched(n) \/ \E s \in Person : Overtaken(s, n)
<1>1. BomInv /\ [BomNext]_bomVars => Kept \/ UNCHANGED bomVars
  <2> SUFFICES ASSUME BomInv, BomNext, NEW n \in there,
                      n \notin there' \/ (n \in linked) # (n \in linked')
               PROVE  Untouched(n) \/ \E s \in Person : Overtaken(s, n)
    OBVIOUS
  <2>1. PICK s \in Person : RemoveWrite(s) \/ DeleteWrite(s) \/ LinkWrite(s)
    <3>1. \A s \in Person : Request(s) => \/ RemoveWrite(s) \/ DeleteWrite(s) \/ LinkWrite(s)
                                          \/ UNCHANGED <<there, linked>>
      <4> SUFFICES ASSUME NEW s \in Person, Request(s)
                   PROVE  \/ RemoveWrite(s) \/ DeleteWrite(s) \/ LinkWrite(s)
                          \/ UNCHANGED <<there, linked>>
        OBVIOUS
      <4>1. \A at, j : Begin(s, at, j) => UNCHANGED <<there, linked>>
        BY DEF Begin, lines
      <4>2. ASSUME NEW l \in there,
                   \/ \E q \in 1 .. MaxEntry : Issue(s, l, q)
                   \/ \E v \in 0 .. MaxEntry : Correct(s, l, v) \/ SaveRead(s, l, v)
                   \/ \E at \in {"remove", "delete", "link"} : ClaimCheck(s, at, l)
            PROVE  UNCHANGED <<there, linked>>
        BY <4>1, <4>2, Zenon DEF Issue, Correct, SaveRead, Ask, ClaimCheck
      <4>3. MoveStock(s) \/ WriteLog(s) \/ BookDirectly(s) => UNCHANGED <<there, linked>>
        BY DEF MoveStock, WriteLog, BookDirectly, lines
      <4>4. SaveWrite(s) \/ GiveUp(s) => UNCHANGED <<there, linked>>
        BY DEF SaveWrite, GiveUp, lines
      <4> QED  BY <4>2, <4>3, <4>4, Zenon DEF Request
    <3>2. \A l, v, withBill : AddLine(l, v, withBill) => there \subseteq there' /\ linked' = linked
      BY DEF AddLine
    <3>3. \A l, q : FromStock(l, q) \/ BackToStock(l, q) => UNCHANGED <<there, linked>>
      BY DEF FromStock, BackToStock, lines
    <3>4. \A l : SetHeld(l) => UNCHANGED <<there, linked>>
      BY DEF SetHeld, lines
    <3>5. \A d : General(d) => UNCHANGED <<there, linked>>
      BY DEF General, lines
    <3>6. ~UNCHANGED <<there, linked>> /\ ~(there \subseteq there' /\ linked' = linked)
      OBVIOUS
    <3> QED  BY <3>1, <3>2, <3>3, <3>4, <3>5, <3>6, Zenon DEF BomNext
  <2>2. PICK m : m = job[s].on
    OBVIOUS
  <2>3. n = m /\ step'[s] = "idle"
    BY <2>1, <2>2 DEF RemoveWrite, DeleteWrite, LinkWrite, Vanish, End, BomInv, BomTypeOK
  <2>4. job[s].clean
    BY <2>1 DEF RemoveWrite, DeleteWrite, LinkWrite, BomInv, Fits
  <2>5. CASE step[s] \in {"delete", "link"}
    BY <2>2, <2>3, <2>4, <2>5 DEF Overtaken
  <2>6. CASE RemoveWrite(s)
    <3>1. step[s] = "remove" /\ n \notin logged /\ n \notin held
      BY <2>2, <2>3, <2>6 DEF RemoveWrite, StillFree
    <3>2. CASE Unlogged(n) # {} \/ n \in blamed
      BY <2>2, <2>3, <2>4, <3>1, <3>2 DEF Overtaken
    <3>3. CASE Unlogged(n) = {} /\ n \notin blamed
      BY <3>1, <3>3, Untraced DEF Untouched
    <3> QED  BY <3>2, <3>3
  <2> QED  BY <2>1, <2>5, <2>6 DEF DeleteWrite, LinkWrite
<1> QED  BY <1>1, BomInvariant, PTL DEF BomSpec, HistoryKeepsItsLine

=============================================================================
