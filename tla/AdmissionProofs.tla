--------------------------- MODULE AdmissionProofs ---------------------------
(***************************************************************************)
(* What is proved of the admission of uploads, for every number of         *)
(* requests, every size, budget and number of ids: the two ledgers of the  *)
(* bytes, the fair lock of an id, and that nobody writes over a document   *)
(* without having asked to.                                                *)
(***************************************************************************)
EXTENDS Admission, FiniteSetTheorems, WellFoundedInduction, TLAPS

-----------------------------------------------------------------------------
(* The least and the greatest of a set of numbers.                            *)
LEMMA MinIn ==
  ASSUME NEW S, S \subseteq Nat, S # {}
  PROVE  Min(S) \in S
  <1>1. PICK x \in S : \A y \in S : ~(<<y, x>> \in OpToRel(<, Nat))
    BY NatLessThanWellFounded, WFMin, Zenon
  <1>2. \A y \in S : x \in Nat /\ y \in Nat /\ ~(y < x)
    BY <1>1, Zenon DEF OpToRel
  <1>3. \A y \in S : x <= y
    BY <1>2
  <1> QED
    BY <1>3 DEF Min

(* A smallest subset with no greatest element would still have one without    *)
(* one of its elements.                                                       *)
LEMMA MaxIn ==
  ASSUME NEW S, S \subseteq Nat, S # {}, IsFiniteSet(S)
  PROVE  /\ Max(S) \in S
         /\ \A y \in S : Max(S) >= y
  <1> DEFINE HasMax(T) == \E x \in T : \A y \in T : x >= y
             Bad == {T \in FiniteSubsetsOf(S) : T # {} /\ ~HasMax(T)}
  <1>1. ASSUME Bad # {} PROVE FALSE
    <2>1. Bad \subseteq FiniteSubsetsOf(S)
      OBVIOUS
    <2>2. IsWellFoundedOn(StrictSubsetOrdering(S), FiniteSubsetsOf(S))
      BY FS_StrictSubsetOrderingWellFounded
    <2> HIDE DEF Bad
    <2>3. PICK T \in Bad : \A U \in Bad : ~(<<U, T>> \in StrictSubsetOrdering(S))
      BY <1>1, <2>1, <2>2, WFMin, Zenon
    <2> USE DEF Bad
    <2>4. T \subseteq S /\ IsFiniteSet(T) /\ T # {} /\ ~HasMax(T)
      BY DEF FiniteSubsetsOf
    <2>5. PICK x \in T : TRUE
      BY <2>4
    <2>6. CASE T = {x}
      BY <2>4, <2>6
    <2>7. CASE T # {x}
      <3> DEFINE U == T \ {x}
      <3>1. U # {} /\ U \subseteq S /\ U # T /\ U \subseteq T
        BY <2>4, <2>5, <2>7
      <3>2. IsFiniteSet(U)
        BY <2>4, FS_RemoveElement
      <3>3. <<U, T>> \in StrictSubsetOrdering(S)
        BY <2>4, <3>1 DEF StrictSubsetOrdering
      <3>4. HasMax(U)
        BY <2>3, <3>1, <3>2, <3>3 DEF FiniteSubsetsOf
      <3>5. PICK m \in U : \A y \in U : m >= y
        BY <3>4
      <3>6. \A y \in T : y \in U \/ y = x
        OBVIOUS
      <3>7. m \in Nat /\ x \in Nat /\ \A y \in T : y \in Nat
        BY <2>4, <2>5
      <3>8. CASE m >= x
        BY <2>4, <3>5, <3>6, <3>7, <3>8
      <3>9. CASE ~(m >= x)
        BY <2>4, <2>5, <3>5, <3>6, <3>7, <3>9
      <3> QED
        BY <3>8, <3>9
    <2> QED
      BY <2>6, <2>7
  <1>2. HasMax(S)
    BY <1>1 DEF FiniteSubsetsOf
  <1> QED
    BY <1>2 DEF Max

-----------------------------------------------------------------------------
(* The ledgers: bytes are counted request by request.                         *)
Ledger == [Requests -> 0..Ceiling]
Own(r, n) == {r} \X (1..n)

LEMMA OwnBytes ==
  ASSUME NEW r, NEW n \in Nat
  PROVE  IsFiniteSet(Own(r, n)) /\ Cardinality(Own(r, n)) = n
  <1>1. IsFiniteSet({r}) /\ Cardinality({r}) = 1
    BY FS_Singleton
  <1>2. IsFiniteSet(1..n) /\ Cardinality(1..n) = n
    BY FS_Interval
  <1>3. /\ IsFiniteSet({r} \X (1..n))
        /\ Cardinality({r} \X (1..n)) = Cardinality({r}) * Cardinality(1..n)
    BY <1>1, <1>2, FS_Product
  <1>4. 1 * n = n
    OBVIOUS
  <1>5. Cardinality({r} \X (1..n)) = n
    BY <1>1, <1>2, <1>3, <1>4, Zenon
  <1> QED
    BY <1>3, <1>5 DEF Own

LEMMA BytesFinite ==
  ASSUME AdmissionAssumption, NEW f \in Ledger
  PROVE  IsFiniteSet(Bytes(f)) /\ Cardinality(Bytes(f)) \in Nat
  <1>1. IsFiniteSet(Requests) /\ Ceiling \in Nat
    BY DEF AdmissionAssumption
  <1>2. IsFiniteSet(1..Ceiling)
    BY <1>1, FS_Interval
  <1>3. IsFiniteSet(Requests \X (1..Ceiling))
    BY <1>1, <1>2, FS_Product
  <1>4. Bytes(f) \subseteq Requests \X (1..Ceiling)
    BY DEF Bytes
  <1> QED
    BY <1>3, <1>4, FS_Subset, FS_CardinalityType

LEMMA LedgerStep ==
  ASSUME AdmissionAssumption, NEW f \in Ledger, NEW g \in Ledger, NEW r \in Requests,
         \A q \in Requests : q # r => g[q] = f[q]
  PROVE  Cardinality(Bytes(g)) = Cardinality(Bytes(f)) + g[r] - f[r]
  <1> DEFINE Rest == {b \in Bytes(f) : b[1] # r}
  <1>1. Ceiling \in Nat /\ f[r] \in Nat /\ g[r] \in Nat /\ f[r] <= Ceiling /\ g[r] <= Ceiling
    BY DEF AdmissionAssumption, Ledger
  <1>2. IsFiniteSet(Rest) /\ Cardinality(Rest) \in Nat
    BY BytesFinite, FS_Subset, FS_CardinalityType
  <1>3. ASSUME NEW h \in Ledger, \A q \in Requests : q # r => h[q] = f[q],
               h[r] \in Nat, h[r] <= Ceiling
        PROVE  Cardinality(Bytes(h)) = Cardinality(Rest) + h[r]
    <2>1. \A b \in Requests \X (1..Ceiling) :
             /\ b[1] \in Requests /\ b[2] \in 1..Ceiling /\ b = <<b[1], b[2]>>
             /\ b \in Bytes(h) <=> b[2] <= h[b[1]]
             /\ b \in Bytes(f) <=> b[2] <= f[b[1]]
      BY DEF Bytes
    <2>2. \A b : b \in Own(r, h[r]) <=>
                   b \in Requests \X (1..Ceiling) /\ b[1] = r /\ b[2] <= h[r]
      BY <1>1, <1>3 DEF Own
    <2>3. Bytes(h) \subseteq Requests \X (1..Ceiling) /\ Bytes(f) \subseteq Requests \X (1..Ceiling)
      BY DEF Bytes
    <2>4. Bytes(h) = Rest \cup Own(r, h[r])
      <3>1. ASSUME NEW b \in Requests \X (1..Ceiling)
            PROVE  b \in Bytes(h) <=> b \in Rest \cup Own(r, h[r])
        <4>1. CASE b[1] = r
          BY <2>1, <2>2, <4>1
        <4>2. CASE b[1] # r
          BY <1>3, <2>1, <2>2, <4>2
        <4> QED
          BY <4>1, <4>2
      <3> QED
        BY <2>2, <2>3, <3>1
    <2>5. Rest \cap Own(r, h[r]) = {}
      BY <2>2
    <2>6. Cardinality(Rest \cap Own(r, h[r])) = 0
      BY <2>5, FS_EmptySet
    <2>7. IsFiniteSet(Own(r, h[r])) /\ Cardinality(Own(r, h[r])) = h[r]
      BY <1>3, OwnBytes
    <2>8. Cardinality(Rest \cup Own(r, h[r])) = Cardinality(Rest) + h[r] - 0
      BY <1>2, <2>6, <2>7, FS_Union
    <2> QED
      BY <1>2, <1>3, <2>4, <2>8
  <1>4. Cardinality(Bytes(f)) = Cardinality(Rest) + f[r]
    BY <1>1, <1>3
  <1>5. Cardinality(Bytes(g)) = Cardinality(Rest) + g[r]
    BY <1>1, <1>3
  <1> QED
    BY <1>1, <1>2, <1>4, <1>5

(* A ledger that is nowhere more than one of two others.                      *)
LEMMA LedgerCovered ==
  ASSUME AdmissionAssumption, NEW f \in Ledger, NEW g \in Ledger, NEW h \in Ledger,
         \A r \in Requests : h[r] <= f[r] \/ h[r] <= g[r]
  PROVE  Cardinality(Bytes(h)) <= Cardinality(Bytes(f)) + Cardinality(Bytes(g))
  <1>1. /\ IsFiniteSet(Bytes(f)) /\ IsFiniteSet(Bytes(g))
        /\ Cardinality(Bytes(f)) \in Nat /\ Cardinality(Bytes(g)) \in Nat
        /\ Cardinality(Bytes(h)) \in Nat
    BY BytesFinite
  <1>2. Bytes(h) \subseteq Bytes(f) \cup Bytes(g)
    BY DEF Bytes, Ledger, AdmissionAssumption
  <1>3. IsFiniteSet(Bytes(f) \cap Bytes(g))
    BY <1>1, FS_Subset
  <1>4. Cardinality(Bytes(f) \cap Bytes(g)) \in Nat
    BY <1>3, FS_CardinalityType
  <1>5. /\ IsFiniteSet(Bytes(f) \cup Bytes(g))
        /\ Cardinality(Bytes(f) \cup Bytes(g))
             = Cardinality(Bytes(f)) + Cardinality(Bytes(g)) - Cardinality(Bytes(f) \cap Bytes(g))
    BY <1>1, FS_Union
  <1>6. Cardinality(Bytes(h)) <= Cardinality(Bytes(f) \cup Bytes(g))
    BY <1>2, <1>5, FS_Subset
  <1> QED
    BY <1>1, <1>4, <1>5, <1>6

-----------------------------------------------------------------------------
(* The types of the variables.                                                *)
Outside  == {"new", "done"}
Arriving == {"received", "gate", "copy", "staged"}
Placed   == {"lock", "slot", "parse", "commit"}
Working  == {"check", "reserve"} \cup Placed
RequestType ==
    [at : Outside \cup Arriving \cup Working, size : 0..Ceiling, reserved : 0..Ceiling,
     counted : BOOLEAN, id : Ids \cup {Free}, ask : Asks \cup {Free}, replace : BOOLEAN,
     replacing : BOOLEAN, raw : BOOLEAN, turn : Nat,
     answer : {"none", "refused", "gone", "stored", "failed"}]
TypeOK ==
    /\ req \in [Requests -> RequestType]
    /\ receiving \in Int /\ scratch \in Int
    /\ lib \in [Ids -> Requests \cup {Free}]
    /\ counter \in Nat \ {0}

(* Nothing is held outside; a reservation is at least the file until the file *)
(* itself is counted.                                                         *)
BytesOf(r) ==
    /\ req[r].at \in Outside => req[r].reserved = 0 /\ ~req[r].counted
    /\ req[r].at \in Arriving => ~req[r].counted /\ req[r].size <= req[r].reserved
    /\ req[r].at \in Working => req[r].counted /\ req[r].reserved = 0
BytesInv ==
    /\ TypeOK
    /\ \A r \in Requests : BytesOf(r)
    /\ receiving = Cardinality(Bytes(Reserving))
    /\ scratch = Cardinality(Bytes(Counting))
    /\ receiving + scratch <= Budget

(* One request moves, the others stay.                                        *)
Becomes(r, new) == req' = [req EXCEPT ![r] = new]
Ended(a) == [NoRequest EXCEPT !.at = "done", !.answer = a]

LEMMA NoRequestType ==
  ASSUME AdmissionAssumption
  PROVE  /\ NoRequest \in RequestType
         /\ \A a \in {"refused", "gone", "stored", "failed"} : Ended(a) \in RequestType
  <1>1. 0 \in 0..Ceiling
    BY DEF AdmissionAssumption
  <1>2. NoRequest \in RequestType
    BY <1>1 DEF NoRequest, RequestType, Outside
  <1>3. ASSUME NEW a \in {"refused", "gone", "stored", "failed"} PROVE Ended(a) \in RequestType
    BY <1>2 DEF Ended, RequestType, Outside
  <1> QED
    BY <1>2, <1>3

LEMMA BecomesType ==
  ASSUME req \in [Requests -> RequestType], NEW r \in Requests, NEW new \in RequestType,
         Becomes(r, new)
  PROVE  /\ req' \in [Requests -> RequestType]
         /\ req'[r] = new /\ \A q \in Requests : q # r => req'[q] = req[q]
  BY DEF Becomes

LEMMA InitBytes == ASSUME AdmissionAssumption, IdsAssumption, Init PROVE BytesInv
  <1>1. TypeOK
    BY NoRequestType DEF Init, TypeOK
  <1>2. \A r \in Requests : BytesOf(r)
    BY DEF Init, NoRequest, BytesOf, Outside, Arriving, Working, Placed
  <1>3. Bytes(Reserving) = {} /\ Bytes(Counting) = {}
    BY DEF Init, NoRequest, Bytes, Reserving, Counting, AdmissionAssumption
  <1>4. Cardinality(Bytes(Reserving)) = 0 /\ Cardinality(Bytes(Counting)) = 0
    BY <1>3, FS_EmptySet
  <1>5. receiving = 0 /\ scratch = 0 /\ Budget \in Nat
    BY DEF Init, AdmissionAssumption
  <1> QED
    BY <1>1, <1>2, <1>4, <1>5 DEF BytesInv

-----------------------------------------------------------------------------
(* What every action does to its request, field by field.                     *)
Only(r) == \A q \in Requests : q # r => req'[q] = req[q]
SameIds(r) == /\ req'[r].id = req[r].id /\ req'[r].ask = req[r].ask
              /\ req'[r].replace = req[r].replace /\ req'[r].replacing = req[r].replacing
              /\ req'[r].turn = req[r].turn
SameBytes(r) == /\ req'[r].size = req[r].size /\ req'[r].reserved = req[r].reserved
                /\ req'[r].counted = req[r].counted
                /\ receiving' = receiving /\ scratch' = scratch
(* A request that is over: its fields are those of a new one.                 *)
Over(r) ==
    /\ Only(r) /\ req'[r].at = "done" /\ req'[r].id = Free /\ req'[r].turn = 0
    /\ req'[r].reserved = 0 /\ ~req'[r].counted
    /\ receiving' = receiving - req[r].reserved
    /\ scratch' = scratch - (IF req[r].counted THEN req[r].size ELSE 0)
Goes(r, from, to) ==
    /\ Only(r) /\ SameBytes(r) /\ req[r].at = from /\ req'[r].at = to /\ SameIds(r)

LEMMA AnswerEffect ==
  ASSUME AdmissionAssumption, TypeOK, NEW r \in Requests,
         NEW a \in {"refused", "gone", "stored", "failed"}, Answer(r, a)
  PROVE  /\ req' \in [Requests -> RequestType] /\ receiving' \in Int /\ scratch' \in Int
         /\ Over(r) /\ req'[r].answer = a
  <1>1. Becomes(r, Ended(a)) /\ Ended(a) \in RequestType
    BY NoRequestType DEF Answer, Becomes, Ended
  <1>2. /\ req' \in [Requests -> RequestType]
        /\ req'[r] = Ended(a) /\ \A q \in Requests : q # r => req'[q] = req[q]
    BY <1>1, BecomesType DEF TypeOK
  <1>3. /\ Ended(a).at = "done" /\ Ended(a).id = Free /\ Ended(a).turn = 0
        /\ Ended(a).reserved = 0 /\ ~Ended(a).counted /\ Ended(a).answer = a
    BY DEF Ended, NoRequest
  <1>4. /\ receiving' = receiving - req[r].reserved
        /\ scratch' = scratch - (IF req[r].counted THEN req[r].size ELSE 0)
    BY DEF Answer
  <1>5. receiving' \in Int /\ scratch' \in Int
    BY <1>4 DEF TypeOK, RequestType
  <1> QED
    BY <1>2, <1>3, <1>4, <1>5 DEF Over, Only

LEMMA GotoEffect ==
  ASSUME TypeOK, NEW r \in Requests, NEW a \in Arriving \cup Working, Goto(r, a),
         UNCHANGED <<receiving, scratch>>
  PROVE  /\ req' \in [Requests -> RequestType]
         /\ Goes(r, req[r].at, a)
  <1>1. req[r] \in RequestType /\ req \in [Requests -> RequestType]
    BY DEF TypeOK
  <1>2. [req[r] EXCEPT !.at = a] \in RequestType
    BY <1>1 DEF RequestType
  <1>3. /\ req' \in [Requests -> RequestType] /\ Only(r)
        /\ req'[r] = [req[r] EXCEPT !.at = a]
    BY <1>1, <1>2 DEF Goto, Only
  <1> QED
    BY <1>1, <1>3 DEF Goes, SameIds, SameBytes, RequestType

(* The two outcomes of a reservation.                                         *)
LEMMA AdmitEffect ==
  ASSUME AdmissionAssumption, TypeOK, NEW r \in Requests, NEW size \in Sizes,
         NEW length \in {size, Unsized}, Admit(r, size, length)
  PROVE  /\ req' \in [Requests -> RequestType] /\ receiving' \in Int
         /\ Only(r) /\ SameIds(r) /\ scratch' = scratch /\ req[r].at = "new"
         /\ req'[r].counted = req[r].counted
         /\ \/ /\ req'[r].at = "done" /\ req'[r].reserved = req[r].reserved
               /\ receiving' = receiving /\ req'[r].answer = "refused"
            \/ /\ req'[r].at = "received"
               /\ req'[r].size \in 0..Ceiling /\ req'[r].reserved \in 0..Ceiling
               /\ req'[r].size <= req'[r].reserved
               /\ receiving' = receiving + req'[r].reserved
               /\ receiving' + scratch <= Budget
  <1> DEFINE n == Reserved(length)
             no == [req[r] EXCEPT !.at = "done", !.answer = "refused"]
             yes == [req[r] EXCEPT !.at = "received", !.size = size, !.reserved = n]
  <1>1. /\ Ceiling \in Nat /\ Budget \in Nat /\ size \in 0..Ceiling
        /\ req[r] \in RequestType /\ req \in [Requests -> RequestType]
        /\ receiving \in Int /\ scratch \in Int
    BY DEF AdmissionAssumption, TypeOK
  <1>2. n \in 0..Ceiling /\ size <= n
    BY <1>1 DEF Reserved
  <1>3. no \in RequestType /\ yes \in RequestType
    BY <1>1, <1>2 DEF RequestType, Outside, Arriving
  <1>4. /\ req[r].at = "new" /\ scratch' = scratch
        /\ \/ Becomes(r, no) /\ receiving' = receiving
           \/ ~(receiving + scratch + n > Budget) /\ Becomes(r, yes) /\ receiving' = receiving + n
    BY Zenon DEF Admit, At, Becomes
  <1> HIDE DEF n
  <1>5. CASE Becomes(r, no) /\ receiving' = receiving
    <2>1. /\ req' \in [Requests -> RequestType]
          /\ req'[r] = no /\ \A q \in Requests : q # r => req'[q] = req[q]
      BY <1>1, <1>3, <1>5, BecomesType
    <2> QED
      BY <1>1, <1>4, <1>5, <2>1 DEF Only, SameIds, RequestType
  <1>6. CASE ~(receiving + scratch + n > Budget) /\ Becomes(r, yes) /\ receiving' = receiving + n
    <2>1. /\ req' \in [Requests -> RequestType]
          /\ req'[r] = yes /\ \A q \in Requests : q # r => req'[q] = req[q]
      BY <1>1, <1>3, <1>6, BecomesType
    <2> QED
      BY <1>1, <1>2, <1>4, <1>6, <2>1 DEF Only, SameIds, RequestType
  <1> QED
    BY <1>4, <1>5, <1>6

LEMMA EnterEffect ==
  ASSUME AdmissionAssumption, TypeOK, NEW r \in Requests, NEW ask \in Asks,
         NEW replace \in BOOLEAN, NEW raw \in BOOLEAN, Enter(r, ask, replace, raw)
  PROVE  /\ req' \in [Requests -> RequestType] /\ receiving' \in Int /\ scratch' \in Int
         /\ UNCHANGED <<lib, counter>> /\ req[r].at = "received"
         /\ \/ Over(r)
            \/ /\ Only(r) /\ SameBytes(r) /\ req'[r].at = "gate"
               /\ req'[r].id = req[r].id /\ req'[r].turn = req[r].turn
  <1> DEFINE replacing == ask \in Ids /\ Exists(ask)
             new == [req[r] EXCEPT !.at = "gate", !.ask = ask, !.raw = raw,
                                   !.replace = replace, !.replacing = replacing]
  <1>1. /\ req[r] \in RequestType /\ req \in [Requests -> RequestType]
        /\ receiving \in Int /\ scratch \in Int
    BY DEF TypeOK
  <1>2. replacing \in BOOLEAN
    OBVIOUS
  <1> HIDE DEF replacing
  <1>3. new \in RequestType
    BY <1>1, <1>2 DEF RequestType, Arriving
  <1>4. /\ UNCHANGED <<lib, counter>> /\ req[r].at = "received"
        /\ \/ Answer(r, "refused")
           \/ Becomes(r, new) /\ UNCHANGED <<receiving, scratch>>
    BY Zenon DEF Enter, At, Becomes, replacing
  <1>5. CASE Answer(r, "refused")
    BY <1>4, <1>5, AnswerEffect
  <1>6. CASE Becomes(r, new) /\ UNCHANGED <<receiving, scratch>>
    <2>1. /\ req' \in [Requests -> RequestType]
          /\ req'[r] = new /\ \A q \in Requests : q # r => req'[q] = req[q]
      BY <1>1, <1>3, <1>6, BecomesType
    <2> QED
      BY <1>1, <1>4, <1>6, <2>1 DEF Only, SameBytes, RequestType
  <1> QED
    BY <1>4, <1>5, <1>6

LEMMA CountEffect ==
  ASSUME AdmissionAssumption, TypeOK, NEW r \in Requests, Count(r)
  PROVE  /\ req' \in [Requests -> RequestType] /\ receiving' \in Int /\ scratch' \in Int
         /\ UNCHANGED <<lib, counter>> /\ req[r].at = "staged"
         /\ \/ Over(r)
            \/ /\ Only(r) /\ SameIds(r) /\ req'[r].at \in {"reserve", "check"}
               /\ req'[r].size = req[r].size /\ req'[r].reserved = 0 /\ req'[r].counted
               /\ receiving' = receiving - req[r].reserved /\ scratch' = scratch + req[r].size
  <1> DEFINE to == IF req[r].raw THEN "reserve" ELSE "check"
             new == [req[r] EXCEPT !.at = to, !.reserved = 0, !.counted = TRUE]
  <1>1. /\ req[r] \in RequestType /\ req \in [Requests -> RequestType]
        /\ receiving \in Int /\ scratch \in Int /\ 0 \in 0..Ceiling
        /\ req[r].size \in Int /\ req[r].reserved \in Int
    BY DEF TypeOK, AdmissionAssumption, RequestType
  <1>2. to \in {"reserve", "check"}
    OBVIOUS
  <1> HIDE DEF to
  <1>3. new \in RequestType
    BY <1>1, <1>2 DEF RequestType, Working
  <1>4. /\ UNCHANGED <<lib, counter>> /\ req[r].at = "staged"
        /\ \/ Answer(r, "refused")
           \/ /\ Becomes(r, new)
              /\ receiving' = receiving - req[r].reserved /\ scratch' = scratch + req[r].size
    BY Zenon DEF Count, At, Becomes, to
  <1>5. CASE Answer(r, "refused")
    BY <1>4, <1>5, AnswerEffect
  <1>6. CASE /\ Becomes(r, new)
             /\ receiving' = receiving - req[r].reserved /\ scratch' = scratch + req[r].size
    <2>1. /\ req' \in [Requests -> RequestType]
          /\ req'[r] = new /\ \A q \in Requests : q # r => req'[q] = req[q]
      BY <1>1, <1>3, <1>6, BecomesType
    <2> QED
      BY <1>1, <1>2, <1>4, <1>6, <2>1 DEF Only, SameIds, RequestType
  <1> QED
    BY <1>4, <1>5, <1>6

(* The turn that is drawn is later than every other.                          *)
LEMMA MintEffect ==
  ASSUME AdmissionAssumption, TypeOK, NEW r \in Requests, NEW i \in Ids, Mint(r, i),
         UNCHANGED <<receiving, scratch>>
  PROVE  /\ req' \in [Requests -> RequestType]
         /\ Only(r) /\ SameBytes(r) /\ req'[r].at = "lock" /\ req'[r].id = i
         /\ req'[r].ask = req[r].ask
         /\ \A q \in Requests : req'[r].turn > req[q].turn
  <1> DEFINE turns == {req[q].turn : q \in Requests}
             last == Max(turns)
             new == [req[r] EXCEPT !.id = i, !.at = "lock", !.turn = 1 + last]
  <1>1. req[r] \in RequestType /\ req \in [Requests -> RequestType]
    BY DEF TypeOK
  <1>2. turns \subseteq Nat /\ turns # {}
    BY <1>1 DEF RequestType
  <1>3. IsFiniteSet(turns)
    <2> DEFINE f == [q \in Requests |-> req[q].turn]
    <2>1. f \in Surjection(Requests, turns)
      BY DEF Surjection
    <2>2. IsFiniteSet(Requests)
      BY DEF AdmissionAssumption
    <2> HIDE DEF f, turns
    <2> QED
      BY <2>1, <2>2, FS_Surjection DEF ExistsSurjection
  <1>4. last \in turns /\ \A y \in turns : last >= y
    BY <1>2, <1>3, MaxIn
  <1>5. Becomes(r, new)
    BY Zenon DEF Mint, Becomes
  <1> HIDE DEF last
  <1>6. last \in Nat /\ \A q \in Requests : last >= req[q].turn /\ req[q].turn \in Nat
    BY <1>1, <1>2, <1>4 DEF RequestType
  <1>7. new \in RequestType
    <2>1. 1 + last \in Nat /\ i \in Ids \cup {Free} /\ "lock" \in Working
      BY <1>6 DEF Working, Placed
    <2> QED
      BY <1>1, <2>1 DEF RequestType
  <1>8. /\ req' \in [Requests -> RequestType]
        /\ req'[r] = new /\ \A q \in Requests : q # r => req'[q] = req[q]
    BY <1>1, <1>5, <1>7, BecomesType
  <1> QED
    BY <1>1, <1>6, <1>8 DEF Only, SameBytes, RequestType

(* How an id is chosen: as asked, the next of the name, or the next number.   *)
AsAsked(r, i)    == i \in Ids /\ i = req[r].ask /\ counter' = counter
ByName(r, i)     == /\ req[r].ask = "filename" /\ counter' = counter
                    /\ \E k \in DOMAIN Named : i = Named[k] /\ lib[i] = Free /\ i \notin InUse
ByNumber(r, i)   == /\ req[r].ask \in {"counter", "filename"}
                    /\ \E k \in DOMAIN Numbered :
                          i = Numbered[k] /\ lib[i] = Free /\ counter <= k /\ counter' = k + 1

LEMMA ReserveEffect ==
  ASSUME AdmissionAssumption, IdsAssumption, TypeOK, NEW r \in Requests, Reserve(r)
  PROVE  /\ req[r].at = "reserve" /\ UNCHANGED <<receiving, scratch, lib>>
         /\ counter' \in Nat \ {0}
         /\ \E i \in Ids : Mint(r, i) /\ (AsAsked(r, i) \/ ByName(r, i) \/ ByNumber(r, i))
  <1>0. /\ counter \in Nat \ {0}
        /\ DOMAIN Named = 1..Len(Named) /\ DOMAIN Numbered = 1..Len(Numbered)
        /\ Len(Named) \in Nat /\ Len(Numbered) \in Nat
        /\ \A k \in DOMAIN Named : Named[k] \in Ids
        /\ \A k \in DOMAIN Numbered : Numbered[k] \in Ids
    BY DEF TypeOK, IdsAssumption
  <1>1. req[r].at = "reserve" /\ UNCHANGED <<receiving, scratch, lib>>
    BY DEF Reserve, At
  <1>2. CASE Explicit(r) /\ Mint(r, req[r].ask) /\ UNCHANGED counter
    BY <1>0, <1>1, <1>2 DEF Explicit, AsAsked
  <1>3. CASE /\ req[r].ask = "filename" /\ FreeNames # {}
             /\ Mint(r, Named[Min(FreeNames)]) /\ UNCHANGED counter
    <2>1. FreeNames \subseteq DOMAIN Named /\ FreeNames \subseteq Nat
      BY <1>0 DEF FreeNames
    <2>2. Min(FreeNames) \in FreeNames
      BY <1>3, <2>1, MinIn
    <2> DEFINE k == Min(FreeNames)
    <2> HIDE DEF k
    <2>3. k \in DOMAIN Named /\ ~Exists(Named[k]) /\ Named[k] \notin InUse
      BY <2>2 DEF FreeNames, k
    <2>4. Named[k] \in Ids /\ lib[Named[k]] = Free
      BY <1>0, <2>3 DEF Exists
    <2>5. ByName(r, Named[k])
      BY <1>3, <2>3, <2>4 DEF ByName
    <2> QED
      BY <1>0, <1>1, <1>3, <2>4, <2>5 DEF k
  <1>4. CASE /\ req[r].ask = "counter" \/ (req[r].ask = "filename" /\ FreeNames = {})
             /\ FreeNumbers # {}
             /\ Mint(r, Numbered[Min(FreeNumbers)]) /\ counter' = Min(FreeNumbers) + 1
    <2>1. FreeNumbers \subseteq Nat
      BY <1>0 DEF FreeNumbers
    <2>2. Min(FreeNumbers) \in FreeNumbers
      BY <1>4, <2>1, MinIn
    <2> DEFINE k == Min(FreeNumbers)
    <2> HIDE DEF k
    <2>3. k \in Nat /\ counter <= k /\ k <= Len(Numbered) /\ ~Exists(Numbered[k])
      <3>1. k \in FreeNumbers
        BY <2>2 DEF k
      <3>2. k \in counter..Len(Numbered) /\ ~Exists(Numbered[k])
        BY <3>1 DEF FreeNumbers
      <3> QED
        BY <1>0, <2>1, <3>1, <3>2
    <2>4. k >= 1
      BY <1>0, <2>3
    <2>5. k \in DOMAIN Numbered
      BY <1>0, <2>3, <2>4
    <2>6. Numbered[k] \in Ids /\ lib[Numbered[k]] = Free
      BY <1>0, <2>3, <2>5 DEF Exists
    <2>7. counter' = k + 1
      BY <1>4 DEF k
    <2>8. ByNumber(r, Numbered[k])
      BY <1>4, <2>3, <2>5, <2>6, <2>7 DEF ByNumber
    <2> QED
      BY <1>0, <1>1, <1>4, <2>3, <2>6, <2>7, <2>8 DEF k
  <1> QED
    BY <1>1, <1>2, <1>3, <1>4 DEF Reserve

LEMMA RecheckEffect ==
  ASSUME AdmissionAssumption, TypeOK, NEW r \in Requests, Recheck(r)
  PROVE  /\ req' \in [Requests -> RequestType] /\ receiving' \in Int /\ scratch' \in Int
         /\ UNCHANGED <<lib, counter>> /\ req[r].at = "parse"
         /\ \/ Over(r)
            \/ /\ Only(r) /\ SameBytes(r) /\ req'[r].at = "commit"
               /\ req'[r].id = req[r].id /\ req'[r].turn = req[r].turn
               /\ req'[r].ask = req[r].ask /\ req'[r].replace = req[r].replace
               /\ Explicit(r) /\ Exists(req[r].id) => req[r].replace /\ req'[r].replacing
  <1> DEFINE taken == Explicit(r) /\ Exists(req[r].id)
             new == [req[r] EXCEPT !.at = "commit", !.replacing = req[r].replacing \/ taken]
  <1>1. /\ req[r] \in RequestType /\ req \in [Requests -> RequestType]
        /\ receiving \in Int /\ scratch \in Int
    BY DEF TypeOK
  <1>2. taken \in BOOLEAN /\ (req[r].replacing \/ taken) \in BOOLEAN
    OBVIOUS
  <1> HIDE DEF taken
  <1>3. new \in RequestType
    BY <1>1, <1>2 DEF RequestType, Working, Placed
  <1>4. /\ UNCHANGED <<lib, counter>> /\ req[r].at = "parse"
        /\ \/ Answer(r, "refused")
           \/ /\ ~(taken /\ ~req[r].replace)
              /\ Becomes(r, new) /\ UNCHANGED <<receiving, scratch>>
    BY DEF Recheck, At, Becomes, taken
  <1>5. CASE Answer(r, "refused")
    BY <1>4, <1>5, AnswerEffect
  <1>6. CASE /\ ~(taken /\ ~req[r].replace)
             /\ Becomes(r, new) /\ UNCHANGED <<receiving, scratch>>
    <2>1. /\ req' \in [Requests -> RequestType]
          /\ req'[r] = new /\ \A q \in Requests : q # r => req'[q] = req[q]
      BY <1>1, <1>3, <1>6, BecomesType
    <2>2. taken => req[r].replace /\ new.replacing
      BY <1>1, <1>6 DEF RequestType
    <2> QED
      BY <1>1, <1>4, <1>6, <2>1, <2>2 DEF Only, SameBytes, RequestType, taken
  <1> QED
    BY <1>4, <1>5, <1>6

-----------------------------------------------------------------------------
(* A step of one request keeps the ledgers if it writes into them what it     *)
(* does to its own bytes.                                                     *)
Counts(r) == IF req[r].counted THEN req[r].size ELSE 0

LEMMA BytesBook ==
  ASSUME AdmissionAssumption, BytesInv, TypeOK', NEW r \in Requests, Only(r), BytesOf(r)',
         receiving' = receiving + req'[r].reserved - req[r].reserved,
         scratch' = scratch + Counts(r)' - Counts(r),
         receiving' + scratch' <= Budget
  PROVE  BytesInv'
  <1>1. TypeOK /\ req \in [Requests -> RequestType] /\ req' \in [Requests -> RequestType]
    BY DEF BytesInv, TypeOK
  <1>2. /\ Reserving \in Ledger /\ Reserving' \in Ledger
        /\ Counting \in Ledger /\ Counting' \in Ledger
    <2>1. 0 \in 0..Ceiling
      BY DEF AdmissionAssumption
    <2> QED
      BY <1>1, <2>1 DEF Reserving, Counting, Ledger, RequestType
  <1>3. /\ Reserving[r] = req[r].reserved /\ Reserving'[r] = req'[r].reserved
        /\ Counting[r] = Counts(r) /\ Counting'[r] = Counts(r)'
        /\ \A q \in Requests : q # r => Reserving'[q] = Reserving[q] /\ Counting'[q] = Counting[q]
    BY DEF Reserving, Counting, Counts, Only
  <1>4. Cardinality(Bytes(Reserving')) = Cardinality(Bytes(Reserving)) + Reserving'[r] - Reserving[r]
    BY <1>2, <1>3, LedgerStep
  <1>5. Cardinality(Bytes(Counting')) = Cardinality(Bytes(Counting)) + Counting'[r] - Counting[r]
    BY <1>2, <1>3, LedgerStep
  <1>6. Bytes(Reserving)' = Bytes(Reserving') /\ Bytes(Counting)' = Bytes(Counting')
    BY DEF Bytes
  <1>7. /\ receiving' = Cardinality(Bytes(Reserving))'
        /\ scratch' = Cardinality(Bytes(Counting))'
    BY <1>3, <1>4, <1>5, <1>6 DEF BytesInv
  <1>8. \A q \in Requests : BytesOf(q)'
    <2>1. ASSUME NEW q \in Requests, q # r PROVE BytesOf(q)'
      BY <2>1 DEF BytesInv, BytesOf, Only
    <2> QED
      BY <2>1
  <1> QED
    BY <1>7, <1>8 DEF BytesInv

LEMMA BytesKept ==
  ASSUME AdmissionAssumption, BytesInv, TypeOK', NEW r \in Requests, Only(r), SameBytes(r),
         \/ req[r].at \in Arriving /\ req'[r].at \in Arriving
         \/ req[r].at \in Working /\ req'[r].at \in Working
  PROVE  BytesInv'
  <1>1. /\ BytesOf(r) /\ req[r].reserved \in Int /\ req[r].size \in Int
        /\ receiving \in Int /\ scratch \in Int /\ receiving + scratch <= Budget
    BY DEF BytesInv, TypeOK, RequestType
  <1>2. BytesOf(r)'
    BY <1>1 DEF BytesOf, SameBytes, Outside, Arriving, Working, Placed
  <1>3. receiving' = receiving + req'[r].reserved - req[r].reserved
    BY <1>1 DEF SameBytes
  <1>4. scratch' = scratch + Counts(r)' - Counts(r)
    BY <1>1 DEF SameBytes, Counts
  <1> QED
    BY <1>1, <1>2, <1>3, <1>4, BytesBook DEF SameBytes

LEMMA BytesBack ==
  ASSUME AdmissionAssumption, BytesInv, TypeOK', NEW r \in Requests, Over(r)
  PROVE  BytesInv'
  <1>1. /\ req[r].reserved \in Nat /\ req[r].size \in Nat /\ Counts(r) \in Nat
        /\ receiving \in Int /\ scratch \in Int /\ receiving + scratch <= Budget
        /\ Budget \in Int
    BY DEF BytesInv, TypeOK, RequestType, AdmissionAssumption, Counts
  <1>2. BytesOf(r)'
    BY DEF BytesOf, Over, Outside, Arriving, Working, Placed
  <1>3. receiving' = receiving + req'[r].reserved - req[r].reserved
    BY <1>1 DEF Over
  <1>4. scratch' = scratch + Counts(r)' - Counts(r)
    BY <1>1 DEF Over, Counts
  <1>5. receiving' = receiving - req[r].reserved /\ scratch' = scratch - Counts(r)
    BY DEF Over, Counts
  <1>6. receiving' + scratch' <= Budget
    BY <1>1, <1>5
  <1> QED
    BY <1>2, <1>3, <1>4, <1>6, BytesBook DEF Over

LEMMA BytesInvStep ==
  ASSUME AdmissionAssumption, IdsAssumption, BytesInv, [Next]_vars
  PROVE  BytesInv'
  <1> SUFFICES ASSUME NEW r \in Requests,
                      \/ \E size \in Sizes : \E length \in {size, Unsized} : Admit(r, size, length)
                      \/ Handler(r) \/ Disconnect(r)
               PROVE  BytesInv'
    <2>1. CASE UNCHANGED vars
      <3>1. Bytes(Reserving)' = Bytes(Reserving) /\ Bytes(Counting)' = Bytes(Counting)
        BY <2>1 DEF vars, Bytes, Reserving, Counting
      <3> QED
        BY <2>1, <3>1 DEF vars, BytesInv, TypeOK, BytesOf
    <2> QED
      BY <2>1 DEF Next
  <1>0. TypeOK /\ BytesOf(r) /\ receiving \in Int /\ scratch \in Int /\ receiving + scratch <= Budget
    BY DEF BytesInv, TypeOK
  <1>1. ASSUME NEW size \in Sizes, NEW length \in {size, Unsized}, Admit(r, size, length)
        PROVE  BytesInv'
    <2>1. UNCHANGED <<scratch, lib, counter>> /\ req[r].at = "new"
      BY <1>1 DEF Admit, At
    <2>2. TypeOK'
      BY <1>0, <1>1, <2>1, AdmitEffect DEF TypeOK
    <2>3. req[r].reserved = 0 /\ ~req[r].counted
      BY <1>0, <2>1 DEF BytesOf, Outside
    <2>4. Only(r) /\ ~req'[r].counted
      BY <1>0, <1>1, <2>3, AdmitEffect
    <2>5. scratch' = scratch + Counts(r)' - Counts(r)
      BY <1>0, <2>1, <2>3, <2>4 DEF Counts
    <2>6. CASE req'[r].at = "done" /\ req'[r].reserved = req[r].reserved /\ receiving' = receiving
      <3>1. BytesOf(r)'
        BY <2>3, <2>4, <2>6 DEF BytesOf, Outside, Arriving, Working, Placed
      <3>2. receiving' = receiving + req'[r].reserved - req[r].reserved
        BY <1>0, <2>3, <2>6
      <3>3. receiving' + scratch' <= Budget
        BY <1>0, <2>1, <2>6
      <3> QED
        BY <2>2, <2>4, <2>5, <3>1, <3>2, <3>3, BytesBook
    <2>7. CASE /\ req'[r].at = "received" /\ req'[r].reserved \in 0..Ceiling
               /\ req'[r].size <= req'[r].reserved
               /\ receiving' = receiving + req'[r].reserved
               /\ receiving' + scratch <= Budget
      <3>1. BytesOf(r)'
        BY <2>4, <2>7 DEF BytesOf, Outside, Arriving, Working, Placed
      <3>2. receiving' = receiving + req'[r].reserved - req[r].reserved
        BY <1>0, <2>3, <2>7
      <3>3. receiving' + scratch' <= Budget
        BY <1>0, <2>1, <2>7
      <3> QED
        BY <2>2, <2>4, <2>5, <3>1, <3>2, <3>3, BytesBook
    <2> QED
      BY <1>0, <1>1, <2>6, <2>7, AdmitEffect
  <1>2. ASSUME NEW ask \in Asks, NEW replace \in BOOLEAN, NEW raw \in BOOLEAN,
               Enter(r, ask, replace, raw)
        PROVE  BytesInv'
    <2>1. TypeOK'
      BY <1>0, <1>2, EnterEffect DEF TypeOK
    <2>2. CASE Over(r)
      BY <2>1, <2>2, BytesBack
    <2>3. CASE Only(r) /\ SameBytes(r) /\ req'[r].at = "gate" /\ req[r].at = "received"
      BY <2>1, <2>3, BytesKept DEF Arriving
    <2> QED
      BY <1>0, <1>2, <2>2, <2>3, EnterEffect
  <1>3. ASSUME Count(r) PROVE BytesInv'
    <2>1. TypeOK' /\ req[r].at = "staged"
      BY <1>0, <1>3, CountEffect DEF TypeOK
    <2>2. CASE Over(r)
      BY <2>1, <2>2, BytesBack
    <2>3. CASE /\ Only(r) /\ req'[r].at \in {"reserve", "check"}
               /\ req'[r].size = req[r].size /\ req'[r].reserved = 0 /\ req'[r].counted
               /\ receiving' = receiving - req[r].reserved /\ scratch' = scratch + req[r].size
      <3>1. /\ ~req[r].counted /\ req[r].size <= req[r].reserved
            /\ req[r].size \in Int /\ req[r].reserved \in Int /\ Budget \in Int
        BY <1>0, <2>1 DEF BytesOf, Arriving, TypeOK, RequestType, AdmissionAssumption
      <3>2. BytesOf(r)'
        BY <2>3 DEF BytesOf, Outside, Arriving, Working, Placed
      <3>3. receiving' = receiving + req'[r].reserved - req[r].reserved
        BY <1>0, <2>3, <3>1
      <3>4. scratch' = scratch + Counts(r)' - Counts(r)
        BY <1>0, <2>3, <3>1 DEF Counts
      <3>5. receiving' + scratch' <= Budget
        BY <1>0, <2>3, <3>1
      <3> QED
        BY <2>1, <2>3, <3>2, <3>3, <3>4, <3>5, BytesBook
    <2> QED
      BY <1>0, <1>3, <2>2, <2>3, CountEffect
  <1>4. ASSUME Precheck(r) PROVE BytesInv'
    <2>1. /\ req[r].at = "check" /\ UNCHANGED <<lib, counter>>
          /\ \/ Goto(r, "reserve") /\ UNCHANGED <<receiving, scratch>>
             \/ Answer(r, "refused")
      BY <1>4 DEF Precheck, At
    <2>2. CASE Goto(r, "reserve") /\ UNCHANGED <<receiving, scratch>>
      BY <1>0, <2>1, <2>2, GotoEffect, BytesKept DEF Goes, TypeOK, Working, Placed
    <2>3. CASE Answer(r, "refused")
      BY <1>0, <2>1, <2>3, AnswerEffect, BytesBack DEF TypeOK
    <2> QED
      BY <2>1, <2>2, <2>3
  <1>5. ASSUME Reserve(r) PROVE BytesInv'
    <2>1. PICK i \in Ids : Mint(r, i)
      BY <1>0, <1>5, ReserveEffect
    <2>2. /\ req[r].at = "reserve" /\ UNCHANGED <<receiving, scratch, lib>>
          /\ counter' \in Nat \ {0}
      BY <1>0, <1>5, ReserveEffect
    <2>3. req' \in [Requests -> RequestType] /\ Only(r) /\ SameBytes(r) /\ req'[r].at = "lock"
      BY <1>0, <2>1, <2>2, MintEffect
    <2> QED
      BY <1>0, <2>2, <2>3, BytesKept DEF TypeOK, Working, Placed
  <1>6. ASSUME TakeLock(r) PROVE BytesInv'
    <2>1. /\ req[r].at = "lock" /\ UNCHANGED <<receiving, scratch, lib, counter>>
          /\ Goto(r, "parse") \/ Goto(r, "slot")
      BY <1>6 DEF TakeLock, At
    <2> QED
      BY <1>0, <2>1, GotoEffect, BytesKept DEF Goes, TypeOK, Working, Placed
  <1>7. ASSUME Recheck(r) PROVE BytesInv'
    <2>1. TypeOK'
      BY <1>0, <1>7, RecheckEffect DEF TypeOK
    <2>2. CASE Over(r)
      BY <2>1, <2>2, BytesBack
    <2>3. CASE Only(r) /\ SameBytes(r) /\ req'[r].at = "commit" /\ req[r].at = "parse"
      BY <2>1, <2>3, BytesKept DEF Working, Placed
    <2> QED
      BY <1>0, <1>7, <2>2, <2>3, RecheckEffect
  <1>8. ASSUME Commit(r) \/ ParseFails(r) PROVE BytesInv'
    <2>1. /\ \E a \in {"stored", "failed"} : Answer(r, a)
          /\ counter' = counter
          /\ \/ lib' = [lib EXCEPT ![req[r].id] = r] \/ lib' = lib
             \/ lib' = [lib EXCEPT ![req[r].id] = Free]
      BY <1>8 DEF Commit, ParseFails
    <2>2. lib' \in [Ids -> Requests \cup {Free}]
      BY <1>0, <2>1 DEF TypeOK
    <2> QED
      BY <1>0, <2>1, <2>2, AnswerEffect, BytesBack DEF TypeOK
  <1>9. ASSUME Copy(r) PROVE BytesInv'
    <2>1. req[r].at = "gate" /\ Goto(r, "copy") /\ UNCHANGED <<receiving, scratch, lib, counter>>
      BY <1>9 DEF Copy, At
    <2> QED
      BY <1>0, <2>1, GotoEffect, BytesKept
      DEF Goes, TypeOK, Arriving, Working, Placed
  <1>10. ASSUME Copied(r) PROVE BytesInv'
    <2>1. req[r].at = "copy" /\ Goto(r, "staged") /\ UNCHANGED <<receiving, scratch, lib, counter>>
      BY <1>10 DEF Copied, At
    <2> QED
      BY <1>0, <2>1, GotoEffect, BytesKept
      DEF Goes, TypeOK, Arriving, Working, Placed
  <1>11. ASSUME TakeSlot(r) PROVE BytesInv'
    <2>1. req[r].at = "slot" /\ Goto(r, "parse") /\ UNCHANGED <<receiving, scratch, lib, counter>>
      BY <1>11 DEF TakeSlot, At
    <2> QED
      BY <1>0, <2>1, GotoEffect, BytesKept
      DEF Goes, TypeOK, Arriving, Working, Placed
  <1>12. ASSUME CopyFails(r) PROVE BytesInv'
    <2>1. Answer(r, "refused") /\ UNCHANGED <<lib, counter>>
      BY <1>12 DEF CopyFails
    <2> QED
      BY <1>0, <2>1, AnswerEffect, BytesBack DEF TypeOK
  <1>13. ASSUME LockTimeout(r) PROVE BytesInv'
    <2>1. Answer(r, "refused") /\ UNCHANGED <<lib, counter>>
      BY <1>13 DEF LockTimeout
    <2> QED
      BY <1>0, <2>1, AnswerEffect, BytesBack DEF TypeOK
  <1>14. ASSUME SlotTimeout(r) PROVE BytesInv'
    <2>1. Answer(r, "refused") /\ UNCHANGED <<lib, counter>>
      BY <1>14 DEF SlotTimeout
    <2> QED
      BY <1>0, <2>1, AnswerEffect, BytesBack DEF TypeOK
  <1>15. ASSUME Disconnect(r) PROVE BytesInv'
    <2>1. Answer(r, "gone") /\ UNCHANGED <<lib, counter>>
      BY <1>15 DEF Disconnect
    <2> QED
      BY <1>0, <2>1, AnswerEffect, BytesBack DEF TypeOK
  <1> QED
    BY <1>1, <1>2, <1>3, <1>4, <1>5, <1>6, <1>7, <1>8, <1>9, <1>10, <1>11, <1>12, <1>13, <1>14,
       <1>15
    DEF Handler

(* What is on disk is reserved or counted.                                    *)
LEMMA BytesImply ==
  ASSUME AdmissionAssumption, BytesInv
  PROVE  BytesBounded
  <1>0. /\ receiving = Cardinality(Bytes(Reserving)) /\ scratch = Cardinality(Bytes(Counting))
        /\ receiving + scratch <= Budget /\ Budget \in Nat
    BY DEF BytesInv, AdmissionAssumption
  <1> DEFINE None == [r \in Requests |-> 0]
  <1>1. /\ Reserving \in Ledger /\ Counting \in Ledger /\ None \in Ledger
        /\ Spooled \in Ledger /\ Scratched \in Ledger
    <2>1. 0 \in 0..Ceiling
      BY DEF AdmissionAssumption
    <2> QED
      BY <2>1 DEF BytesInv, TypeOK, RequestType, Reserving, Counting, Spooled, Scratched, Ledger
  <1>2. \A r \in Requests : /\ Spooled[r] <= Reserving[r]
                            /\ Scratched[r] <= Reserving[r] \/ Scratched[r] <= Counting[r]
    <2> SUFFICES ASSUME NEW r \in Requests
                 PROVE  /\ Spooled[r] <= Reserving[r]
                        /\ Scratched[r] <= Reserving[r] \/ Scratched[r] <= Counting[r]
      OBVIOUS
    <2>1. /\ BytesOf(r) /\ req[r].at \in Outside \cup Arriving \cup Working
          /\ req[r].size \in Nat /\ req[r].reserved \in Nat
      BY DEF BytesInv, TypeOK, RequestType
    <2>2. CASE req[r].at \in Outside
      BY <2>1, <2>2 DEF Spooled, Scratched, Reserving, Outside, BytesOf
    <2>3. CASE req[r].at \in Arriving
      BY <2>1, <2>3 DEF Spooled, Scratched, Reserving, Arriving, BytesOf
    <2>4. CASE req[r].at \in Working
      BY <2>1, <2>4 DEF Spooled, Scratched, Reserving, Counting, Working, Placed, BytesOf
    <2> QED
      BY <2>1, <2>2, <2>3, <2>4
  <1>3. Cardinality(Bytes(None)) = 0
    <2>1. Bytes(None) = {}
      BY DEF Bytes, AdmissionAssumption
    <2> QED
      BY <2>1, FS_EmptySet
  <1> HIDE DEF None
  <1>4. \A r \in Requests : Spooled[r] <= Reserving[r] \/ Spooled[r] <= None[r]
    BY <1>2
  <1>5. Cardinality(Bytes(Spooled)) <= Cardinality(Bytes(Reserving)) + Cardinality(Bytes(None))
    BY <1>1, <1>4, LedgerCovered
  <1>6. Cardinality(Bytes(Scratched)) <= Cardinality(Bytes(Reserving)) + Cardinality(Bytes(Counting))
    BY <1>1, <1>2, LedgerCovered
  <1>7. /\ Cardinality(Bytes(Spooled)) \in Nat /\ Cardinality(Bytes(Scratched)) \in Nat
        /\ Cardinality(Bytes(Reserving)) \in Nat /\ Cardinality(Bytes(Counting)) \in Nat
    BY <1>1, BytesFinite
  <1> QED
    BY <1>0, <1>3, <1>5, <1>6, <1>7 DEF BytesBounded

(* Both ledgers say exactly what is held; what lies in the spools and is      *)
(* counted beside them, and what lies in .upload-tmp, never exceed the        *)
(* budget: for every number of requests and every size, whatever is refused,  *)
(* cancelled, failed or stored meanwhile.                                     *)
THEOREM BytesBoundedHolds ==
    AdmissionAssumption /\ IdsAssumption => (Spec => []BytesBounded)
  <1> SUFFICES ASSUME AdmissionAssumption, IdsAssumption PROVE Spec => []BytesBounded
    OBVIOUS
  <1>1. Init => BytesInv
    BY InitBytes
  <1>2. BytesInv /\ [Next]_vars => BytesInv'
    BY BytesInvStep
  <1>3. BytesInv => BytesBounded
    BY BytesImply
  <1> QED
    BY <1>1, <1>2, <1>3, PTL DEF Spec

-----------------------------------------------------------------------------
(* Why nobody writes over a document without having asked to.                 *)

(* No client asks for an id the counter is still to mint.                     *)
NumbersAreMinted == \A k \in DOMAIN Numbered : Numbered[k] \notin Asks

HasId(r) == req[r].at \in Placed
(* It holds the lock of its id, or was given an id nobody had.                *)
First(r) == HasId(r) /\ (Holds(r) \/ req[r].ask \notin Ids)
(* All others that want its id wait for its lock, behind it.                  *)
AllBehind(r) == \A q \in Requests :
    q # r /\ HasId(q) /\ req[q].id = req[r].id =>
      /\ req[q].at = "lock" /\ req[q].ask \in Ids
      /\ req[q].turn > req[r].turn

IdOf(r) ==
    /\ HasId(r) <=> req[r].id # Free
    /\ HasId(r) /\ req[r].ask \in Ids => req[r].id = req[r].ask
    /\ HasId(r) /\ req[r].ask \notin Ids => lib[req[r].id] = Free
    /\ \A k \in DOMAIN Numbered : req[r].id = Numbered[k] => k < counter
    /\ req[r].at = "commit" /\ lib[req[r].id] # Free => req[r].replace /\ req[r].replacing
IdInv ==
    /\ TypeOK
    /\ \A r \in Requests : IdOf(r)
    /\ \A r, q \in Requests : r # q /\ HasId(r) /\ HasId(q) => req[r].turn # req[q].turn
    /\ \A r \in Requests : First(r) => AllBehind(r)

LEMMA InitIds == ASSUME AdmissionAssumption, IdsAssumption, Init PROVE IdInv
  <1>1. TypeOK
    BY NoRequestType DEF Init, TypeOK
  <1>2. \A r \in Requests : ~HasId(r) /\ req[r].id = Free /\ req[r].at # "commit"
    BY DEF Init, NoRequest, HasId, Placed
  <1>3. \A k \in DOMAIN Numbered : Numbered[k] # Free
    BY DEF IdsAssumption
  <1>4. \A r \in Requests : IdOf(r) /\ ~First(r)
    BY <1>2, <1>3 DEF IdOf, First
  <1> QED
    BY <1>1, <1>2, <1>4 DEF IdInv

(* A request without an id that stays without one, or loses what it had: the  *)
(* others keep what they have.                                                *)
LEMMA IdsWithout ==
  ASSUME IdsAssumption, IdInv, TypeOK', NEW r \in Requests, Only(r), UNCHANGED counter,
         req'[r].at \notin Placed, req'[r].id = Free,
         \A q \in Requests : q # r /\ HasId(q) /\ lib'[req[q].id] # lib[req[q].id] =>
                                req[q].at = "lock" /\ req[q].ask \in Ids
  PROVE  IdInv'
  <1>1. \A k \in DOMAIN Numbered : Numbered[k] # Free
    BY DEF IdsAssumption
  <1>2. ~HasId(r)' /\ ~First(r)' /\ "commit" \in Placed
    BY DEF HasId, First, Placed
  <1>3. \A q \in Requests : q # r => HasId(q)' = HasId(q) /\ First(q)' = First(q)
    BY DEF Only, HasId, First, Holds
  <1>4. \A q \in Requests : IdOf(q)'
    <2>1. IdOf(r)'
      BY <1>1, <1>2 DEF IdOf, HasId
    <2>2. ASSUME NEW q \in Requests, q # r PROVE IdOf(q)'
      <3>1. IdOf(q) /\ req'[q] = req[q] /\ HasId(q)' = HasId(q)
        BY <1>3, <2>2 DEF IdInv, Only
      <3>2. CASE HasId(q)
        BY <3>1, <3>2, <2>2 DEF IdOf
      <3>3. CASE ~HasId(q)
        <4>1. req[q].at # "commit"
          BY <3>3, <1>2 DEF HasId
        <4> QED
          BY <3>1, <3>3, <4>1 DEF IdOf
      <3> QED
        BY <3>2, <3>3
    <2> QED
      BY <2>1, <2>2
  <1>5. \A p, q \in Requests : p # q /\ HasId(p)' /\ HasId(q)' => req'[p].turn # req'[q].turn
    BY <1>2, <1>3 DEF IdInv, Only
  <1>6. ASSUME NEW p \in Requests, First(p)' PROVE AllBehind(p)'
    <2>1. p # r /\ First(p) /\ AllBehind(p) /\ req'[p] = req[p]
      BY <1>2, <1>3, <1>6 DEF IdInv, Only
    <2> QED
      BY <1>2, <1>3, <2>1 DEF AllBehind, Only
  <1> QED
    BY <1>4, <1>5, <1>6 DEF IdInv

(* A request moves on with its id.                                            *)
LEMMA IdsWith ==
  ASSUME IdsAssumption, IdInv, TypeOK', NEW r \in Requests, Only(r), UNCHANGED <<lib, counter>>,
         req[r].at \in Placed, req'[r].at \in Placed \ {"lock"},
         req'[r].id = req[r].id, req'[r].turn = req[r].turn, req'[r].ask = req[r].ask,
         First(r) \/ AllBehind(r),
         req'[r].at = "commit" /\ lib[req[r].id] # Free => req'[r].replace /\ req'[r].replacing
  PROVE  IdInv'
  <1>1. HasId(r) /\ HasId(r)' /\ First(r)' /\ IdOf(r)
    BY DEF HasId, First, Holds, Placed, IdInv
  <1>2. \A q \in Requests : q # r => req'[q] = req[q] /\ HasId(q)' = HasId(q) /\ First(q)' = First(q)
    BY DEF Only, HasId, First, Holds
  <1>3. AllBehind(r)
    BY DEF IdInv
  <1>4. IdOf(r)'
    BY <1>1 DEF IdOf
  <1>5. \A q \in Requests : q # r => IdOf(q)'
    BY <1>2 DEF IdInv, IdOf
  <1>6. \A p, q \in Requests : p # q /\ HasId(p)' /\ HasId(q)' => req'[p].turn # req'[q].turn
    <2>1. \A q \in Requests : (HasId(q)' => HasId(q)) /\ req'[q].turn = req[q].turn
      BY <1>1, <1>2
    <2> QED
      BY <2>1 DEF IdInv
  <1>7. AllBehind(r)'
    BY <1>2, <1>3 DEF AllBehind
  <1>8. ASSUME NEW p \in Requests, p # r, First(p)' PROVE AllBehind(p)'
    <2>1. First(p) /\ AllBehind(p) /\ req'[p] = req[p] /\ HasId(p)
      BY <1>2, <1>8 DEF IdInv, First
    <2>2. req[p].id # req[r].id
      <3> SUFFICES ASSUME req[p].id = req[r].id PROVE FALSE
        OBVIOUS
      <3>1. req[r].turn > req[p].turn
        BY <1>1, <1>8, <2>1 DEF AllBehind
      <3>2. req[p].turn > req[r].turn
        BY <1>3, <1>8, <2>1 DEF AllBehind
      <3>3. req[p].turn \in Nat /\ req[r].turn \in Nat
        BY DEF IdInv, TypeOK, RequestType
      <3> QED
        BY <3>1, <3>2, <3>3
    <2> QED
      BY <1>2, <2>1, <2>2 DEF AllBehind
  <1> QED
    BY <1>4, <1>5, <1>6, <1>7, <1>8 DEF IdInv

(* The id that a request draws is one nobody has, or the one it asked for; in *)
(* that case it waits behind whoever has it.                                  *)
LEMMA IdsDrawn ==
  ASSUME AdmissionAssumption, IdsAssumption, NumbersAreMinted, IdInv, TypeOK',
         NEW r \in Requests, Reserve(r)
  PROVE  IdInv'
  <1>0. TypeOK /\ \A q \in Requests : req[q].turn \in Nat /\ req'[q].turn \in Nat
    BY DEF IdInv, TypeOK, RequestType
  <1>1. /\ req[r].at = "reserve" /\ UNCHANGED <<receiving, scratch, lib>> /\ ~HasId(r)
        /\ counter \in Nat /\ counter' \in Nat
    BY <1>0, ReserveEffect DEF HasId, Placed, TypeOK
  <1>2. PICK i \in Ids : Mint(r, i) /\ (AsAsked(r, i) \/ ByName(r, i) \/ ByNumber(r, i))
    BY <1>0, ReserveEffect
  <1>3. /\ Only(r) /\ req'[r].at = "lock" /\ req'[r].id = i /\ req'[r].ask = req[r].ask
        /\ \A q \in Requests : req'[r].turn > req[q].turn
    BY <1>0, <1>1, <1>2, MintEffect
  <1>4. HasId(r)' /\ ~Holds(r)' /\ i # Free
    BY <1>3 DEF HasId, Holds, Placed, IdsAssumption
  <1>5. \A q \in Requests : q # r =>
           /\ req'[q] = req[q] /\ HasId(q)' = HasId(q) /\ First(q)' = First(q)
    BY <1>3 DEF Only, HasId, First, Holds
  <1>6. req[r].ask \in Ids => AsAsked(r, i)
    BY <1>2 DEF ByName, ByNumber, IdsAssumption
  <1>7. req[r].ask \notin Ids => lib[i] = Free /\ \A q \in Requests : HasId(q) => req[q].id # i
    <2> SUFFICES ASSUME req[r].ask \notin Ids
                 PROVE  lib[i] = Free /\ \A q \in Requests : HasId(q) => req[q].id # i
      OBVIOUS
    <2>1. CASE ByName(r, i)
      <3>1. lib[i] = Free /\ i \notin InUse
        BY <2>1 DEF ByName
      <3>2. ASSUME NEW q \in Requests, HasId(q), req[q].id = i PROVE FALSE
        <4>1. req[q].at # "done"
          BY <3>2 DEF HasId, Placed
        <4> QED
          BY <1>4, <3>1, <3>2, <4>1 DEF InUse, At
      <3> QED
        BY <3>1, <3>2
    <2>2. CASE ByNumber(r, i)
      <3>1. PICK k \in DOMAIN Numbered : i = Numbered[k] /\ lib[i] = Free /\ counter <= k
        BY <2>2 DEF ByNumber
      <3>2. k \in Nat
        BY DEF IdsAssumption
      <3>3. ASSUME NEW q \in Requests, HasId(q), req[q].id = i PROVE FALSE
        <4>1. k < counter
          BY <3>1, <3>3 DEF IdInv, IdOf
        <4> QED
          BY <1>1, <3>1, <3>2, <4>1
      <3> QED
        BY <3>1, <3>3
    <2>3. CASE AsAsked(r, i)
      BY <2>3 DEF AsAsked
    <2> QED
      BY <1>2, <2>1, <2>2, <2>3
  <1>8. counter <= counter' /\ \A k \in DOMAIN Numbered : i = Numbered[k] => k < counter'
    <2>0. DOMAIN Numbered \subseteq Nat
      BY DEF IdsAssumption
    <2>1. CASE AsAsked(r, i) \/ ByName(r, i)
      <3>1. counter' = counter
        BY <2>1 DEF AsAsked, ByName
      <3>2. \A k \in DOMAIN Numbered : i # Numbered[k]
        <4>1. CASE AsAsked(r, i)
          <5>1. i \in Asks
            BY <1>0, <1>4, <4>1 DEF AsAsked, TypeOK, RequestType
          <5> QED
            BY <5>1 DEF NumbersAreMinted
        <4>2. CASE ByName(r, i)
          BY <4>2 DEF ByName, IdsAssumption
        <4> QED
          BY <2>1, <4>1, <4>2
      <3> QED
        BY <1>1, <3>1, <3>2
    <2>2. CASE ByNumber(r, i)
      <3>1. PICK k \in DOMAIN Numbered : i = Numbered[k] /\ counter <= k /\ counter' = k + 1
        BY <2>2 DEF ByNumber
      <3>2. \A n \in DOMAIN Numbered : i = Numbered[n] => n = k
        BY <3>1 DEF IdsAssumption
      <3>3. k \in Nat /\ k < counter'
        BY <2>0, <3>1
      <3> QED
        BY <1>1, <3>1, <3>2, <3>3
    <2> QED
      BY <1>2, <2>1, <2>2
  <1>9. IdOf(r)'
    <2>1. req'[r].ask \in Ids => req'[r].id = req'[r].ask
      BY <1>3, <1>6 DEF AsAsked
    <2>2. req'[r].ask \notin Ids => lib'[req'[r].id] = Free
      BY <1>1, <1>3, <1>7
    <2> QED
      BY <1>3, <1>4, <1>8, <2>1, <2>2 DEF IdOf
  <1>10. ASSUME NEW q \in Requests, q # r PROVE IdOf(q)'
    <2>1. IdOf(q) /\ req'[q] = req[q] /\ HasId(q)' = HasId(q) /\ lib' = lib
      BY <1>1, <1>5, <1>10 DEF IdInv
    <2>2. \A k \in DOMAIN Numbered : req'[q].id = Numbered[k] => k < counter'
      <3>1. ASSUME NEW k \in DOMAIN Numbered, req'[q].id = Numbered[k] PROVE k < counter'
        <4>1. k < counter
          BY <2>1, <3>1 DEF IdOf
        <4>2. k \in Nat
          BY DEF IdsAssumption
        <4> QED
          BY <1>1, <1>8, <4>1, <4>2
      <3> QED
        BY <3>1
    <2> QED
      BY <2>1, <2>2 DEF IdOf
  <1>11. \A p, q \in Requests : p # q /\ HasId(p)' /\ HasId(q)' => req'[p].turn # req'[q].turn
    <2>1. \A q \in Requests : q # r => req'[q].turn # req'[r].turn
      BY <1>0, <1>3, <1>5
    <2> QED
      BY <1>5, <2>1 DEF IdInv
  <1>12. ASSUME First(r)' PROVE AllBehind(r)'
    <2>1. req[r].ask \notin Ids
      BY <1>3, <1>4, <1>12 DEF First
    <2> QED
      BY <1>3, <1>5, <1>7, <2>1 DEF AllBehind
  <1>13. ASSUME NEW p \in Requests, p # r, First(p)' PROVE AllBehind(p)'
    <2>1. First(p) /\ AllBehind(p) /\ req'[p] = req[p] /\ HasId(p)
      BY <1>5, <1>13 DEF IdInv, First
    <2>2. req'[r].id = req[p].id => req'[r].ask \in Ids /\ req'[r].turn > req[p].turn
      BY <1>3, <1>7, <2>1
    <2> QED
      BY <1>3, <1>5, <2>1, <2>2 DEF AllBehind
  <1> QED
    BY <1>9, <1>10, <1>11, <1>12, <1>13 DEF IdInv

LEMMA IdInvStep ==
  ASSUME AdmissionAssumption, IdsAssumption, NumbersAreMinted, BytesInv, IdInv, [Next]_vars
  PROVE  IdInv'
  <1> TypeOK'
    BY BytesInvStep DEF BytesInv
  <1> SUFFICES ASSUME NEW r \in Requests,
                      \/ \E size \in Sizes : \E length \in {size, Unsized} : Admit(r, size, length)
                      \/ Handler(r) \/ Disconnect(r)
               PROVE  IdInv'
    <2>1. CASE UNCHANGED vars
      BY <2>1 DEF vars, IdInv, IdOf, HasId, First, Holds, AllBehind
    <2> QED
      BY <2>1 DEF Next
  <1>0. /\ TypeOK /\ IdOf(r)
        /\ req[r].at \notin Placed => req[r].id = Free
    BY DEF IdInv, IdOf, HasId
  <1>1. ASSUME NEW size \in Sizes, NEW length \in {size, Unsized}, Admit(r, size, length)
        PROVE  IdInv'
    <2>1. UNCHANGED <<lib, counter>> /\ req[r].at = "new"
      BY <1>1 DEF Admit, At
    <2>2. Only(r) /\ SameIds(r) /\ req'[r].at \in {"done", "received"}
      BY <1>0, <1>1, AdmitEffect
    <2> QED
      BY <1>0, <2>1, <2>2, IdsWithout DEF SameIds, Placed
  <1>2. ASSUME NEW ask \in Asks, NEW replace \in BOOLEAN, NEW raw \in BOOLEAN,
               Enter(r, ask, replace, raw)
        PROVE  IdInv'
    <2>1. /\ UNCHANGED <<lib, counter>> /\ req[r].at = "received"
          /\ Over(r) \/ (Only(r) /\ req'[r].at = "gate" /\ req'[r].id = req[r].id)
      BY <1>0, <1>2, EnterEffect
    <2> QED
      BY <1>0, <2>1, IdsWithout DEF Over, Placed
  <1>3. ASSUME Count(r) PROVE IdInv'
    <2>1. /\ UNCHANGED <<lib, counter>> /\ req[r].at = "staged"
          /\ Over(r) \/ (Only(r) /\ SameIds(r) /\ req'[r].at \in {"reserve", "check"})
      BY <1>0, <1>3, CountEffect
    <2> QED
      BY <1>0, <2>1, IdsWithout DEF Over, SameIds, Placed
  <1>4. ASSUME Precheck(r) PROVE IdInv'
    <2>1. /\ req[r].at = "check" /\ UNCHANGED <<lib, counter>>
          /\ \/ Goto(r, "reserve") /\ UNCHANGED <<receiving, scratch>>
             \/ Answer(r, "refused")
      BY <1>4 DEF Precheck, At
    <2>2. Over(r) \/ Goes(r, "check", "reserve")
      BY <1>0, <2>1, GotoEffect, AnswerEffect DEF Working
    <2> QED
      BY <1>0, <2>1, <2>2, IdsWithout DEF Over, Goes, SameIds, Placed
  <1>5. ASSUME Reserve(r) PROVE IdInv'
    BY <1>5, IdsDrawn
  <1>6. ASSUME TakeLock(r) PROVE IdInv'
    <2>1. /\ req[r].at = "lock" /\ Before(r) = {}
          /\ UNCHANGED <<receiving, scratch, lib, counter>>
          /\ Goto(r, "parse") \/ Goto(r, "slot")
      BY <1>6 DEF TakeLock, At
    <2>2. Goes(r, "lock", "parse") \/ Goes(r, "lock", "slot")
      BY <1>0, <2>1, GotoEffect DEF Working, Placed
    <2>3. HasId(r)
      BY <2>1 DEF HasId, Placed
    <2>4. AllBehind(r)
      <3> SUFFICES ASSUME NEW q \in Requests, q # r, HasId(q), req[q].id = req[r].id
                   PROVE  /\ req[q].at = "lock" /\ req[q].ask \in Ids
                          /\ req[q].turn > req[r].turn
        BY DEF AllBehind
      <3>1. ~Holds(q) /\ ~(req[q].at = "lock" /\ req[q].turn < req[r].turn)
        BY <2>1 DEF Before, At
      <3>2. req[q].at = "lock"
        BY <3>1 DEF HasId, Holds, Placed
      <3>3. req[q].turn # req[r].turn
        BY <2>3 DEF IdInv
      <3>4. req[q].turn \in Nat /\ req[r].turn \in Nat
        BY <1>0 DEF TypeOK, RequestType
      <3>5. req[q].turn > req[r].turn
        BY <3>1, <3>2, <3>3, <3>4
      <3>6. CASE req[q].ask \notin Ids
        <4>1. AllBehind(q)
          BY <3>6 DEF IdInv, First
        <4>2. req[r].turn > req[q].turn
          BY <2>3, <4>1 DEF AllBehind
        <4> QED
          BY <3>4, <3>5, <4>2
      <3> QED
        BY <3>2, <3>5, <3>6
    <2> QED
      BY <1>0, <2>1, <2>2, <2>4, IdsWith DEF Goes, SameIds, Placed
  <1>7. ASSUME Recheck(r) PROVE IdInv'
    <2>1. /\ UNCHANGED <<lib, counter>> /\ req[r].at = "parse"
          /\ \/ Over(r)
             \/ /\ Only(r) /\ req'[r].at = "commit"
                /\ req'[r].id = req[r].id /\ req'[r].turn = req[r].turn
                /\ req'[r].ask = req[r].ask /\ req'[r].replace = req[r].replace
                /\ Explicit(r) /\ Exists(req[r].id) => req[r].replace /\ req'[r].replacing
      BY <1>0, <1>7, RecheckEffect
    <2>2. CASE Over(r)
      BY <2>1, <2>2, IdsWithout DEF Over, Placed
    <2>3. CASE ~Over(r)
      <3>1. First(r)
        BY <2>1 DEF First, HasId, Holds, Placed
      <3>2. lib[req[r].id] # Free => Explicit(r) /\ Exists(req[r].id)
        <4>1. HasId(r)
          BY <3>1 DEF First
        <4> QED
          BY <1>0, <4>1 DEF IdOf, Explicit, Exists
      <3> QED
        BY <1>0, <2>1, <2>3, <3>1, <3>2, IdsWith DEF Placed
    <2> QED
      BY <2>2, <2>3
  <1>8. ASSUME Commit(r) \/ ParseFails(r) PROVE IdInv'
    <2>1. /\ \E a \in {"stored", "failed"} : Answer(r, a)
          /\ counter' = counter /\ req[r].at = "commit"
          /\ \/ lib' = [lib EXCEPT ![req[r].id] = r] \/ lib' = lib
             \/ lib' = [lib EXCEPT ![req[r].id] = Free]
      BY <1>8 DEF Commit, ParseFails, At
    <2>2. Over(r)
      BY <1>0, <2>1, AnswerEffect
    <2>3. AllBehind(r) /\ HasId(r)
      BY <2>1 DEF IdInv, First, HasId, Holds, Placed
    <2>4. \A q \in Requests : q # r /\ HasId(q) /\ lib'[req[q].id] # lib[req[q].id] =>
                                req[q].at = "lock" /\ req[q].ask \in Ids
      <3> SUFFICES ASSUME NEW q \in Requests, q # r, HasId(q), lib'[req[q].id] # lib[req[q].id]
                   PROVE  req[q].at = "lock" /\ req[q].ask \in Ids
        OBVIOUS
      <3>1. req[q].id \in Ids
        BY <1>0 DEF IdInv, IdOf, TypeOK, RequestType
      <3>2. req[q].id = req[r].id
        BY <1>0, <2>1, <3>1 DEF TypeOK
      <3> QED
        BY <2>3, <3>2 DEF AllBehind
    <2> QED
      BY <2>1, <2>2, <2>4, IdsWithout DEF Over, Placed
  <1>16. ASSUME TakeSlot(r) PROVE IdInv'
    <2>1. req[r].at = "slot" /\ Goto(r, "parse") /\ UNCHANGED <<receiving, scratch, lib, counter>>
      BY <1>16 DEF TakeSlot, At
    <2>2. Goes(r, "slot", "parse")
      BY <1>0, <2>1, GotoEffect DEF Arriving, Working, Placed
    <2>3. First(r)
      BY <2>1 DEF First, HasId, Holds, Placed
    <2> QED
      BY <1>0, <2>1, <2>2, <2>3, IdsWith DEF Goes, SameIds, Placed
  <1>9. ASSUME Copy(r) PROVE IdInv'
    <2>1. req[r].at = "gate" /\ Goto(r, "copy") /\ UNCHANGED <<receiving, scratch, lib, counter>>
      BY <1>9 DEF Copy, At
    <2>2. Goes(r, "gate", "copy")
      BY <1>0, <2>1, GotoEffect DEF Arriving, Working, Placed
    <2> QED
      BY <1>0, <2>1, <2>2, IdsWithout DEF Goes, SameIds, Placed
  <1>10. ASSUME Copied(r) PROVE IdInv'
    <2>1. req[r].at = "copy" /\ Goto(r, "staged") /\ UNCHANGED <<receiving, scratch, lib, counter>>
      BY <1>10 DEF Copied, At
    <2>2. Goes(r, "copy", "staged")
      BY <1>0, <2>1, GotoEffect DEF Arriving, Working, Placed
    <2> QED
      BY <1>0, <2>1, <2>2, IdsWithout DEF Goes, SameIds, Placed
  <1>12. ASSUME CopyFails(r) PROVE IdInv'
    <2>1. Answer(r, "refused") /\ UNCHANGED <<lib, counter>>
      BY <1>12 DEF CopyFails
    <2> QED
      BY <1>0, <2>1, AnswerEffect, IdsWithout DEF Over, Placed
  <1>13. ASSUME LockTimeout(r) PROVE IdInv'
    <2>1. Answer(r, "refused") /\ UNCHANGED <<lib, counter>>
      BY <1>13 DEF LockTimeout
    <2> QED
      BY <1>0, <2>1, AnswerEffect, IdsWithout DEF Over, Placed
  <1>14. ASSUME SlotTimeout(r) PROVE IdInv'
    <2>1. Answer(r, "refused") /\ UNCHANGED <<lib, counter>>
      BY <1>14 DEF SlotTimeout
    <2> QED
      BY <1>0, <2>1, AnswerEffect, IdsWithout DEF Over, Placed
  <1>15. ASSUME Disconnect(r) PROVE IdInv'
    <2>1. Answer(r, "gone") /\ UNCHANGED <<lib, counter>>
      BY <1>15 DEF Disconnect
    <2> QED
      BY <1>0, <2>1, AnswerEffect, IdsWithout DEF Over, Placed
  <1> QED
    BY <1>1, <1>2, <1>3, <1>4, <1>5, <1>6, <1>7, <1>8, <1>9, <1>10, <1>12, <1>13, <1>14, <1>15,
       <1>16
    DEF Handler

(* A step that changes a stored document is the commit of a request that      *)
(* asked to replace it.                                                       *)
Overwrites == \E i \in Ids : lib[i] # Free /\ lib'[i] # lib[i]
              /\ ~\E r \in Requests : req[r].id = i /\ req[r].replace /\ req'[r].answer = "stored"

LEMMA NoOverwrite ==
  ASSUME AdmissionAssumption, IdsAssumption, IdInv, [Next]_vars
  PROVE  ~Overwrites
  <1> SUFFICES ASSUME NEW i \in Ids, lib[i] # Free, lib'[i] # lib[i]
               PROVE  \E r \in Requests :
                         req[r].id = i /\ req[r].replace /\ req'[r].answer = "stored"
    BY DEF Overwrites
  <1>0. TypeOK
    BY DEF IdInv
  <1>1. PICK r \in Requests : Commit(r) \/ ParseFails(r)
    BY ReserveEffect, <1>0
    DEF Next, vars, Handler, Admit, Enter, Copy, CopyFails, Copied, Count, Precheck, Reserve,
        TakeLock, LockTimeout, TakeSlot, SlotTimeout, Recheck, Disconnect
  <1>2. IdOf(r) /\ req[r].at = "commit"
    BY <1>1 DEF IdInv, Commit, ParseFails, At
  <1>3. CASE Commit(r)
    <2>1. Answer(r, "stored") /\ lib' = [lib EXCEPT ![req[r].id] = r]
      BY <1>3 DEF Commit
    <2>2. req[r].id = i
      BY <1>0, <2>1 DEF TypeOK
    <2>3. req[r].replace
      BY <1>2, <2>2 DEF IdOf
    <2>4. req'[r].answer = "stored"
      BY <1>0, <2>1, AnswerEffect
    <2> QED
      BY <2>2, <2>3, <2>4
  <1>4. CASE ParseFails(r)
    <2>1. lib' = IF req[r].replacing THEN lib ELSE [lib EXCEPT ![req[r].id] = Free]
      BY <1>4 DEF ParseFails
    <2>2. ~req[r].replacing /\ req[r].id = i
      BY <1>0, <2>1 DEF TypeOK
    <2> QED
      BY <1>2, <2>2 DEF IdOf
  <1> QED
    BY <1>1, <1>3, <1>4

(* No upload writes over, or takes away, a stored document it did not ask to  *)
(* replace: for every number of requests and ids, as long as clients do not   *)
(* ask for the numbers the counter is still to mint.                          *)
THEOREM NeverOverwrittenHolds ==
    AdmissionAssumption /\ IdsAssumption /\ NumbersAreMinted => (Spec => NeverOverwritten)
  <1> SUFFICES ASSUME AdmissionAssumption, IdsAssumption, NumbersAreMinted
               PROVE  Spec => NeverOverwritten
    OBVIOUS
  <1>1. Init => BytesInv /\ IdInv
    BY InitBytes, InitIds
  <1>2. BytesInv /\ IdInv /\ [Next]_vars => (BytesInv /\ IdInv)'
    BY BytesInvStep, IdInvStep
  <1>3. BytesInv /\ IdInv /\ [Next]_vars => ~Overwrites
    BY NoOverwrite
  <1>4. ~Overwrites => \A i \in Ids : lib[i] # Free /\ lib'[i] # lib[i] =>
           \E r \in Requests : req[r].id = i /\ req[r].replace /\ req'[r].answer = "stored"
    BY DEF Overwrites
  <1> QED
    BY <1>1, <1>2, <1>3, <1>4, PTL DEF Spec, NeverOverwritten
=============================================================================
