------------------------ MODULE ArrivalSeedOrder_proofs ------------------------
(***************************************************************************)
(* The arrival and the random policy, for any number of tickets, elements  *)
(* and rounds: the list, the map and the cursor of the one agree and its   *)
(* rounds follow the order of arrival; the arrays and the maps of the      *)
(* other agree; and both implement the seed stream.                        *)
(***************************************************************************)
EXTENDS ArrivalSeedOrder, SequenceTheorems, WellFoundedInduction, TLAPS

(* First returns the least number of a set, and 0 for the empty one.       *)
LEMMA FirstIsLeast ==
  ASSUME NEW S \in SUBSET (Nat \ {0})
  PROVE  /\ S = {} => First(S) = 0
         /\ S # {} => First(S) \in S /\ \A x \in S : First(S) <= x
         /\ First(S) \in Nat
<1>1. CASE S = {}
  BY <1>1 DEF First
<1>2. CASE S # {}
  <2> DEFINE R == OpToRel(<, Nat)
  <2>0. \A x, y \in Nat : <<x, y>> \in R <=> x < y
    BY DEF OpToRel
  <2>1. PICK e \in S : \A y \in S : ~ (<<y, e>> \in R)
    <3>1. S \subseteq Nat /\ IsWellFoundedOn(R, Nat)
      BY NatLessThanWellFounded
    <3> HIDE DEF R
    <3> QED
      BY <1>2, <3>1, WFMin
  <2> HIDE DEF R
  <2>2. ASSUME NEW y \in S PROVE e <= y
    <3>1. y \in Nat /\ e \in Nat /\ ~ (<<y, e>> \in R)
      BY <2>1
    <3>2. ~ (y < e)
      BY <2>0, <3>1
    <3> QED
      BY <3>1, <3>2
  <2> QED
    BY <1>2, <2>2 DEF First
<1> QED
  BY <1>1, <1>2

-------------------------------------------------------------------------------
(* The types and the links of list, map and cursor hold together.          *)
ListInv == TypeOK /\ CursorLinked

(* Each element of the list is waited at by one ticket.                    *)
LEMMA ElementsOwned ==
  ASSUME ListInv
  PROVE  /\ entries \subseteq Nat \ {0}
         /\ \A e \in entries : ticketID[e] \in TicketIDs /\ active[ticketID[e]] = e
         /\ \A id \in TicketIDs : active[id] # 0 => active[id] \in entries
         /\ \A id, other \in TicketIDs :
              active[id] # 0 /\ active[id] = active[other] => id = other
<1>1. entries \subseteq 1..Len(ticketID) /\ Len(ticketID) \in Nat
  BY DEF ListInv, TypeOK
<1>2. \A id \in TicketIDs : active[id] # 0 => active[id] \in entries
  BY DEF ListInv, CursorLinked
<1>3. \A e \in entries : ticketID[e] \in TicketIDs /\ active[ticketID[e]] = e
  <2>1. SUFFICES ASSUME NEW e \in entries PROVE ticketID[e] \in TicketIDs /\ active[ticketID[e]] = e
    OBVIOUS
  <2>2. PICK id \in TicketIDs : e = active[id] /\ e # 0
    BY DEF ListInv, CursorLinked
  <2> QED
    BY <2>2 DEF ListInv, CursorLinked
<1>4. \A id, other \in TicketIDs : active[id] # 0 /\ active[id] = active[other] => id = other
  BY DEF ListInv, CursorLinked
<1>5. entries \subseteq Nat \ {0}
  BY <1>1
<1> QED
  BY <1>2, <1>3, <1>4, <1>5

(* What the Next of an element is.                                         *)
LEMMA NextElementProperties ==
  ASSUME ListInv, NEW e \in entries
  PROVE  /\ NextElement(e) # 0 => /\ NextElement(e) \in entries
                                  /\ NextElement(e) > e
                                  /\ \A x \in entries : x > e => NextElement(e) <= x
         /\ NextElement(e) = 0 => \A x \in entries : ~ (x > e)
<1> DEFINE S == {x \in entries : x > e}
<1>1. S \in SUBSET (Nat \ {0})
  BY ElementsOwned
<1>2. /\ S = {} => First(S) = 0
      /\ S # {} => First(S) \in S /\ \A x \in S : First(S) <= x
  BY <1>1, FirstIsLeast
<1>3. NextElement(e) = First(S)
  BY DEF NextElement
<1>4. 0 \notin S
  BY <1>1
<1> HIDE DEF S
<1>5. /\ NextElement(e) # 0 => NextElement(e) \in S /\ \A x \in S : NextElement(e) <= x
      /\ NextElement(e) = 0 => S = {}
  BY <1>2, <1>3, <1>4
<1> QED
  BY <1>5 DEF S

(* Where the cursor stands after the element e was unlinked.               *)
LEMMA CursorWithoutProperties ==
  ASSUME ListInv, NEW e \in entries
  PROVE  /\ CursorWithout(e) \in (entries \ {e}) \cup {0}
         /\ CursorWithout(e) # 0 =>
              /\ roundCursor # 0
              /\ roundCursor <= CursorWithout(e)
              /\ \A x \in entries \ {e} : x >= roundCursor <=> x >= CursorWithout(e)
         /\ CursorWithout(e) = 0 /\ roundCursor # 0 =>
              \A x \in entries \ {e} : x < roundCursor
<1>0. entries \subseteq Nat \ {0} /\ roundCursor \in Nat
  BY ElementsOwned DEF ListInv, TypeOK
<1>1. CASE roundCursor = e
  <2>1. CursorWithout(e) = NextElement(e)
    BY <1>1 DEF CursorWithout
  <2>2. /\ NextElement(e) # 0 => /\ NextElement(e) \in entries
                                 /\ NextElement(e) > e
                                 /\ \A x \in entries : x > e => NextElement(e) <= x
        /\ NextElement(e) = 0 => \A x \in entries : ~ (x > e)
    BY NextElementProperties
  <2>3. CASE NextElement(e) = 0
    BY <1>0, <1>1, <2>1, <2>2, <2>3
  <2>4. CASE NextElement(e) # 0
    <3> DEFINE next == NextElement(e)
    <3>1. next \in Nat /\ e \in Nat /\ next > e /\ next \in entries
      BY <1>0, <2>2, <2>4
    <3>2. ASSUME NEW x \in entries \ {e} PROVE x >= e <=> x >= next
      BY <1>0, <2>2, <2>4, <3>1
    <3>3. next # 0 /\ next # e /\ roundCursor # 0 /\ roundCursor <= next
      <4> HIDE DEF next
      <4>1. next # 0 /\ next # e /\ e # 0 /\ e <= next
        BY <1>0, <3>1
      <4> QED
        BY <1>1, <4>1
    <3> HIDE DEF next
    <3>4. CursorWithout(e) = next
      BY <2>1 DEF next
    <3> QED
      BY <1>1, <3>1, <3>2, <3>3, <3>4
  <2> QED
    BY <2>3, <2>4
<1>2. CASE roundCursor # e
  <2>1. CursorWithout(e) = roundCursor
    BY <1>2 DEF CursorWithout
  <2>2. roundCursor # 0 => roundCursor \in entries
    BY DEF ListInv, CursorLinked
  <2> QED
    BY <1>0, <1>2, <2>1, <2>2
<1> QED
  BY <1>1, <1>2

(* Next yields the element under the cursor: none of those behind it that  *)
(* are in the list has lost its ticket.                                    *)
LEMMA SeedIsCursor ==
  ASSUME ListInv, HasNext
  PROVE  First({e \in Ahead : active[ticketID[e]] = e}) = roundCursor /\ roundCursor \in entries
<1> DEFINE S == {e \in Ahead : active[ticketID[e]] = e}
<1>1. roundCursor \in entries
  BY DEF ListInv, CursorLinked, HasNext
<1>2. S \in SUBSET (Nat \ {0}) /\ roundCursor \in S /\ \A e \in S : roundCursor <= e
  BY <1>1, ElementsOwned DEF Ahead
<1>3. First(S) \in S /\ \A e \in S : First(S) <= e
  BY <1>2, FirstIsLeast
<1>4. First(S) = roundCursor
  BY <1>2, <1>3
<1> QED
  BY <1>1, <1>4

(* A step of Next, with the seed that it yields.                           *)
LEMMA NextYieldsCursor ==
  ASSUME ListInv, Next
  PROVE  /\ HasNext /\ roundCursor \in entries
         /\ roundCursor' = NextElement(roundCursor)
         /\ roundYielded' = roundYielded + 1
         /\ roundOrder' = Append(roundOrder, roundCursor)
         /\ UNCHANGED <<listVars, roundLimit, roundActive, captured>>
<1>0. HasNext
  BY DEF Next
<1>1. /\ First({e \in Ahead : active[ticketID[e]] = e}) = roundCursor
      /\ roundCursor \in entries /\ roundCursor # 0
  BY <1>0, SeedIsCursor DEF HasNext
<1> QED
  BY <1>0, <1>1 DEF Next, CursorAfter

LEMMA ListInit == Init => ListInv
<1> SUFFICES ASSUME Init PROVE ListInv
  OBVIOUS
<1>1. ticketID = <<>> /\ roundOrder = <<>> /\ Len(<<>>) = 0
  BY DEF Init
<1>2. <<>> \in Seq(TicketIDs) /\ <<>> \in Seq(1..0)
  OBVIOUS
<1>3. 0 <= MaxElements /\ 0 \in 0..0
  BY ArrivalAssumption
<1> QED
  BY <1>1, <1>2, <1>3 DEF Init, ListInv, TypeOK, CursorLinked

LEMMA ListStep == ListInv /\ [Step]_vars => ListInv'
<1> SUFFICES ASSUME ListInv, [Step]_vars PROVE ListInv'
  OBVIOUS
<1> USE DEF ListInv
<1>1. ASSUME NEW id \in TicketIDs, Add(id) PROVE ListInv'
  <2> DEFINE element == Len(ticketID) + 1
  <2>1. /\ Len(ticketID) \in Nat /\ ticketID' = Append(ticketID, id)
        /\ ticketID' \in Seq(TicketIDs) /\ Len(ticketID') = element /\ element <= MaxElements
        /\ ticketID'[element] = id
        /\ \A i \in 1..Len(ticketID) : ticketID'[i] = ticketID[i]
    BY <1>1, AppendProperties, ArrivalAssumption DEF Add, TypeOK
  <2>2. active' = [active EXCEPT ![id] = element]
        /\ entries' = (entries \ {active[id]}) \cup {element}
        /\ UNCHANGED roundVars
    BY <1>1 DEF Add
  <2>3. roundCursor' \in (entries \ {active[id]}) \cup {0}
    <3>1. CASE active[id] = 0
      BY <1>1, <3>1, ElementsOwned DEF Add, CursorLinked
    <3>2. CASE active[id] # 0
      BY <1>1, <3>2, ElementsOwned, CursorWithoutProperties DEF Add
    <3> QED
      BY <3>1, <3>2
  <2>4. roundOrder' \in Seq(1..Len(ticketID)')
    <3>1. 1..Len(ticketID) \subseteq 1..Len(ticketID')
      BY <2>1
    <3> QED
      BY <2>1, <2>2, <3>1, SeqMonotonic DEF TypeOK, roundVars
  <2>5. TypeOK'
    <3>1. 0..Len(ticketID) \subseteq 0..element /\ 1..Len(ticketID) \subseteq 1..element
          /\ element \in 1..element
      BY <2>1
    <3>2. roundCursor' \in 0..element /\ entries' \subseteq 1..element
      <4>1. entries \subseteq 1..element /\ 0 \in 0..element /\ 1..element \subseteq 0..element
        BY <2>1, <3>1 DEF TypeOK
      <4> HIDE DEF element
      <4> QED
        BY <2>2, <2>3, <3>1, <4>1
    <3>3. active' \in [TicketIDs -> 0..element]
      BY <2>2, <3>1 DEF TypeOK
    <3>4. captured' \in 0..element
      BY <2>2, <3>1 DEF TypeOK, roundVars
    <3> HIDE DEF element
    <3> QED
      BY <2>1, <2>2, <2>4, <3>2, <3>3, <3>4 DEF TypeOK, roundVars
  <2>6. entries' = {active'[x] : x \in TicketIDs} \ {0}
    <3>1. \A x \in TicketIDs : active'[x] = IF x = id THEN element ELSE active[x]
      BY <2>2 DEF TypeOK
    <3>2. element \notin entries /\ element # 0
      BY <2>1 DEF TypeOK
    <3> QED
      BY <2>2, <3>1, <3>2, ElementsOwned DEF CursorLinked
  <2>7. \A x \in TicketIDs : active'[x] # 0 => ticketID'[active'[x]] = x
    BY <2>1, <2>2 DEF TypeOK, CursorLinked
  <2>8. roundCursor' # 0 => roundCursor' \in entries'
    BY <2>2, <2>3
  <2> QED
    BY <2>5, <2>6, <2>7, <2>8 DEF CursorLinked
<1>2. ASSUME NEW id \in TicketIDs, Remove(id) PROVE ListInv'
  <2>1. /\ active[id] # 0 /\ active[id] \in entries
        /\ active' = [active EXCEPT ![id] = 0]
        /\ entries' = entries \ {active[id]}
        /\ UNCHANGED <<ticketID, roundVars>>
    BY <1>2, ElementsOwned DEF Remove
  <2>2. roundCursor' \in (entries \ {active[id]}) \cup {0}
    BY <1>2, <2>1, CursorWithoutProperties DEF Remove
  <2>3. TypeOK'
    <3>0. /\ 0 \in 0..Len(ticketID)
          /\ entries \subseteq 1..Len(ticketID)
          /\ entries \subseteq 0..Len(ticketID)
      BY DEF TypeOK
    <3>1. roundCursor' \in 0..Len(ticketID) /\ entries' \subseteq 1..Len(ticketID)
      BY <2>1, <2>2, <3>0, Zenon
    <3>2. active' \in [TicketIDs -> 0..Len(ticketID)]
      BY <2>1 DEF TypeOK
    <3> QED
      BY <2>1, <3>1, <3>2 DEF TypeOK, roundVars
  <2>4. entries' = {active'[x] : x \in TicketIDs} \ {0}
    <3>1. \A x \in TicketIDs : active'[x] = IF x = id THEN 0 ELSE active[x]
      BY <2>1 DEF TypeOK
    <3> QED
      BY <2>1, <3>1, ElementsOwned DEF CursorLinked
  <2>5. \A x \in TicketIDs : active'[x] # 0 => ticketID'[active'[x]] = x
    BY <2>1 DEF TypeOK, CursorLinked
  <2> QED
    BY <2>1, <2>2, <2>3, <2>4, <2>5 DEF CursorLinked
<1>3. ASSUME NEW limit \in Limits, BeginRound(limit) PROVE ListInv'
  <2>1. entries \in SUBSET (Nat \ {0})
    BY ElementsOwned
  <2>2. roundCursor' = First(entries) /\ UNCHANGED listVars
    BY <1>3 DEF BeginRound
  <2>3. roundCursor' \in entries \cup {0}
    BY <2>1, <2>2, FirstIsLeast
  <2>4. roundLimit' \in Nat /\ roundYielded' = 0 /\ roundActive' = TRUE
        /\ roundOrder' = <<>> /\ captured' = Len(ticketID)
    BY <1>3, ArrivalAssumption DEF BeginRound
  <2>5. Len(ticketID) \in Nat /\ <<>> \in Seq(1..Len(ticketID))
    BY DEF TypeOK
  <2>6. 0 \in 0..Len(ticketID) /\ Len(ticketID) \in 0..Len(ticketID) /\ 0 \in 0..roundLimit'
    BY <2>4, <2>5
  <2>7. TypeOK'
    BY <2>2, <2>3, <2>4, <2>5, <2>6 DEF TypeOK, listVars
  <2> QED
    BY <2>2, <2>3, <2>7 DEF CursorLinked, listVars
<1>4. CASE Next
  <2>1. /\ HasNext /\ roundCursor \in entries
        /\ roundCursor' = NextElement(roundCursor)
        /\ roundYielded' = roundYielded + 1
        /\ roundOrder' = Append(roundOrder, roundCursor)
        /\ UNCHANGED <<listVars, roundLimit, roundActive, captured>>
    BY <1>4, NextYieldsCursor
  <2>2. roundCursor' \in entries \cup {0}
    BY <2>1, NextElementProperties
  <2>3. roundCursor' \in 0..Len(ticketID)
    BY <2>2 DEF TypeOK
  <2>4. roundYielded' \in 0..roundLimit
    BY <2>1 DEF HasNext, TypeOK
  <2>5. roundOrder' \in Seq(1..Len(ticketID))
    BY <2>1, AppendProperties DEF TypeOK
  <2> QED
    BY <2>1, <2>2, <2>3, <2>4, <2>5 DEF TypeOK, CursorLinked, listVars
<1>5. CASE UNCHANGED vars
  BY <1>5 DEF vars, listVars, roundVars, TypeOK, CursorLinked
<1> QED
  BY <1>1, <1>2, <1>3, <1>4, <1>5 DEF Step

(* The state of the policy stays well typed.                               *)
THEOREM TypeCorrect == Spec => []TypeOK
<1>1. ListInv => TypeOK
  BY DEF ListInv
<1> QED
  BY <1>1, ListInit, ListStep, PTL DEF Spec

(* List and map describe the same tickets, and the cursor is never left on *)
(* an element that a removal or a replacement has unlinked.                *)
THEOREM LinksExact == Spec => []CursorLinked
<1>1. ListInv => CursorLinked
  BY DEF ListInv
<1> QED
  BY <1>1, ListInit, ListStep, PTL DEF Spec

-------------------------------------------------------------------------------
(* How far the round has come: what lies before the cursor was yielded,    *)
(* and what was yielded lies before the cursor.                            *)
Yielded == {roundOrder[i] : i \in DOMAIN roundOrder}

ProgressInv ==
  /\ ~ roundActive => roundCursor = 0 /\ roundOrder = <<>>
  /\ roundCursor # 0 => /\ \A e \in entries : e < roundCursor => e \in Yielded
                        /\ \A y \in Yielded : y < roundCursor

RoundInv == ListInv /\ ProgressInv /\ RoundFollowsArrival

LEMMA YieldedTyped ==
  ASSUME ListInv
  PROVE  /\ Yielded \subseteq 1..Len(ticketID) /\ DOMAIN roundOrder = 1..Len(roundOrder)
         /\ Len(ticketID) \in Nat /\ Len(roundOrder) \in Nat
  BY ElementOfSeq, LenProperties DEF Yielded, ListInv, TypeOK

(* Whether an element is unlinked or not (e = 0), the elements that stay   *)
(* are before or behind the cursor as they were.                           *)
LEMMA CursorKeepsPlace ==
  ASSUME ListInv, NEW e \in entries \cup {0},
         roundCursor' = IF e = 0 THEN roundCursor ELSE CursorWithout(e)
  PROVE  /\ roundCursor' # 0 =>
              /\ roundCursor # 0 /\ roundCursor' \in Nat
              /\ roundCursor <= roundCursor' /\ roundCursor' <= Len(ticketID)
              /\ \A x \in entries \ {e} : x >= roundCursor <=> x >= roundCursor'
         /\ roundCursor' = 0 /\ roundCursor # 0 => \A x \in entries \ {e} : x < roundCursor
<1>0. /\ \A x \in entries : x <= Len(ticketID) /\ x \in Nat \ {0}
      /\ roundCursor \in Nat /\ Len(ticketID) \in Nat
  BY DEF ListInv, TypeOK
<1>1. CASE e = 0
  <2>1. roundCursor' = roundCursor /\ (roundCursor # 0 => roundCursor \in entries)
    BY <1>1 DEF ListInv, CursorLinked
  <2> QED
    BY <1>0, <2>1
<1>2. CASE e # 0
  <2>1. e \in entries /\ roundCursor' = CursorWithout(e)
    BY <1>2
  <2>2. /\ roundCursor' \in (entries \ {e}) \cup {0}
        /\ roundCursor' # 0 =>
             /\ roundCursor # 0 /\ roundCursor <= roundCursor'
             /\ \A x \in entries \ {e} : x >= roundCursor <=> x >= roundCursor'
        /\ roundCursor' = 0 /\ roundCursor # 0 => \A x \in entries \ {e} : x < roundCursor
    BY <2>1, CursorWithoutProperties
  <2> QED
    BY <1>0, <2>2
<1> QED
  BY <1>1, <1>2

(* A change of the list in mid-round leaves what was yielded, may unlink   *)
(* one element and may push a new one to the back.                         *)
LEMMA ListChangeKeepsOrder ==
  ASSUME RoundInv, NEW e \in entries \cup {0}, NEW pushed \in SUBSET {Len(ticketID) + 1},
         entries' = (entries \ {e}) \cup pushed,
         roundCursor' = IF e = 0 THEN roundCursor ELSE CursorWithout(e),
         UNCHANGED roundVars
  PROVE  ProgressInv' /\ RoundFollowsArrival'
<1>0. /\ Yielded' = Yielded /\ Yielded \subseteq Nat /\ Len(ticketID) \in Nat
      /\ \A y \in Yielded : y <= Len(ticketID)
      /\ \A x \in entries : x <= Len(ticketID) /\ x \in Nat \ {0}
      /\ captured \in 0..Len(ticketID) /\ roundCursor \in Nat
      /\ UNCHANGED <<roundActive, roundOrder, captured>>
  <2>1. ListInv /\ Yielded \subseteq Nat /\ \A y \in Yielded : y <= Len(ticketID)
    BY YieldedTyped DEF RoundInv
  <2>2. /\ Len(ticketID) \in Nat /\ captured \in 0..Len(ticketID) /\ roundCursor \in Nat
        /\ \A x \in entries : x <= Len(ticketID) /\ x \in Nat \ {0}
    BY <2>1, ElementsOwned DEF ListInv, TypeOK
  <2>3. UNCHANGED <<roundActive, roundOrder, captured>> /\ Yielded' = Yielded
    BY DEF roundVars, Yielded
  <2> QED
    BY <2>1, <2>2, <2>3
<1>r. /\ ~ roundActive => roundCursor = 0 /\ roundOrder = <<>>
      /\ roundCursor # 0 => /\ \A x \in entries : x < roundCursor => x \in Yielded
                            /\ \A y \in Yielded : y < roundCursor
      /\ \A x \in entries : (\E y \in Yielded : x < y) => x \in Yielded
      /\ roundActive /\ roundCursor = 0 => \A x \in entries : x <= captured => x \in Yielded
  BY DEF RoundInv, ProgressInv, RoundFollowsArrival, Yielded
<1>p. \A x \in entries' \ entries : /\ x \in Nat /\ x > Len(ticketID) /\ x > captured
                                    /\ \A y \in Yielded : y < x
  <2>1. ASSUME NEW x \in entries' \ entries
        PROVE  x \in Nat /\ x > Len(ticketID) /\ x > captured
    <3>1. x = Len(ticketID) + 1
      BY Zenon
    <3> QED
      BY <1>0, <3>1
  <2>2. ASSUME NEW x \in entries' \ entries, NEW y \in Yielded PROVE y < x
    <3>1. y \in Nat /\ y <= Len(ticketID)
      BY <1>0
    <3>2. x \in Nat /\ x > Len(ticketID)
      BY <2>1
    <3> QED
      BY <1>0, <3>1, <3>2
  <2> QED
    BY <2>1, <2>2
<1>e. entries' \cap entries = entries \ {e}
  BY <1>0
<1>c. /\ roundCursor' # 0 =>
           /\ roundCursor # 0 /\ roundCursor' \in Nat
           /\ roundCursor <= roundCursor' /\ roundCursor' <= Len(ticketID)
           /\ \A x \in entries \ {e} : x >= roundCursor <=> x >= roundCursor'
      /\ roundCursor' = 0 /\ roundCursor # 0 => \A x \in entries \ {e} : x < roundCursor
  BY CursorKeepsPlace DEF RoundInv
<1>1. ~ roundActive' => roundCursor' = 0 /\ roundOrder' = <<>>
  BY <1>0, <1>r, <1>c
<1>2. ASSUME roundCursor' # 0, NEW x \in entries', x < roundCursor' PROVE x \in Yielded
  <2>1. x \in entries
    BY <1>0, <1>2, <1>p, <1>c
  <2>2. x \in entries \ {e} /\ ~ (x >= roundCursor')
    BY <1>0, <1>2, <1>e, <1>c, <2>1
  <2>3. roundCursor # 0 /\ ~ (x >= roundCursor)
    BY <1>2, <1>c, <2>2
  <2> QED
    BY <1>0, <1>r, <2>1, <2>3
<1>3. ASSUME roundCursor' # 0, NEW y \in Yielded PROVE y < roundCursor'
  BY <1>0, <1>3, <1>r, <1>c
<1>4. ASSUME NEW x \in entries', NEW y \in Yielded, x < y PROVE x \in Yielded
  <2>1. x \in entries
    BY <1>0, <1>4, <1>p
  <2> QED
    BY <1>4, <1>r, <2>1
<1>5. ASSUME roundActive, roundCursor' = 0, NEW x \in entries', x <= captured PROVE x \in Yielded
  <2>1. x \in entries \ {e}
    BY <1>0, <1>5, <1>p, <1>e
  <2>2. CASE roundCursor = 0
    BY <1>5, <1>r, <2>1, <2>2
  <2>3. CASE roundCursor # 0
    BY <1>5, <1>r, <1>c, <2>1, <2>3
  <2> QED
    BY <2>2, <2>3
<1>6. \A i, j \in DOMAIN roundOrder' : i < j => roundOrder'[i] < roundOrder'[j]
  BY <1>0 DEF RoundInv, RoundFollowsArrival
<1> QED
  BY <1>0, <1>1, <1>2, <1>3, <1>4, <1>5, <1>6 DEF ProgressInv, RoundFollowsArrival, Yielded

LEMMA RoundStep == RoundInv /\ [Step]_vars => RoundInv'
<1> SUFFICES ASSUME RoundInv, [Step]_vars PROVE ProgressInv' /\ RoundFollowsArrival'
  BY ListStep DEF RoundInv
<1>l. ListInv
  BY DEF RoundInv
<1>1. ASSUME NEW id \in TicketIDs, Add(id) PROVE ProgressInv' /\ RoundFollowsArrival'
  <2> DEFINE e == active[id]
  <2>1. e \in entries \cup {0}
    BY <1>l, ElementsOwned
  <2>2. /\ entries' = (entries \ {e}) \cup {Len(ticketID) + 1}
        /\ roundCursor' = IF e = 0 THEN roundCursor ELSE CursorWithout(e)
        /\ UNCHANGED roundVars
    BY <1>1 DEF Add
  <2> QED
    BY <2>1, <2>2, ListChangeKeepsOrder
<1>2. ASSUME NEW id \in TicketIDs, Remove(id) PROVE ProgressInv' /\ RoundFollowsArrival'
  <2> DEFINE e == active[id]
  <2>1. e \in entries \cup {0} /\ e # 0
    BY <1>l, <1>2, ElementsOwned DEF Remove
  <2>2. /\ entries' = (entries \ {e}) \cup {}
        /\ roundCursor' = IF e = 0 THEN roundCursor ELSE CursorWithout(e)
        /\ UNCHANGED roundVars
    BY <1>2, <2>1 DEF Remove
  <2> QED
    BY <2>1, <2>2, ListChangeKeepsOrder
<1>3. ASSUME NEW limit \in Limits, BeginRound(limit) PROVE ProgressInv' /\ RoundFollowsArrival'
  <2>1. /\ roundCursor' = First(entries) /\ roundOrder' = <<>> /\ roundActive' = TRUE
        /\ entries' = entries
    BY <1>3 DEF BeginRound, listVars
  <2>2. entries \in SUBSET (Nat \ {0})
    BY <1>l, ElementsOwned
  <2>3. /\ entries = {} => First(entries) = 0
        /\ entries # {} => First(entries) \in entries /\ \A x \in entries : First(entries) <= x
    BY <2>2, FirstIsLeast
  <2>4. Yielded' = {} /\ DOMAIN roundOrder' = {}
    BY <2>1 DEF Yielded
  <2>5. ASSUME NEW x \in entries PROVE ~ (x < First(entries))
    <3>1. First(entries) <= x /\ First(entries) \in Nat /\ x \in Nat
      BY <2>2, <2>3
    <3> QED
      BY <3>1
  <2>6. roundCursor' = 0 => entries' = {}
    BY <2>1, <2>2, <2>3
  <2> QED
    BY <2>1, <2>4, <2>5, <2>6 DEF ProgressInv, RoundFollowsArrival, Yielded
<1>4. CASE Next
  <2> DEFINE seed == roundCursor
             n == Len(roundOrder) + 1
  <2>1. /\ seed \in entries /\ seed # 0 /\ roundActive
        /\ roundCursor' = NextElement(seed)
        /\ roundOrder' = Append(roundOrder, seed)
        /\ UNCHANGED <<entries, roundActive, captured>>
    BY <1>l, <1>4, NextYieldsCursor DEF listVars, HasNext
  <2>2. /\ roundOrder \in Seq(Nat) /\ seed \in Nat /\ n \in Nat
        /\ entries \subseteq Nat /\ Yielded \subseteq Nat
    <3>1. 1..Len(ticketID) \subseteq Nat
      BY YieldedTyped, <1>l
    <3> QED
      BY <1>l, <2>1, <3>1, YieldedTyped, ElementsOwned, SeqMonotonic DEF ListInv, TypeOK
  <2>3. /\ DOMAIN roundOrder' = 1..n /\ roundOrder'[n] = seed
        /\ \A i \in 1..Len(roundOrder) : roundOrder'[i] = roundOrder[i]
        /\ DOMAIN roundOrder = 1..Len(roundOrder)
    BY <2>1, <2>2, AppendProperties, LenProperties
  <2>4. Yielded' = Yielded \cup {seed}
    <3>1. 1..n = (1..Len(roundOrder)) \cup {n}
      BY <2>2
    <3> QED
      BY <2>3, <3>1 DEF Yielded
  <2>5. /\ \A x \in entries : x < seed => x \in Yielded
        /\ \A y \in Yielded : y < seed
    BY <2>1 DEF RoundInv, ProgressInv
  <2>6. /\ roundCursor' # 0 => /\ roundCursor' > seed /\ roundCursor' \in Nat
                               /\ \A x \in entries : x > seed => roundCursor' <= x
        /\ roundCursor' = 0 => \A x \in entries : ~ (x > seed)
    BY <1>l, <2>1, <2>2, NextElementProperties
  <2>7. ASSUME NEW x \in entries, roundCursor' # 0 => x < roundCursor' PROVE x \in Yielded'
    <3>1. ~ (x > seed)
      BY <2>2, <2>6, <2>7
    <3>2. x < seed \/ x = seed
      BY <2>2, <3>1
    <3> QED
      BY <2>4, <2>5, <3>2
  <2>8. ASSUME roundCursor' # 0, NEW y \in Yielded' PROVE y < roundCursor'
    BY <2>2, <2>4, <2>5, <2>6, <2>8
  <2>9. ASSUME NEW x \in entries, NEW y \in Yielded', x < y PROVE x \in Yielded'
    <3>1. x < seed
      BY <2>2, <2>4, <2>5, <2>9
    <3> QED
      BY <2>4, <2>5, <3>1
  <2>10. \A i, j \in DOMAIN roundOrder' : i < j => roundOrder'[i] < roundOrder'[j]
    <3>1. SUFFICES ASSUME NEW i \in 1..n, NEW j \in 1..n, i < j
                   PROVE  roundOrder'[i] < roundOrder'[j]
      BY <2>3
    <3>2. i \in 1..Len(roundOrder)
      BY <2>2, <3>1
    <3>3. CASE j = n
      <4>1. roundOrder[i] \in Yielded
        BY <2>3, <3>2 DEF Yielded
      <4> QED
        BY <2>3, <2>5, <3>2, <3>3, <4>1
    <3>4. CASE j # n
      <4>1. j \in 1..Len(roundOrder)
        BY <2>2, <3>4
      <4> QED
        BY <2>3, <3>1, <3>2, <4>1 DEF RoundInv, RoundFollowsArrival
    <3> QED
      BY <3>3, <3>4
  <2> QED
    BY <2>1, <2>7, <2>8, <2>9, <2>10 DEF ProgressInv, RoundFollowsArrival, Yielded
<1>5. CASE UNCHANGED vars
  BY <1>5 DEF vars, listVars, roundVars, RoundInv, ProgressInv, RoundFollowsArrival, Yielded
<1> QED
  BY <1>1, <1>2, <1>3, <1>4, <1>5 DEF Step

LEMMA RoundInit == Init => RoundInv
  BY ListInit DEF Init, RoundInv, ProgressInv, RoundFollowsArrival, Yielded

(* A round yields in the order of arrival, overtakes no waiting ticket and *)
(* ends only after every captured ticket that still waits.                 *)
THEOREM ArrivalOrder == Spec => []RoundFollowsArrival
<1>1. RoundInv => RoundFollowsArrival
  BY DEF RoundInv
<1> QED
  BY <1>1, RoundInit, RoundStep, PTL DEF Spec

-------------------------------------------------------------------------------
(* The tickets that the stream may still yield wait.                       *)
ReadyMeant ==
  /\ Ready = {id \in Waiting : roundActive /\ roundCursor # 0 /\ active[id] >= roundCursor}
  /\ \A id \in TicketIDs : active[id] \in Nat
  /\ roundCursor \in Nat

LEMMA ReadyMeaning == ListInv => ReadyMeant
<1> SUFFICES ASSUME ListInv PROVE ReadyMeant
  OBVIOUS
<1>1. roundCursor \in Nat /\ \A id \in TicketIDs : active[id] \in Nat
  BY DEF ListInv, TypeOK
<1>2. \A id \in TicketIDs : roundCursor # 0 /\ active[id] >= roundCursor => active[id] # 0
  BY <1>1
<1>3. Ready = {id \in TicketIDs : roundActive /\ roundCursor # 0 /\ active[id] >= roundCursor}
  BY DEF Ready
<1>4. Ready = {id \in Waiting : roundActive /\ roundCursor # 0 /\ active[id] >= roundCursor}
  BY <1>2, <1>3 DEF Waiting
<1> QED
  BY <1>1, <1>4 DEF ReadyMeant

LEMMA ReadyMeaningAfter == ListInv' => ReadyMeant'
  BY ReadyMeaning, PTL

(* The ticket id was added, replaced (its element was e) or removed.       *)
LEMMA ChangeOfStream ==
  ASSUME RoundInv, RoundInv', NEW id \in TicketIDs, NEW place \in Nat,
         place = 0 \/ place = Len(ticketID) + 1,
         active' = [active EXCEPT ![id] = place],
         roundCursor' = IF active[id] = 0 THEN roundCursor ELSE CursorWithout(active[id]),
         roundActive' = roundActive
  PROVE  /\ place = 0 => Ready' = Ready \ {id} /\ Waiting' = Waiting \ {id}
         /\ place # 0 => /\ Waiting' = Waiting \cup {id}
                         /\ \/ Ready' = Ready \cup {id}
                            \/ Ready' = {} /\ Ready \subseteq {id}
<1> DEFINE e == active[id]
<1>0. /\ ListInv /\ ListInv' /\ e \in entries \cup {0} /\ Len(ticketID) \in Nat
      /\ roundCursor \in Nat /\ roundCursor' \in Nat
  <2>1. ListInv /\ ListInv'
    BY DEF RoundInv
  <2>2. roundCursor \in Nat /\ roundCursor' \in Nat
    BY <2>1, ReadyMeaning, ReadyMeaningAfter DEF ReadyMeant
  <2>3. e \in entries \cup {0}
    BY <2>1, ElementsOwned
  <2>4. Len(ticketID) \in Nat
    BY <2>1 DEF ListInv, TypeOK
  <2> QED
    BY <2>1, <2>2, <2>3, <2>4
<1>1. /\ roundCursor' # 0 =>
           /\ roundCursor # 0 /\ roundCursor' \in Nat
           /\ roundCursor <= roundCursor' /\ roundCursor' <= Len(ticketID)
           /\ \A x \in entries \ {e} : x >= roundCursor <=> x >= roundCursor'
      /\ roundCursor' = 0 /\ roundCursor # 0 => \A x \in entries \ {e} : x < roundCursor
  BY <1>0, CursorKeepsPlace
<1>2. /\ active'[id] = place
      /\ \A other \in TicketIDs \ {id} : active'[other] = active[other]
  BY DEF RoundInv, ListInv, TypeOK
<1>3. \A other \in TicketIDs \ {id} : active[other] # 0 => active[other] \in entries \ {e}
  BY <1>0, ElementsOwned
<1>4. /\ Ready = {x \in Waiting : roundActive /\ roundCursor # 0 /\ active[x] >= roundCursor}
      /\ Ready' = {x \in Waiting' : roundActive' /\ roundCursor' # 0 /\ active'[x] >= roundCursor'}
      /\ \A x \in TicketIDs : active[x] \in Nat
  BY <1>0, ReadyMeaning, ReadyMeaningAfter DEF ReadyMeant
<1>5. /\ place = 0 => Waiting' = Waiting \ {id}
      /\ place # 0 => Waiting' = Waiting \cup {id}
  BY <1>2 DEF Waiting
<1>6. ASSUME NEW x \in Waiting \ {id}, roundCursor' # 0
      PROVE  active[x] >= roundCursor <=> active[x] >= roundCursor'
  BY <1>1, <1>3, <1>6 DEF Waiting
<1>7. ASSUME NEW x \in Waiting \ {id}, roundCursor' = 0, roundCursor # 0
      PROVE  ~ (active[x] >= roundCursor)
  <2>1. active[x] \in entries \ {e} /\ active[x] \in Nat
    BY <1>3, <1>4 DEF Waiting
  <2>2. active[x] < roundCursor
    BY <1>1, <1>7, <2>1
  <2> QED
    BY <1>0, <2>1, <2>2
<1>8. CASE roundActive /\ roundCursor' # 0
  <2>1. \A x \in Waiting \ {id} : x \in Ready' <=> x \in Ready
    BY <1>1, <1>2, <1>4, <1>5, <1>6, <1>8 DEF Waiting
  <2>2. place # 0 => place >= roundCursor'
    BY <1>0, <1>1, <1>8
  <2>3. place # 0 => id \in Ready'
    BY <1>2, <1>4, <1>5, <1>8, <2>2
  <2>4. Ready \subseteq Waiting /\ Ready' \subseteq Waiting'
    BY <1>4
  <2> QED
    BY <1>5, <2>1, <2>3, <2>4
<1>9. CASE ~ (roundActive /\ roundCursor' # 0)
  <2>1. Ready' = {}
    BY <1>4, <1>9
  <2>2. Ready \subseteq {id}
    BY <1>4, <1>7, <1>9
  <2> QED
    BY <1>5, <2>1, <2>2
<1> QED
  BY <1>8, <1>9

LEMMA StepRefines == RoundInv /\ RoundInv' /\ [Step]_vars => [Stream!StreamStep]_(Stream!streamVars)
<1> SUFFICES ASSUME RoundInv, RoundInv', [Step]_vars
             PROVE  [Stream!StreamStep]_(Stream!streamVars)
  OBVIOUS
<1>l. ListInv /\ ListInv' /\ Ready \subseteq Waiting /\ Waiting \subseteq TicketIDs
  BY ReadyMeaning, ReadyMeaningAfter DEF ReadyMeant, RoundInv, Waiting
<1>1. ASSUME NEW id \in TicketIDs, Add(id) PROVE Stream!StreamAdd(id)
  <2>0. Len(ticketID) \in Nat
    BY <1>l DEF ListInv, TypeOK
  <2>1. /\ active' = [active EXCEPT ![id] = Len(ticketID) + 1]
        /\ roundCursor' = IF active[id] = 0 THEN roundCursor ELSE CursorWithout(active[id])
        /\ UNCHANGED <<roundActive, roundLimit, roundYielded>>
    BY <1>1 DEF Add, roundVars
  <2>2. /\ Waiting' = Waiting \cup {id}
        /\ \/ Ready' = Ready \cup {id}
           \/ Ready' = {} /\ Ready \subseteq {id}
    <3>1. Len(ticketID) + 1 \in Nat /\ Len(ticketID) + 1 # 0
      BY <2>0
    <3> QED
      BY <2>1, <3>1, ChangeOfStream
  <2>3. \/ /\ Ready' = Ready \cup {id}
           /\ (Waiting \ Ready)' = (Waiting \ Ready) \ {id}
        \/ /\ Ready' = Ready \ {id}
           /\ (Waiting \ Ready)' = (Waiting \ Ready) \cup {id}
    BY <2>2
  <2> QED
    BY <2>1, <2>3 DEF Stream!StreamAdd
<1>2. ASSUME NEW id \in TicketIDs, Remove(id) PROVE Stream!StreamRemove({id})
  <2>1. /\ active' = [active EXCEPT ![id] = 0]
        /\ roundCursor' = IF active[id] = 0 THEN roundCursor ELSE CursorWithout(active[id])
        /\ UNCHANGED <<roundActive, roundLimit, roundYielded>>
    BY <1>2 DEF Remove, roundVars
  <2>2. Ready' = Ready \ {id} /\ Waiting' = Waiting \ {id}
    BY <2>1, ChangeOfStream
  <2>3. (Waiting \ Ready)' = (Waiting \ Ready) \ {id}
    BY <2>2
  <2> QED
    BY <2>1, <2>2, <2>3 DEF Stream!StreamRemove
<1>3. ASSUME NEW n \in Limits, BeginRound(n) PROVE Stream!StreamBeginRound(n)
  <2>1. /\ roundCursor' = First(entries) /\ UNCHANGED active
        /\ roundActive' = TRUE /\ roundYielded' = 0
        /\ roundLimit' = IF n < 0 THEN 0 ELSE n
    BY <1>3 DEF BeginRound, listVars
  <2>2. Waiting' = Waiting
    BY <2>1 DEF Waiting
  <2>3. /\ entries = {} => First(entries) = 0
        /\ entries # {} => First(entries) \in entries /\ \A x \in entries : First(entries) <= x
        /\ entries \subseteq Nat \ {0}
    BY <1>l, FirstIsLeast, ElementsOwned
  <2>4. ASSUME NEW x \in Waiting PROVE x \in Ready'
    <3>1. active[x] \in entries
      BY <1>l, ElementsOwned DEF Waiting
    <3>2. First(entries) # 0 /\ active[x] >= First(entries)
      BY <2>3, <3>1
    <3>3. Ready' = {id \in Waiting' : roundActive' /\ roundCursor' # 0 /\ active'[id] >= roundCursor'}
      BY <1>l, ReadyMeaning, ReadyMeaningAfter DEF ReadyMeant
    <3> QED
      BY <2>1, <2>2, <3>2, <3>3
  <2>5. Ready' \subseteq Waiting'
    BY <1>l, ReadyMeaning, ReadyMeaningAfter DEF ReadyMeant
  <2>6. Ready' = Ready \cup (Waiting \ Ready) /\ (Waiting \ Ready)' = {}
    BY <1>l, <2>2, <2>4, <2>5
  <2> QED
    BY <2>1, <2>6 DEF Stream!StreamBeginRound
<1>4. ASSUME Next PROVE ticketID[roundCursor] \in TicketIDs /\ Stream!StreamNext(ticketID[roundCursor])
  <2> DEFINE id == ticketID[roundCursor]
  <2>1. /\ HasNext /\ roundCursor \in entries
        /\ roundCursor' = NextElement(roundCursor)
        /\ roundYielded' = roundYielded + 1
        /\ UNCHANGED <<active, entries, ticketID, roundLimit, roundActive>>
    BY <1>l, <1>4, NextYieldsCursor DEF listVars
  <2>2. id \in TicketIDs /\ active[id] = roundCursor
    BY <1>l, <2>1, ElementsOwned
  <2>3. /\ roundCursor' # 0 => /\ roundCursor' \in entries
                               /\ roundCursor' > roundCursor
                               /\ \A x \in entries : x > roundCursor => roundCursor' <= x
        /\ roundCursor' = 0 => \A x \in entries : ~ (x > roundCursor)
        /\ entries \subseteq Nat \ {0}
    BY <1>l, <2>1, NextElementProperties, ElementsOwned
  <2>4. /\ Ready = {x \in Waiting : roundActive /\ roundCursor # 0 /\ active[x] >= roundCursor}
        /\ Ready' = {x \in Waiting' : roundActive' /\ roundCursor' # 0 /\ active'[x] >= roundCursor'}
    BY <1>l, ReadyMeaning, ReadyMeaningAfter DEF ReadyMeant
  <2>5. Waiting' = Waiting
    BY <2>1 DEF Waiting
  <2>6. id \in Ready
    <3>1. active[id] >= roundCursor /\ roundCursor # 0 /\ id \in Waiting
      BY <2>1, <2>2, <2>3 DEF Waiting
    <3> QED
      BY <2>1, <2>4, <3>1 DEF HasNext
  <2>7. \A x \in Waiting : x \in Ready' <=> x \in Ready /\ x # id
    <3>1. SUFFICES ASSUME NEW x \in Waiting PROVE x \in Ready' <=> x \in Ready /\ x # id
      OBVIOUS
    <3>2. /\ active[x] \in entries /\ active[x] \in Nat /\ roundCursor \in Nat
          /\ roundCursor' \in Nat
      <4>1. active[x] \in entries
        BY <1>l, ElementsOwned DEF Waiting
      <4>2. roundCursor' = 0 \/ roundCursor' \in entries
        BY <2>3
      <4>3. entries \subseteq Nat /\ roundCursor \in entries /\ 0 \in Nat
        BY <2>1, <2>3
      <4> QED
        BY <4>1, <4>2, <4>3
    <3>3. x # id <=> active[x] # roundCursor
      BY <1>l, <2>2, <3>2, ElementsOwned DEF Waiting
    <3>4. roundCursor' # 0 /\ active[x] >= roundCursor' <=> active[x] >= roundCursor /\ active[x] # roundCursor
      BY <2>3, <3>2
    <3> QED
      BY <2>1, <2>4, <2>5, <3>3, <3>4 DEF HasNext
  <2>8. Ready' = Ready \ {id} /\ (Waiting \ Ready)' = (Waiting \ Ready) \cup {id}
    BY <1>l, <2>4, <2>5, <2>6, <2>7
  <2>9. Stream!HasNext
    BY <2>1, <2>6 DEF HasNext, Stream!HasNext
  <2> QED
    BY <2>1, <2>2, <2>6, <2>8, <2>9 DEF Stream!StreamNext
<1>5. CASE UNCHANGED vars
  <2>1. Ready' = Ready /\ Waiting' = Waiting
    BY <1>5 DEF vars, listVars, roundVars, Ready, Waiting
  <2> QED
    BY <1>5, <2>1 DEF vars, roundVars, Stream!streamVars
<1>6. ASSUME NEW id \in TicketIDs PROVE {id} \in SUBSET TicketIDs
  OBVIOUS
<1> QED
  BY <1>1, <1>2, <1>3, <1>4, <1>5, <1>6 DEF Step, Stream!StreamStep

(* The arrival policy is a seed stream: a round never repeats a ticket,    *)
(* never loses one that waits, and stays within its limit.                 *)
THEOREM StreamImplemented == Spec => ImplementsStream
<1>1. Init => Stream!StreamInit
  BY DEF Init, Stream!StreamInit, Ready, Waiting
<1> QED
  BY <1>1, RoundInit, RoundStep, StepRefines, PTL DEF Spec, ImplementsStream, Stream!StreamSpec

-------------------------------------------------------------------------------
(* The random policy, an instance whose round counters have the names that *)
(* the arrival policy gives its own.                                       *)
VARIABLES ticketIDs, positions, held, heldPositions

Random == INSTANCE RandomSeedOrder

(* The map where is the inverse of array, and 0 for the IDs not in it.     *)
Indexed(array, where) ==
  /\ array \in Seq(TicketIDs)
  /\ where \in [TicketIDs -> Nat]
  /\ \A i \in 1..Len(array) : where[array[i]] = i
  /\ \A id \in TicketIDs : where[id] # 0 => where[id] \in 1..Len(array) /\ array[where[id]] = id

Listed(where) == {id \in TicketIDs : where[id] # 0}

LEMMA IndexedMembers ==
  ASSUME NEW array, NEW where, Indexed(array, where)
  PROVE  {array[i] : i \in DOMAIN array} = Listed(where)
<1>1. DOMAIN array = 1..Len(array)
  BY DEF Indexed
<1>2. ASSUME NEW i \in 1..Len(array) PROVE array[i] \in Listed(where)
  BY DEF Indexed, Listed
<1>3. ASSUME NEW id \in Listed(where) PROVE \E i \in 1..Len(array) : array[i] = id
  BY DEF Indexed, Listed
<1> QED
  BY <1>1, <1>2, <1>3

(* Removing an ID by its position takes out that ID and no other.          *)
LEMMA SwapRemoved ==
  ASSUME NEW array, NEW where, Indexed(array, where), NEW id \in TicketIDs, where[id] # 0,
         NEW b, b = Random!SwapRemove(array, where[id]),
         NEW w, w = Random!PositionsWithout(array, where, id)
  PROVE  Indexed(b, w) /\ Listed(w) = Listed(where) \ {id} /\ w[id] = 0
<1>1. PICK n \in Nat, i \in Nat :
        n = Len(array) /\ i = where[id] /\ i \in 1..n /\ array[i] = id
  <2>1. Len(array) \in Nat
    BY LenProperties DEF Indexed
  <2> QED
    BY <2>1 DEF Indexed
<1>2. PICK last \in TicketIDs : last = array[n] /\ where[last] = n
  BY <1>1 DEF Indexed
<1>3. b = [j \in 1..(n - 1) |-> IF j = i THEN last ELSE array[j]]
  BY <1>1, <1>2 DEF Random!SwapRemove
<1>4. \A j \in 1..n : array[j] \in TicketIDs /\ where[array[j]] = j
  BY <1>1 DEF Indexed
<1>5. b \in Seq(TicketIDs) /\ Len(b) = n - 1
  <2>1. n - 1 \in Nat /\ \A j \in 1..(n - 1) : j \in 1..n
    BY <1>1
  <2>2. b \in [1..(n - 1) -> TicketIDs]
    BY <1>3, <1>4, <2>1
  <2> QED
    BY <2>1, <2>2, IsASeq, LenProperties
<1>6. w = [[where EXCEPT ![last] = i] EXCEPT ![id] = 0]
  BY <1>1, <1>2 DEF Random!PositionsWithout
<1>7. /\ w \in [TicketIDs -> Nat] /\ w[id] = 0
      /\ \A other \in TicketIDs \ {id} : w[other] = IF other = last THEN i ELSE where[other]
  BY <1>1, <1>6 DEF Indexed
<1>8. ASSUME NEW j \in 1..(n - 1) PROVE w[b[j]] = j
  <2>1. j \in 1..n /\ j # n
    BY <1>1
  <2>2. CASE j = i
    <3>1. b[j] = last /\ last # id
      BY <1>1, <1>2, <1>3, <2>1, <2>2
    <3> QED
      BY <1>7, <2>2, <3>1
  <2>3. CASE j # i
    <3>1. b[j] = array[j] /\ array[j] # id /\ array[j] # last /\ array[j] \in TicketIDs
      BY <1>1, <1>2, <1>3, <1>4, <2>1, <2>3
    <3> QED
      BY <1>4, <1>7, <2>1, <3>1
  <2> QED
    BY <2>2, <2>3
<1>9. ASSUME NEW other \in TicketIDs, w[other] # 0
      PROVE  w[other] \in 1..(n - 1) /\ b[w[other]] = other
  <2>1. other # id
    BY <1>7, <1>9
  <2>2. CASE other = last
    <3>1. i # n
      BY <1>1, <1>2, <2>1, <2>2
    <3>2. w[other] = i /\ i \in 1..(n - 1)
      BY <1>1, <1>7, <2>1, <2>2, <3>1
    <3> QED
      BY <1>3, <2>2, <3>2
  <2>3. CASE other # last
    <3>1. PICK j \in Nat : w[other] = j /\ where[other] = j /\ j # 0
      BY <1>7, <1>9, <2>1, <2>3
    <3>2. j \in 1..n /\ array[j] = other
      BY <1>1, <3>1 DEF Indexed
    <3>3. j # n /\ j # i
      BY <1>1, <1>2, <2>1, <2>3, <3>2
    <3>4. j \in 1..(n - 1)
      BY <1>1, <3>2, <3>3
    <3> QED
      BY <1>3, <3>1, <3>2, <3>3, <3>4
  <2> QED
    BY <2>2, <2>3
<1>10. Indexed(b, w)
  BY <1>5, <1>7, <1>8, <1>9 DEF Indexed
<1>11. \A other \in TicketIDs \ {id} : w[other] # 0 <=> where[other] # 0
  <2> TAKE other \in TicketIDs \ {id}
  <2>1. CASE other = last
    <3>1. w[other] = i /\ where[other] = n /\ i # 0 /\ n # 0
      BY <1>1, <1>2, <1>7, <2>1
    <3> QED
      BY <3>1
  <2>2. CASE other # last
    BY <1>7, <2>2
  <2> QED
    BY <2>1, <2>2
<1>12. Listed(w) = Listed(where) \ {id}
  BY <1>7, <1>11 DEF Listed
<1> QED
  BY <1>7, <1>10, <1>12

Placed(array, where, id, b, w) ==
  b = Append(array, id) /\ w = [where EXCEPT ![id] = Len(array) + 1]

LEMMA AppendedID ==
  ASSUME NEW array, NEW where, Indexed(array, where), NEW id \in TicketIDs, where[id] = 0,
         NEW b, NEW w, Placed(array, where, id, b, w)
  PROVE  Indexed(b, w) /\ Listed(w) = Listed(where) \cup {id}
<1>1. PICK n \in Nat : n = Len(array)
  BY LenProperties DEF Indexed
<1>2. /\ b \in Seq(TicketIDs) /\ Len(b) = n + 1 /\ b[n + 1] = id
      /\ \A i \in 1..n : b[i] = array[i]
  BY <1>1, AppendProperties DEF Indexed, Placed
<1>3. /\ w \in [TicketIDs -> Nat] /\ w[id] = n + 1
      /\ \A other \in TicketIDs \ {id} : w[other] = where[other]
  BY <1>1 DEF Indexed, Placed
<1>4. ASSUME NEW i \in 1..(n + 1) PROVE w[b[i]] = i
  <2>1. CASE i = n + 1
    BY <1>2, <1>3, <2>1
  <2>2. CASE i # n + 1
    <3>1. i \in 1..n /\ b[i] = array[i]
      BY <1>2, <2>2
    <3>2. where[array[i]] = i /\ array[i] \in TicketIDs
      BY <1>1, <3>1 DEF Indexed
    <3>3. array[i] # id
      BY <3>1, <3>2
    <3> QED
      BY <1>3, <3>1, <3>2, <3>3
  <2> QED
    BY <2>1, <2>2
<1>5. ASSUME NEW other \in TicketIDs, w[other] # 0
      PROVE  w[other] \in 1..(n + 1) /\ b[w[other]] = other
  <2>1. CASE other = id
    BY <1>2, <1>3, <2>1
  <2>2. CASE other # id
    <3>1. w[other] = where[other] /\ where[other] \in 1..n /\ array[where[other]] = other
      BY <1>1, <1>3, <1>5, <2>2 DEF Indexed
    <3> QED
      BY <1>2, <3>1
  <2> QED
    BY <2>1, <2>2
<1>6. Indexed(b, w)
  BY <1>2, <1>3, <1>4, <1>5 DEF Indexed
<1>7. Listed(w) = Listed(where) \cup {id}
  BY <1>1, <1>3 DEF Listed
<1> QED
  BY <1>6, <1>7

(* BeginRound appends the held IDs behind the waiting ones.                *)
Restored(array, where, back, b, w) ==
  /\ b = array \o back
  /\ w = [id \in TicketIDs |->
            IF \E i \in DOMAIN back : back[i] = id
            THEN Len(array) + (CHOOSE i \in DOMAIN back : back[i] = id)
            ELSE where[id]]

LEMMA RestoredIDs ==
  ASSUME NEW a, NEW w, Indexed(a, w), NEW h, NEW v, Indexed(h, v),
         Listed(w) \cap Listed(v) = {},
         NEW b, NEW x, Restored(a, w, h, b, x)
  PROVE  Indexed(b, x) /\ Listed(x) = Listed(w) \cup Listed(v)
<1>1. PICK m \in Nat, n \in Nat : m = Len(a) /\ n = Len(h)
  BY LenProperties DEF Indexed
<1>2. /\ b \in Seq(TicketIDs) /\ Len(b) = m + n
      /\ \A i \in 1..m : b[i] = a[i]
      /\ \A i \in 1..n : b[m + i] = h[i]
  <2>1. a \in Seq(TicketIDs) /\ h \in Seq(TicketIDs)
    BY DEF Indexed
  <2>2. b \in Seq(TicketIDs) /\ Len(b) = m + n
    BY <1>1, <2>1, ConcatProperties DEF Restored
  <2>3. \A i \in 1..(m + n) : b[i] = IF i <= m THEN a[i] ELSE h[i - m]
    BY <1>1, <2>1, ConcatProperties DEF Restored
  <2>4. ASSUME NEW i \in 1..n PROVE b[m + i] = h[i]
    <3>1. m + i \in 1..(m + n) /\ ~ (m + i <= m) /\ (m + i) - m = i
      BY <1>1
    <3> QED
      BY <2>3, <3>1
  <2>5. ASSUME NEW i \in 1..m PROVE b[i] = a[i]
    BY <1>1, <2>3
  <2> QED
    BY <2>2, <2>4, <2>5
<1>3. DOMAIN h = 1..n
  BY <1>1 DEF Indexed
<1>4. /\ \A i \in 1..n : h[i] \in TicketIDs /\ v[h[i]] = i
      /\ \A id \in TicketIDs : v[id] # 0 => v[id] \in 1..n /\ h[v[id]] = id
      /\ \A i \in 1..m : a[i] \in TicketIDs /\ w[a[i]] = i
      /\ \A id \in TicketIDs : w[id] # 0 => w[id] \in 1..m /\ a[w[id]] = id
      /\ w \in [TicketIDs -> Nat] /\ v \in [TicketIDs -> Nat]
  BY <1>1 DEF Indexed
<1>5. \A id \in TicketIDs : w[id] = 0 \/ v[id] = 0
  BY DEF Listed
<1>6. \A id \in TicketIDs : x[id] = IF v[id] # 0 THEN m + v[id] ELSE w[id]
  <2> TAKE id \in TicketIDs
  <2>1. CASE v[id] # 0
    <3>1. v[id] \in 1..n /\ h[v[id]] = id /\ \A i \in 1..n : h[i] = id => i = v[id]
      BY <1>4, <2>1
    <3>2. (CHOOSE i \in 1..n : h[i] = id) = v[id]
      BY <3>1
    <3> QED
      BY <1>1, <1>3, <2>1, <3>1, <3>2 DEF Restored
  <2>2. CASE v[id] = 0
    <3>1. \A i \in 1..n : h[i] # id
      BY <1>4, <2>2
    <3> QED
      BY <1>3, <2>2, <3>1 DEF Restored
  <2> QED
    BY <2>1, <2>2
<1>7. x \in [TicketIDs -> Nat]
  <2>1. \A id \in TicketIDs : x[id] \in Nat
    BY <1>1, <1>4, <1>6
  <2> QED
    BY <2>1 DEF Restored
<1>8. ASSUME NEW i \in 1..(m + n) PROVE x[b[i]] = i
  <2>1. CASE i <= m
    <3>1. i \in 1..m /\ b[i] = a[i] /\ w[a[i]] = i /\ i # 0 /\ a[i] \in TicketIDs
      BY <1>1, <1>2, <1>4, <2>1
    <3> QED
      BY <1>5, <1>6, <3>1
  <2>2. CASE ~ (i <= m)
    <3>1. PICK j \in 1..n : i = m + j
      <4>1. i - m \in 1..n /\ i = m + (i - m)
        BY <1>1, <2>2
      <4> QED
        BY <4>1
    <3>2. b[i] = h[j] /\ v[h[j]] = j /\ j # 0 /\ h[j] \in TicketIDs
      BY <1>2, <1>4, <3>1
    <3> QED
      BY <1>6, <3>1, <3>2
  <2> QED
    BY <2>1, <2>2
<1>9. ASSUME NEW id \in TicketIDs, x[id] # 0
      PROVE  x[id] \in 1..(m + n) /\ b[x[id]] = id
  <2>1. CASE v[id] # 0
    <3>1. v[id] \in 1..n /\ h[v[id]] = id /\ x[id] = m + v[id]
      BY <1>4, <1>6, <2>1
    <3>2. m + v[id] \in 1..(m + n)
      BY <1>1, <3>1
    <3>3. b[m + v[id]] = h[v[id]]
      BY <1>2, <3>1
    <3> QED
      BY <3>1, <3>2, <3>3
  <2>2. CASE v[id] = 0
    <3>1. x[id] = w[id] /\ w[id] \in 1..m /\ a[w[id]] = id
      BY <1>4, <1>6, <1>9, <2>2
    <3>2. w[id] \in 1..(m + n) /\ b[w[id]] = a[w[id]]
      BY <1>1, <1>2, <3>1
    <3> QED
      BY <3>1, <3>2
  <2> QED
    BY <2>1, <2>2
<1>10. Indexed(b, x)
  BY <1>2, <1>7, <1>8, <1>9 DEF Indexed
<1>11. Listed(x) = Listed(w) \cup Listed(v)
  <2>1. ASSUME NEW id \in TicketIDs PROVE x[id] # 0 <=> (w[id] # 0 \/ v[id] # 0)
    <3>1. CASE v[id] # 0
      <4>1. v[id] \in 1..n /\ x[id] = m + v[id]
        BY <1>4, <1>6, <3>1
      <4>2. m + v[id] # 0
        BY <1>1, <4>1
      <4> QED
        BY <3>1, <4>1, <4>2
    <3>2. CASE v[id] = 0
      BY <1>6, <3>2
    <3> QED
      BY <3>1, <3>2
  <2> QED
    BY <2>1 DEF Listed
<1> QED
  BY <1>10, <1>11

(* The inductive invariant of the random policy.                           *)
RandomInv ==
  /\ Indexed(ticketIDs, positions)
  /\ Indexed(held, heldPositions)
  /\ Listed(positions) \cap Listed(heldPositions) = {}
  /\ roundLimit \in Nat
  /\ roundYielded \in 0..roundLimit
  /\ roundActive \in BOOLEAN

LEMMA NothingIndexed ==
  Indexed(<<>>, Random!NoPositions) /\ Listed(Random!NoPositions) = {}
<1>1. <<>> \in Seq(TicketIDs) /\ Len(<<>>) = 0 /\ 1..0 = {}
  BY EmptySeq
<1>2. /\ Random!NoPositions \in [TicketIDs -> Nat]
      /\ \A id \in TicketIDs : Random!NoPositions[id] = 0
  BY DEF Random!NoPositions
<1> QED
  BY <1>1, <1>2 DEF Indexed, Listed

(* An ID that is removed wherever it is leaves the rest as it was.         *)
LEMMA RemovedIfPresent ==
  ASSUME NEW array, NEW where, Indexed(array, where), NEW id \in TicketIDs,
         NEW b, b = IF where[id] # 0 THEN Random!SwapRemove(array, where[id]) ELSE array,
         NEW w, w = IF where[id] # 0 THEN Random!PositionsWithout(array, where, id) ELSE where
  PROVE  Indexed(b, w) /\ Listed(w) = Listed(where) \ {id} /\ w[id] = 0
<1>1. CASE where[id] # 0
  <2>1. b = Random!SwapRemove(array, where[id]) /\ w = Random!PositionsWithout(array, where, id)
    BY <1>1
  <2> QED
    BY <1>1, <2>1, SwapRemoved
<1>2. CASE where[id] = 0
  BY <1>2 DEF Listed
<1> QED
  BY <1>1, <1>2

LEMMA RandomAdd ==
  ASSUME RandomInv, NEW id \in TicketIDs, Random!Add(id)
  PROVE  /\ RandomInv'
         /\ Listed(positions)' = Listed(positions) \cup {id}
         /\ Listed(heldPositions)' = Listed(heldPositions) \ {id}
<1>1. PICK a : a = ticketIDs
  OBVIOUS
<1>2. PICK p : p = positions
  OBVIOUS
<1>3. PICK h : h = held
  OBVIOUS
<1>4. PICK q : q = heldPositions
  OBVIOUS
<1>5. /\ Indexed(a, p) /\ Indexed(h, q)
      /\ Listed(p) \cap Listed(q) = {}
  BY <1>1, <1>2, <1>3, <1>4 DEF RandomInv
<1>6. PICK b : b = IF p[id] # 0 THEN Random!SwapRemove(a, p[id]) ELSE a
  OBVIOUS
<1>7. PICK w : w = IF p[id] # 0 THEN Random!PositionsWithout(a, p, id) ELSE p
  OBVIOUS
<1>8. Indexed(b, w) /\ Listed(w) = Listed(p) \ {id} /\ w[id] = 0
  BY <1>5, <1>6, <1>7, RemovedIfPresent
<1>9. ticketIDs' = Append(b, id) /\ positions' = [w EXCEPT ![id] = Len(b) + 1]
  BY <1>1, <1>2, <1>6, <1>7 DEF Random!Add
<1>10. Indexed(ticketIDs', positions') /\ Listed(positions') = Listed(w) \cup {id}
  <2>1. Placed(b, w, id, ticketIDs', positions')
    BY <1>9 DEF Placed
  <2>2. \A c, x : Placed(b, w, id, c, x) => Indexed(c, x) /\ Listed(x) = Listed(w) \cup {id}
    BY <1>8, AppendedID
  <2> QED
    BY <2>1, <2>2
<1>11. Indexed(held', heldPositions') /\ Listed(heldPositions') = Listed(q) \ {id}
  <2>1. PICK c : c = IF q[id] # 0 THEN Random!SwapRemove(h, q[id]) ELSE h
    OBVIOUS
  <2>2. PICK x : x = IF q[id] # 0 THEN Random!PositionsWithout(h, q, id) ELSE q
    OBVIOUS
  <2>3. Indexed(c, x) /\ Listed(x) = Listed(q) \ {id}
    BY <1>5, <2>1, <2>2, RemovedIfPresent
  <2>4. held' = c /\ heldPositions' = x
    BY <1>3, <1>4, <2>1, <2>2 DEF Random!Add
  <2> QED
    BY <2>3, <2>4
<1>12. UNCHANGED <<roundLimit, roundYielded, roundActive>>
  BY DEF Random!Add, Random!roundVars
<1> QED
  BY <1>2, <1>4, <1>5, <1>8, <1>10, <1>11, <1>12 DEF RandomInv, Listed

LEMMA RandomRemove ==
  ASSUME RandomInv, NEW id \in TicketIDs, Random!Remove(id)
  PROVE  /\ RandomInv'
         /\ Listed(positions)' = Listed(positions) \ {id}
         /\ Listed(heldPositions)' = Listed(heldPositions) \ {id}
<1>1. PICK a : a = ticketIDs
  OBVIOUS
<1>2. PICK p : p = positions
  OBVIOUS
<1>3. PICK h : h = held
  OBVIOUS
<1>4. PICK q : q = heldPositions
  OBVIOUS
<1>5. /\ Indexed(a, p) /\ Indexed(h, q)
      /\ Listed(p) \cap Listed(q) = {}
  BY <1>1, <1>2, <1>3, <1>4 DEF RandomInv
<1>6. p[id] # 0 \/ q[id] # 0
  BY <1>2, <1>4 DEF Random!Remove
<1>7. UNCHANGED <<roundLimit, roundYielded, roundActive>>
  BY DEF Random!Remove, Random!roundVars
<1>8. CASE p[id] # 0
  <2>1. /\ ticketIDs' = Random!SwapRemove(a, p[id])
        /\ positions' = Random!PositionsWithout(a, p, id)
        /\ held' = h /\ heldPositions' = q
    BY <1>1, <1>2, <1>3, <1>4, <1>8 DEF Random!Remove, Random!RemoveID
  <2>2. Indexed(ticketIDs', positions') /\ Listed(positions') = Listed(p) \ {id}
    BY <1>5, <1>8, <2>1, SwapRemoved
  <2>3. id \in Listed(p)
    BY <1>8 DEF Listed
  <2>4. Listed(q) = Listed(q) \ {id}
    BY <1>5, <2>3
  <2> QED
    BY <1>2, <1>4, <1>5, <1>7, <2>1, <2>2, <2>4 DEF RandomInv, Listed
<1>9. CASE p[id] = 0
  <2>1. /\ held' = Random!SwapRemove(h, q[id])
        /\ heldPositions' = Random!PositionsWithout(h, q, id)
        /\ ticketIDs' = a /\ positions' = p
    BY <1>1, <1>2, <1>3, <1>4, <1>9 DEF Random!Remove, Random!RemoveID
  <2>2. Indexed(held', heldPositions') /\ Listed(heldPositions') = Listed(q) \ {id}
    BY <1>5, <1>6, <1>9, <2>1, SwapRemoved
  <2>3. Listed(p) = Listed(p) \ {id}
    BY <1>9 DEF Listed
  <2> QED
    BY <1>2, <1>4, <1>5, <1>7, <2>1, <2>2, <2>3 DEF RandomInv, Listed
<1> QED
  BY <1>8, <1>9

LEMMA RandomNext ==
  ASSUME RandomInv, Random!Next
  PROVE  /\ RandomInv'
         /\ \E id \in Listed(positions) :
              /\ Listed(positions)' = Listed(positions) \ {id}
              /\ Listed(heldPositions)' = Listed(heldPositions) \cup {id}
<1>1. PICK a : a = ticketIDs
  OBVIOUS
<1>2. PICK p : p = positions
  OBVIOUS
<1>3. PICK h : h = held
  OBVIOUS
<1>4. PICK q : q = heldPositions
  OBVIOUS
<1>5. /\ Indexed(a, p) /\ Indexed(h, q)
      /\ Listed(p) \cap Listed(q) = {}
  BY <1>1, <1>2, <1>3, <1>4 DEF RandomInv
<1>6. PICK i \in DOMAIN a :
        /\ ticketIDs' = Random!SwapRemove(a, i)
        /\ positions' = [p EXCEPT ![a[Len(a)]] = i, ![a[i]] = 0]
        /\ held' = Append(h, a[i])
        /\ heldPositions' = [q EXCEPT ![a[i]] = Len(h) + 1]
  BY <1>1, <1>2, <1>3, <1>4 DEF Random!Next, Random!Hold
<1>7. PICK id \in TicketIDs : id = a[i] /\ p[id] = i /\ i # 0
  <2>1. i \in 1..Len(a) /\ Len(a) \in Nat
    BY <1>5, LenProperties DEF Indexed
  <2>2. a[i] \in TicketIDs /\ p[a[i]] = i /\ i # 0
    BY <1>5, <2>1 DEF Indexed
  <2> QED
    BY <2>2
<1>8. id \in Listed(p) /\ q[id] = 0
  BY <1>5, <1>7 DEF Listed
<1>9. Indexed(ticketIDs', positions') /\ Listed(positions') = Listed(p) \ {id}
  <2>1. /\ ticketIDs' = Random!SwapRemove(a, p[id])
        /\ positions' = Random!PositionsWithout(a, p, id)
    BY <1>6, <1>7 DEF Random!PositionsWithout
  <2> QED
    BY <1>5, <1>7, <2>1, SwapRemoved
<1>10. Indexed(held', heldPositions') /\ Listed(heldPositions') = Listed(q) \cup {id}
  <2>1. Placed(h, q, id, held', heldPositions')
    BY <1>6, <1>7 DEF Placed
  <2>2. \A c, x : Placed(h, q, id, c, x) => Indexed(c, x) /\ Listed(x) = Listed(q) \cup {id}
    BY <1>5, <1>8, AppendedID
  <2> QED
    BY <2>1, <2>2
<1>11. /\ roundLimit' \in Nat /\ roundYielded' \in 0..roundLimit'
       /\ roundActive' \in BOOLEAN
  BY DEF Random!Next, Random!HasNext, RandomInv
<1>12. Listed(positions)' \cap Listed(heldPositions)' = {}
  BY <1>5, <1>9, <1>10 DEF Listed
<1>13. RandomInv'
  BY <1>9, <1>10, <1>11, <1>12 DEF RandomInv, Listed
<1>14. /\ id \in Listed(positions)
       /\ Listed(positions)' = Listed(positions) \ {id}
       /\ Listed(heldPositions)' = Listed(heldPositions) \cup {id}
  BY <1>2, <1>4, <1>8, <1>9, <1>10 DEF Listed
<1> QED
  BY <1>13, <1>14

LEMMA RandomBeginRound ==
  ASSUME RandomInv, NEW n \in Limits, Random!BeginRound(n)
  PROVE  /\ RandomInv'
         /\ Listed(positions)' = Listed(positions) \cup Listed(heldPositions)
         /\ Listed(heldPositions)' = {}
<1>1. PICK a : a = ticketIDs
  OBVIOUS
<1>2. PICK p : p = positions
  OBVIOUS
<1>3. PICK h : h = held
  OBVIOUS
<1>4. PICK q : q = heldPositions
  OBVIOUS
<1>5. /\ Indexed(a, p) /\ Indexed(h, q)
      /\ Listed(p) \cap Listed(q) = {}
  BY <1>1, <1>2, <1>3, <1>4 DEF RandomInv
<1>6. Indexed(ticketIDs', positions') /\ Listed(positions') = Listed(p) \cup Listed(q)
  <2>1. Restored(a, p, h, ticketIDs', positions')
    BY <1>1, <1>2, <1>3 DEF Random!BeginRound, Random!RestoredPositions, Restored
  <2>2. \A b, x : Restored(a, p, h, b, x) => Indexed(b, x) /\ Listed(x) = Listed(p) \cup Listed(q)
    BY <1>5, RestoredIDs
  <2> QED
    BY <2>1, <2>2
<1>7. Indexed(held', heldPositions') /\ Listed(heldPositions') = {}
  <2>1. held' = <<>> /\ heldPositions' = Random!NoPositions
    BY DEF Random!BeginRound
  <2> QED
    BY <2>1, NothingIndexed
<1>8. /\ roundLimit' \in Nat /\ roundYielded' \in 0..roundLimit'
      /\ roundActive' \in BOOLEAN
  BY ArrivalAssumption DEF Random!BeginRound
<1>9. Listed(positions)' = Listed(positions') /\ Listed(heldPositions)' = Listed(heldPositions')
  BY DEF Listed
<1>10. Listed(positions') \cap Listed(heldPositions') = {}
  BY <1>7
<1> QED
  BY <1>2, <1>4, <1>6, <1>7, <1>8, <1>9, <1>10 DEF RandomInv

LEMMA RandomStep == RandomInv /\ [Random!Step]_(Random!vars) => RandomInv'
<1> SUFFICES ASSUME RandomInv, [Random!Step]_(Random!vars) PROVE RandomInv'
  OBVIOUS
<1>1. CASE UNCHANGED Random!vars
  <2>1. /\ ticketIDs' = ticketIDs /\ positions' = positions
        /\ held' = held /\ heldPositions' = heldPositions
        /\ roundLimit' = roundLimit /\ roundYielded' = roundYielded
        /\ roundActive' = roundActive
    BY <1>1 DEF Random!vars, Random!arrays, Random!roundVars
  <2>2. Indexed(ticketIDs', positions') /\ Indexed(held', heldPositions')
    BY <2>1 DEF RandomInv
  <2>3. Listed(positions') \cap Listed(heldPositions') = {}
    BY <2>1 DEF RandomInv
  <2>4. Listed(positions') = Listed(positions)' /\ Listed(heldPositions') = Listed(heldPositions)'
    BY DEF Listed
  <2> QED
    BY <2>1, <2>2, <2>3, <2>4 DEF RandomInv
<1>2. ASSUME NEW id \in TicketIDs, Random!Add(id) PROVE RandomInv'
  BY <1>2, RandomAdd
<1>3. ASSUME NEW id \in TicketIDs, Random!Remove(id) PROVE RandomInv'
  BY <1>3, RandomRemove
<1>4. ASSUME NEW n \in Limits, Random!BeginRound(n) PROVE RandomInv'
  BY <1>4, RandomBeginRound
<1>5. CASE Random!Next
  BY <1>5, RandomNext
<1> QED
  BY <1>1, <1>2, <1>3, <1>4, <1>5 DEF Random!Step

LEMMA RandomInit == Random!Init => RandomInv
<1> SUFFICES ASSUME Random!Init PROVE RandomInv
  OBVIOUS
<1>1. Indexed(ticketIDs, positions) /\ Listed(positions) = {}
  BY NothingIndexed DEF Random!Init
<1>2. Indexed(held, heldPositions) /\ Listed(heldPositions) = {}
  BY NothingIndexed DEF Random!Init
<1>3. Listed(positions) \cap Listed(heldPositions) = {}
  BY <1>1
<1>4. roundLimit \in Nat /\ roundYielded \in 0..roundLimit /\ roundActive \in BOOLEAN
  <2>1. roundLimit = 0 /\ roundYielded = 0 /\ roundActive = FALSE
    BY DEF Random!Init
  <2>2. 0 \in Nat /\ 0 \in 0..0
    OBVIOUS
  <2> QED
    BY <2>1, <2>2
<1> QED
  BY <1>1, <1>2, <1>3, <1>4 DEF RandomInv

(* The random policy keeps its two arrays, position maps and counters well *)
(* typed (randomSeedOrderPolicy.Add, Remove, BeginRound and Next).         *)
THEOREM RandomTypeCorrect == Random!Spec => []Random!TypeOK
<1>1. RandomInv => Random!TypeOK
  <2> SUFFICES ASSUME RandomInv PROVE Random!TypeOK
    OBVIOUS
  <2>1. ASSUME NEW a, NEW p, Indexed(a, p)
        PROVE  a \in Seq(TicketIDs) /\ p \in [TicketIDs -> 0..Len(a)]
    <3>1. Len(a) \in Nat
      BY <2>1, LenProperties DEF Indexed
    <3> QED
      BY <2>1, <3>1 DEF Indexed
  <2> QED
    BY <2>1 DEF RandomInv, Random!TypeOK
<1> QED
  BY <1>1, RandomInit, RandomStep, PTL DEF Random!Spec

(* After any sequence of swap-removes in randomSeedOrderPolicy both maps   *)
(* are the inverses of their arrays and no ID is in both arrays.           *)
THEOREM RandomPositions == Random!Spec => []Random!PositionsExact
<1>1. RandomInv => Random!PositionsExact
  <2> SUFFICES ASSUME RandomInv PROVE Random!PositionsExact
    OBVIOUS
  <2>1. ASSUME NEW a, NEW p, Indexed(a, p)
        PROVE  /\ \A i \in DOMAIN a : p[a[i]] = i
               /\ \A id \in TicketIDs : p[id] # 0 => a[p[id]] = id
    BY <2>1 DEF Indexed
  <2>2. \A id \in TicketIDs : positions[id] = 0 \/ heldPositions[id] = 0
    BY DEF RandomInv, Listed
  <2> QED
    BY <2>1, <2>2 DEF RandomInv, Random!PositionsExact
<1> QED
  BY <1>1, RandomInit, RandomStep, PTL DEF Random!Spec

(* What the policy may still yield and what it holds, as the contract of   *)
(* a seed stream sees it.                                                  *)
RandomMeant ==
  /\ {ticketIDs[i] : i \in DOMAIN ticketIDs} = Listed(positions)
  /\ {held[i] : i \in DOMAIN held} = Listed(heldPositions)

LEMMA RandomMeaning == RandomInv => RandomMeant
BY IndexedMembers DEF RandomInv, RandomMeant

LEMMA RandomMeaningAfter == RandomInv' => RandomMeant'
BY RandomMeaning, PTL

LEMMA RandomRefines ==
  RandomInv /\ [Random!Step]_(Random!vars) =>
    [Random!Stream!StreamStep]_(Random!Stream!streamVars)
<1> SUFFICES ASSUME RandomInv, [Random!Step]_(Random!vars)
             PROVE  [Random!Stream!StreamStep]_(Random!Stream!streamVars)
  OBVIOUS
<1>1. RandomMeant /\ RandomMeant'
  BY RandomMeaning, RandomMeaningAfter, RandomStep
<1>2. ASSUME NEW id \in TicketIDs, Random!Add(id) PROVE Random!Stream!StreamAdd(id)
  BY <1>1, <1>2, RandomAdd
  DEF RandomMeant, Random!Add, Random!roundVars, Random!Stream!StreamAdd
<1>3. ASSUME NEW id \in TicketIDs, Random!Remove(id) PROVE Random!Stream!StreamRemove({id})
  BY <1>1, <1>3, RandomRemove
  DEF RandomMeant, Random!Remove, Random!roundVars, Random!Stream!StreamRemove
<1>4. ASSUME NEW n \in Limits, Random!BeginRound(n) PROVE Random!Stream!StreamBeginRound(n)
  BY <1>1, <1>4, RandomBeginRound
  DEF RandomMeant, Random!BeginRound, Random!Stream!StreamBeginRound
<1>5. ASSUME Random!Next PROVE \E id \in TicketIDs : Random!Stream!StreamNext(id)
  <2>1. PICK id \in Listed(positions) :
          /\ Listed(positions)' = Listed(positions) \ {id}
          /\ Listed(heldPositions)' = Listed(heldPositions) \cup {id}
    BY <1>5, RandomNext
  <2>2. Random!Stream!HasNext
    BY <1>1, <1>5, <2>1 DEF RandomMeant, Random!Next, Random!HasNext, Random!Stream!HasNext
  <2>3. Random!Stream!StreamNext(id)
    BY <1>1, <1>5, <2>1, <2>2 DEF RandomMeant, Random!Next, Random!Stream!StreamNext
  <2> QED
    BY <2>1, <2>3 DEF Listed
<1>6. CASE UNCHANGED Random!vars
  BY <1>6 DEF Random!vars, Random!arrays, Random!roundVars, Random!Stream!streamVars
<1>7. ASSUME NEW id \in TicketIDs PROVE {id} \in SUBSET TicketIDs
  OBVIOUS
<1> QED
  BY <1>2, <1>3, <1>4, <1>5, <1>6, <1>7 DEF Random!Step, Random!Stream!StreamStep

(* The random policy implements the seed stream that LogicalNode relies    *)
(* on: within a round no seed repeats, no waiting ticket is dropped, and   *)
(* the limit is kept.                                                      *)
THEOREM RandomStreamImplemented == Random!Spec => Random!ImplementsStream
<1>1. Random!Init => Random!Stream!StreamInit
  BY DEF Random!Init, Random!Stream!StreamInit
<1> QED
  BY <1>1, RandomInit, RandomStep, RandomRefines, PTL
  DEF Random!Spec, Random!ImplementsStream, Random!Stream!StreamSpec
===============================================================================
