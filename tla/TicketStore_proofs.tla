-------------------------- MODULE TicketStore_proofs --------------------------
(***************************************************************************)
(* The consistency of the ticket store for any DocID space, any tickets    *)
(* and any size of a match, and its refinement of TicketPool.  Below, the  *)
(* bitmap indexes of the prefilter (PrefilterIndex), for any block size.   *)
(***************************************************************************)
EXTENDS TicketStore, SequenceTheorems, FiniteSetTheorems, WellFoundedInduction, TLAPS

Distinct(s) == \A i, j \in DOMAIN s : s[i] = s[j] => i = j
Elements(s) == {s[i] : i \in DOMAIN s}
Issued(n) == IF n = 0 THEN DocIDs ELSE 1..(n - 1)

(* The state predicate every step preserves, without the outcome.          *)
LiveInOldest == LiveRefs \subseteq oldestTickets

StoreInv == TypeOK /\ DocIDsPartitioned /\ IndexesAgree /\ LiveInOldest

-------------------------------------------------------------------------------
(* Sequences without repetition, as a stack of DocIDs uses them.           *)
LEMMA PopDistinct ==
  ASSUME NEW S, NEW s \in Seq(S), s # <<>>, Distinct(s)
  PROVE  LET t == SubSeq(s, 1, Len(s) - 1)
         IN /\ s[Len(s)] \in S
            /\ s[Len(s)] \in Elements(s)
            /\ t \in Seq(S)
            /\ Distinct(t)
            /\ Elements(t) = Elements(s) \ {s[Len(s)]}
<1> DEFINE n == Len(s)
           t == SubSeq(s, 1, n - 1)
<1>1. n \in Nat \ {0} /\ DOMAIN s = 1..n
  BY EmptySeq, LenProperties
<1>2. t \in Seq(S) /\ Len(t) = n - 1 /\ \A i \in 1..(n - 1) : t[i] = s[i]
  BY <1>1, SubSeqProperties
<1>3. DOMAIN t = 1..(n - 1)
  BY <1>2, LenProperties
<1>4. s[n] \in S /\ s[n] \in Elements(s)
  BY <1>1, ElementOfSeq DEF Elements
<1>5. Distinct(t)
  BY <1>1, <1>2, <1>3 DEF Distinct
<1>6. Elements(t) = Elements(s) \ {s[n]}
  <2>1. ASSUME NEW x \in Elements(t) PROVE x \in Elements(s) \ {s[n]}
    <3>1. PICK i \in 1..(n - 1) : x = s[i]
      BY <1>2, <1>3, <2>1 DEF Elements
    <3> QED
      BY <1>1, <3>1 DEF Elements, Distinct
  <2>2. ASSUME NEW x \in Elements(s) \ {s[n]} PROVE x \in Elements(t)
    <3>1. PICK i \in 1..n : x = s[i]
      BY <1>1, <2>2 DEF Elements
    <3>2. i \in 1..(n - 1)
      BY <1>1, <2>2, <3>1
    <3> QED
      BY <1>2, <1>3, <3>1, <3>2 DEF Elements
  <2> QED
    BY <2>1, <2>2
<1> QED
  BY <1>2, <1>4, <1>5, <1>6

LEMMA ConcatDistinct ==
  ASSUME NEW S, NEW s \in Seq(S), NEW t \in Seq(S), Distinct(s), Distinct(t),
         Elements(s) \cap Elements(t) = {}
  PROVE  /\ s \o t \in Seq(S)
         /\ Distinct(s \o t)
         /\ Elements(s \o t) = Elements(s) \cup Elements(t)
<1> DEFINE u == s \o t
           m == Len(s)
           n == Len(t)
<1>1. m \in Nat /\ n \in Nat /\ DOMAIN s = 1..m /\ DOMAIN t = 1..n
  BY LenProperties
<1>2. /\ u \in Seq(S) /\ Len(u) = m + n
      /\ \A i \in 1..(m + n) : u[i] = IF i <= m THEN s[i] ELSE t[i - m]
  BY ConcatProperties
<1>3. DOMAIN u = 1..(m + n)
  BY <1>1, <1>2, LenProperties
<1>4. \A i \in 1..(m + n) : \/ i \in 1..m /\ u[i] = s[i] /\ u[i] \in Elements(s)
                            \/ /\ i \notin 1..m /\ i - m \in 1..n
                               /\ u[i] = t[i - m] /\ u[i] \in Elements(t)
  BY <1>1, <1>2 DEF Elements
<1>5. Distinct(u)
  <2> SUFFICES ASSUME NEW i \in 1..(m + n), NEW j \in 1..(m + n), u[i] = u[j]
               PROVE  i = j
    BY <1>3 DEF Distinct
  <2>1. CASE i \in 1..m /\ j \in 1..m
    BY <1>1, <1>4, <2>1 DEF Distinct
  <2>2. CASE i \notin 1..m /\ j \notin 1..m
    <3>1. i - m \in 1..n /\ j - m \in 1..n /\ t[i - m] = t[j - m]
      BY <1>4, <2>2
    <3>2. i - m = j - m
      BY <1>1, <3>1 DEF Distinct
    <3> QED
      BY <1>1, <3>2
  <2>3. CASE i \in 1..m /\ j \notin 1..m
    BY <1>4, <2>3
  <2>4. CASE i \notin 1..m /\ j \in 1..m
    BY <1>4, <2>4
  <2> QED
    BY <2>1, <2>2, <2>3, <2>4
<1>6. Elements(u) \subseteq Elements(s) \cup Elements(t)
  BY <1>3, <1>4 DEF Elements
<1>7. Elements(s) \subseteq Elements(u)
  <2> SUFFICES ASSUME NEW i \in 1..m PROVE s[i] \in Elements(u)
    BY <1>1 DEF Elements
  <2> QED
    BY <1>1, <1>2, <1>3 DEF Elements
<1>8. Elements(t) \subseteq Elements(u)
  <2> SUFFICES ASSUME NEW i \in 1..n PROVE t[i] \in Elements(u)
    BY <1>1 DEF Elements
  <2>1. m + i \in 1..(m + n) /\ u[m + i] = t[i]
    BY <1>1, <1>2
  <2> QED
    BY <1>3, <2>1 DEF Elements
<1> QED
  BY <1>2, <1>5, <1>6, <1>7, <1>8

-------------------------------------------------------------------------------
(* Where allocateDocID takes a DocID from, it has never been issued or it  *)
(* was on the free stack, so it is not live, and it leaves the stack.      *)
LEMMA Allocation ==
  ASSUME TypeOK, DocIDsPartitioned, CanAllocate
  PROVE  /\ AllocatedDocID \in DocIDs \ LiveDocIDs
         /\ FreeAfterAllocate \in Seq(DocIDs)
         /\ Distinct(FreeAfterAllocate)
         /\ Elements(FreeAfterAllocate) = FreeDocIDs \ {AllocatedDocID}
         /\ NextAfterAllocate \in 0..MaxDocID
         /\ Issued(NextAfterAllocate) = IssuedDocIDs \cup {AllocatedDocID}
<1>1. Distinct(freeDocIDs) /\ Elements(freeDocIDs) = FreeDocIDs
  BY DEF DocIDsPartitioned, Distinct, Elements, FreeDocIDs
<1>2. Issued(nextDocID) = IssuedDocIDs
  BY DEF Issued, IssuedDocIDs
<1>3. CASE Recyclable
  <2>1. freeDocIDs \in Seq(DocIDs) /\ freeDocIDs # <<>>
    BY <1>3 DEF TypeOK, Recyclable
  <2> DEFINE top == freeDocIDs[Len(freeDocIDs)]
  <2>2. /\ top \in DocIDs
        /\ top \in FreeDocIDs
        /\ FreeAfterAllocate \in Seq(DocIDs)
        /\ Distinct(FreeAfterAllocate)
        /\ Elements(FreeAfterAllocate) = FreeDocIDs \ {top}
    BY <1>1, <1>3, <2>1, PopDistinct DEF FreeAfterAllocate
  <2>3. AllocatedDocID = top /\ NextAfterAllocate = nextDocID
    BY <1>3 DEF AllocatedDocID, NextAfterAllocate
  <2>4. top \notin LiveDocIDs /\ top \in IssuedDocIDs
    BY <2>2 DEF DocIDsPartitioned
  <2>5. IssuedDocIDs = IssuedDocIDs \cup {top}
    BY <2>4
  <2>6. NextAfterAllocate \in 0..MaxDocID
    BY <2>3 DEF TypeOK
  <2> QED
    BY <1>2, <2>2, <2>3, <2>4, <2>5, <2>6
<1>4. CASE ~Recyclable
  <2>1. nextDocID \in 1..MaxDocID /\ MaxDocID \in Nat \ {0} /\ freeDocIDs = <<>>
    BY <1>4, StoreAssumption DEF TypeOK, Recyclable, CanAllocate
  <2>2. /\ AllocatedDocID = nextDocID
        /\ NextAfterAllocate = (nextDocID + 1) % (MaxDocID + 1)
        /\ FreeAfterAllocate = freeDocIDs
    BY <1>4 DEF AllocatedDocID, NextAfterAllocate, FreeAfterAllocate
  <2>3. nextDocID \notin IssuedDocIDs /\ nextDocID \in DocIDs
    BY <2>1 DEF IssuedDocIDs, DocIDs
  <2>4. nextDocID \notin FreeDocIDs /\ nextDocID \notin LiveDocIDs
    BY <2>3 DEF DocIDsPartitioned
  <2>5. CASE nextDocID = MaxDocID
    <3>1. NextAfterAllocate = 0
      BY <2>1, <2>2, <2>5
    <3>2. Issued(NextAfterAllocate) = DocIDs
      BY <3>1 DEF Issued
    <3>3. IssuedDocIDs \cup {nextDocID} = DocIDs
      BY <2>1, <2>5 DEF IssuedDocIDs, DocIDs
    <3>4. NextAfterAllocate \in 0..MaxDocID
      BY <2>1, <3>1
    <3> QED
      BY <1>1, <2>2, <2>3, <2>4, <3>2, <3>3, <3>4 DEF TypeOK
  <2>6. CASE nextDocID < MaxDocID
    <3>1. NextAfterAllocate = nextDocID + 1
      BY <2>1, <2>2, <2>6
    <3>2. Issued(NextAfterAllocate) = 1..nextDocID
      BY <2>1, <3>1 DEF Issued
    <3>3. IssuedDocIDs \cup {nextDocID} = 1..nextDocID
      BY <2>1 DEF IssuedDocIDs
    <3>4. NextAfterAllocate \in 0..MaxDocID
      BY <2>1, <2>6, <3>1
    <3> QED
      BY <1>1, <2>2, <2>3, <2>4, <3>2, <3>3, <3>4 DEF TypeOK
  <2> QED
    BY <2>1, <2>5, <2>6
<1> QED
  BY <1>3, <1>4

LEMMA LiveFacts ==
  ASSUME TypeOK, IndexesAgree
  PROVE  /\ \A d \in LiveDocIDs : /\ ticketsByDocID[d] \in DOMAIN objects
                                  /\ objects[ticketsByDocID[d]] \in Object
         /\ \A id \in TicketIDs : ticketIDToDocID[id] # 0 =>
              /\ ticketIDToDocID[id] \in LiveDocIDs
              /\ Stored(id) \in DOMAIN objects
              /\ objects[Stored(id)].ticketID = id
         /\ \A id, jd \in TicketIDs :
              ticketIDToDocID[id] # 0 /\ ticketIDToDocID[id] = ticketIDToDocID[jd] => id = jd
<1>1. DOMAIN objects = 1..Len(objects) /\ Len(objects) \in Nat
  BY LenProperties DEF TypeOK
<1>2. ASSUME NEW d \in LiveDocIDs
      PROVE  ticketsByDocID[d] \in DOMAIN objects /\ objects[ticketsByDocID[d]] \in Object
  BY <1>1, <1>2, ElementOfSeq DEF TypeOK, LiveDocIDs
<1>3. ASSUME NEW id \in TicketIDs, ticketIDToDocID[id] # 0
      PROVE  /\ ticketIDToDocID[id] \in LiveDocIDs
             /\ Stored(id) \in DOMAIN objects
             /\ objects[Stored(id)].ticketID = id
  <2>1. ticketIDToDocID[id] \in DocIDs
    BY <1>3, StoreAssumption DEF TypeOK, DocIDs
  <2>2. Stored(id) # 0 /\ objects[Stored(id)].ticketID = id
    BY <1>3 DEF IndexesAgree
  <2>3. ticketIDToDocID[id] \in LiveDocIDs
    BY <2>1, <2>2 DEF LiveDocIDs, Stored
  <2> QED
    BY <1>2, <2>2, <2>3 DEF Stored
<1>4. ASSUME NEW id \in TicketIDs, NEW jd \in TicketIDs,
             ticketIDToDocID[id] # 0, ticketIDToDocID[id] = ticketIDToDocID[jd]
      PROVE  id = jd
  BY <1>3, <1>4 DEF Stored
<1> QED
  BY <1>2, <1>3, <1>4

-------------------------------------------------------------------------------
(* Initially nothing is stored.                                            *)
LEMMA InitInv == Init => StoreInv
<1> SUFFICES ASSUME Init PROVE StoreInv
  OBVIOUS
<1>1. MaxDocID \in Nat \ {0} /\ MaxTickets \in Nat
  BY StoreAssumption
<1>2. objects = <<>> /\ freeDocIDs = <<>> /\ Len(objects) = 0
  BY EmptySeq DEF Init
<1>3. LiveDocIDs = {} /\ LiveRefs = {} /\ FreeDocIDs = {}
  BY <1>2 DEF Init, LiveDocIDs, LiveRefs, FreeDocIDs
<1>4. reply \in [outcome : Outcomes, value : Nat] /\ reply.outcome # "panic"
  BY DEF Init, Ok, Outcomes
<1>5. TypeOK
  <2>1. objects \in Seq(Object) /\ freeDocIDs \in Seq(DocIDs)
    BY <1>2, EmptySeq
  <2>2. ticketsByDocID \in [DocIDs -> 0..Len(objects)]
    BY <1>2 DEF Init
  <2>3. ticketIDToDocID \in [TicketIDs -> 0..MaxDocID]
    BY <1>1 DEF Init
  <2> QED
    BY <1>1, <1>2, <1>4, <2>1, <2>2, <2>3 DEF TypeOK, Init
<1>6. DocIDsPartitioned
  <2>1. IssuedDocIDs = {}
    BY <1>1 DEF Init, IssuedDocIDs
  <2> QED
    BY <1>2, <1>3, <2>1 DEF DocIDsPartitioned
<1>7. IndexesAgree
  BY <1>3, <1>4 DEF Init, IndexesAgree
<1> QED
  BY <1>3, <1>5, <1>6, <1>7 DEF StoreInv, LiveInOldest

(* A new object is live under a DocID that was not, and in every index.    *)
LEMMA AddInv ==
  ASSUME StoreInv, NEW id \in TicketIDs, NEW created \in CreatedAts, Add(id, created)
  PROVE  StoreInv'
<1> DEFINE docID == AllocatedDocID
           ref == Len(objects) + 1
           object == [ticketID |-> id, docID |-> docID, createdAt |-> created]
<1> USE DEF StoreInv
<1>1. /\ docID \in DocIDs \ LiveDocIDs
      /\ freeDocIDs' \in Seq(DocIDs)
      /\ Distinct(freeDocIDs')
      /\ Elements(freeDocIDs') = FreeDocIDs \ {docID}
      /\ nextDocID' \in 0..MaxDocID
      /\ Issued(nextDocID') = IssuedDocIDs \cup {docID}
  BY Allocation DEF Add
<1>2. /\ ticketIDToDocID[id] = 0
      /\ Len(objects) < MaxTickets
      /\ objects' = Append(objects, object)
      /\ ticketsByDocID' = [ticketsByDocID EXCEPT ![docID] = ref]
      /\ ticketIDToDocID' = [ticketIDToDocID EXCEPT ![id] = docID]
      /\ active' = active \cup {docID}
      /\ oldestTickets' = oldestTickets \cup {ref}
      /\ reply' = Ok
  BY DEF Add
<1>3. Len(objects) \in Nat /\ DOMAIN objects = 1..Len(objects)
  BY LenProperties DEF TypeOK
<1>4. object \in Object
  BY <1>1 DEF Object
<1>5. /\ objects' \in Seq(Object)
      /\ Len(objects') = ref
      /\ \A i \in 1..Len(objects) : objects'[i] = objects[i]
      /\ objects'[ref] = object
  BY <1>2, <1>4, AppendProperties DEF TypeOK
<1>6. LiveDocIDs' = LiveDocIDs \cup {docID}
  BY <1>1, <1>2, <1>3 DEF LiveDocIDs, TypeOK
<1>7. TypeOK'
  <2>1. Len(objects') <= MaxTickets
    BY <1>2, <1>3, <1>5, StoreAssumption
  <2>2. ticketsByDocID' \in [DocIDs -> 0..Len(objects')]
    BY <1>1, <1>2, <1>3, <1>5 DEF TypeOK
  <2>3. ticketIDToDocID' \in [TicketIDs -> 0..MaxDocID]
    BY <1>1, <1>2, StoreAssumption DEF TypeOK, DocIDs
  <2>4. active' \subseteq DocIDs
    BY <1>1, <1>2 DEF TypeOK
  <2>5. oldestTickets' \subseteq 1..Len(objects')
    <3>1. oldestTickets \subseteq 1..Len(objects)
      BY DEF TypeOK
    <3>2. 1..Len(objects) \subseteq 1..ref /\ ref \in 1..ref
      BY <1>3
    <3> HIDE DEF ref
    <3> QED
      BY <1>2, <1>5, <3>1, <3>2
  <2>6. reply' \in [outcome : Outcomes, value : Nat]
    BY <1>2 DEF Ok, Outcomes
  <2> QED
    BY <1>1, <1>5, <2>1, <2>2, <2>3, <2>4, <2>5, <2>6 DEF TypeOK
<1>8. DocIDsPartitioned'
  <2>1. FreeDocIDs' = FreeDocIDs \ {docID}
    BY <1>1 DEF FreeDocIDs, Elements
  <2>2. IssuedDocIDs' = IssuedDocIDs \cup {docID}
    BY <1>1 DEF IssuedDocIDs, Issued
  <2> QED
    BY <1>1, <1>6, <2>1, <2>2 DEF DocIDsPartitioned, Distinct
<1>9. IndexesAgree'
  <2>1. active' = LiveDocIDs'
    BY <1>2, <1>6 DEF IndexesAgree
  <2>2. ASSUME NEW jd \in TicketIDs, ticketIDToDocID'[jd] # 0
        PROVE  Stored(jd)' # 0 /\ objects'[Stored(jd)'].ticketID = jd
    <3>1. CASE jd = id
      <4>1. Stored(jd)' = ref
        BY <1>1, <1>2, <3>1 DEF Stored, TypeOK
      <4> QED
        BY <1>3, <1>5, <3>1, <4>1
    <3>2. CASE jd # id
      <4>1. ticketIDToDocID'[jd] = ticketIDToDocID[jd] /\ ticketIDToDocID[jd] # 0
        BY <1>2, <2>2, <3>2 DEF TypeOK
      <4>2. /\ ticketIDToDocID[jd] \in LiveDocIDs
            /\ Stored(jd) \in DOMAIN objects
            /\ objects[Stored(jd)].ticketID = jd
        BY <4>1, LiveFacts
      <4>3. Stored(jd)' = Stored(jd)
        BY <1>1, <1>2, <4>1, <4>2 DEF Stored, TypeOK, LiveDocIDs
      <4> QED
        BY <1>3, <1>5, <4>2, <4>3
    <3> QED
      BY <3>1, <3>2
  <2>3. ASSUME NEW d \in LiveDocIDs'
        PROVE  /\ objects'[ticketsByDocID'[d]].docID = d
               /\ ticketIDToDocID'[objects'[ticketsByDocID'[d]].ticketID] = d
    <3>1. CASE d = docID
      <4>1. ticketsByDocID'[d] = ref
        BY <1>1, <1>2, <3>1 DEF TypeOK
      <4>2. objects'[ticketsByDocID'[d]] = object
        BY <1>5, <4>1
      <4>3. object.docID = docID /\ object.ticketID = id
        OBVIOUS
      <4>4. ticketIDToDocID'[id] = docID
        BY <1>2 DEF TypeOK
      <4> HIDE DEF object, docID
      <4> QED
        BY <3>1, <4>2, <4>3, <4>4
    <3>2. CASE d # docID
      <4>1. d \in LiveDocIDs /\ ticketsByDocID'[d] = ticketsByDocID[d]
        BY <1>1, <1>2, <1>6, <2>3, <3>2 DEF TypeOK, LiveDocIDs
      <4>2. /\ ticketsByDocID[d] \in DOMAIN objects
            /\ objects[ticketsByDocID[d]] \in Object
        BY <4>1, LiveFacts
      <4>3. objects'[ticketsByDocID'[d]] = objects[ticketsByDocID[d]]
        BY <1>3, <1>5, <4>1, <4>2
      <4>4. /\ objects[ticketsByDocID[d]].docID = d
            /\ ticketIDToDocID[objects[ticketsByDocID[d]].ticketID] = d
        BY <4>1 DEF IndexesAgree
      <4>5. d # 0
        BY <4>1 DEF LiveDocIDs, DocIDs
      <4>6. objects[ticketsByDocID[d]].ticketID # id
        BY <1>2, <4>4, <4>5
      <4>7. objects[ticketsByDocID[d]].ticketID \in TicketIDs
        BY <4>2 DEF Object
      <4> QED
        BY <1>2, <4>3, <4>4, <4>6, <4>7 DEF TypeOK
    <3> QED
      BY <3>1, <3>2
  <2>4. reply'.outcome # "panic"
    BY <1>2 DEF Ok
  <2> QED
    BY <2>1, <2>2, <2>3, <2>4 DEF IndexesAgree
<1>10. LiveInOldest'
  <2> SUFFICES ASSUME NEW d \in LiveDocIDs'
               PROVE  ticketsByDocID'[d] \in oldestTickets'
    BY DEF LiveInOldest, LiveRefs
  <2>1. CASE d = docID
    BY <1>1, <1>2, <2>1 DEF TypeOK
  <2>2. CASE d # docID
    <3>1. d \in LiveDocIDs /\ ticketsByDocID'[d] = ticketsByDocID[d]
      BY <1>1, <1>2, <1>6, <2>2 DEF TypeOK, LiveDocIDs
    <3> QED
      BY <1>2, <3>1 DEF LiveInOldest, LiveRefs
  <2> QED
    BY <2>1, <2>2
<1> QED
  BY <1>7, <1>8, <1>9, <1>10

(* A refused ticket gives its DocID back.                                  *)
LEMMA AddInvalidInv ==
  ASSUME StoreInv, NEW id \in TicketIDs, AddInvalid(id)
  PROVE  StoreInv'
<1> USE DEF StoreInv
<1>1. /\ AllocatedDocID \in DocIDs \ LiveDocIDs
      /\ FreeAfterAllocate \in Seq(DocIDs)
      /\ Distinct(FreeAfterAllocate)
      /\ Elements(FreeAfterAllocate) = FreeDocIDs \ {AllocatedDocID}
      /\ nextDocID' \in 0..MaxDocID
      /\ Issued(nextDocID') = IssuedDocIDs \cup {AllocatedDocID}
  BY Allocation DEF AddInvalid
<1> DEFINE given == <<AllocatedDocID>>
<1>2. /\ given \in Seq(DocIDs) /\ Distinct(given)
      /\ Elements(given) = {AllocatedDocID}
  BY <1>1 DEF Distinct, Elements
<1>3. freeDocIDs' = FreeAfterAllocate \o given
  BY <1>1, AppendIsConcat DEF AddInvalid, FreeAfterRelease
<1>4. /\ freeDocIDs' \in Seq(DocIDs)
      /\ Distinct(freeDocIDs')
      /\ Elements(freeDocIDs') = FreeDocIDs \cup {AllocatedDocID}
  <2> HIDE DEF given
  <2>1. Elements(FreeAfterAllocate) \cap Elements(given) = {}
    BY <1>1, <1>2
  <2>2. /\ freeDocIDs' \in Seq(DocIDs)
        /\ Distinct(freeDocIDs')
        /\ Elements(freeDocIDs') = Elements(FreeAfterAllocate) \cup Elements(given)
    BY <1>1, <1>2, <1>3, <2>1, ConcatDistinct
  <2> QED
    BY <1>1, <1>2, <2>2
<1>5. /\ UNCHANGED <<objects, ticketsByDocID, ticketIDToDocID, active, oldestTickets>>
      /\ reply' = Failed("invalid")
  BY DEF AddInvalid
<1>6. LiveDocIDs' = LiveDocIDs /\ LiveRefs' = LiveRefs
  BY <1>5 DEF LiveDocIDs, LiveRefs
<1>7. reply' \in [outcome : Outcomes, value : Nat] /\ reply'.outcome # "panic"
  BY <1>5 DEF Failed, Outcomes
<1>8. TypeOK'
  BY <1>1, <1>4, <1>5, <1>7 DEF TypeOK
<1>9. DocIDsPartitioned'
  <2>1. FreeDocIDs' = FreeDocIDs \cup {AllocatedDocID}
    BY <1>4 DEF FreeDocIDs, Elements
  <2>2. IssuedDocIDs' = IssuedDocIDs \cup {AllocatedDocID}
    BY <1>1 DEF IssuedDocIDs, Issued
  <2> QED
    BY <1>1, <1>4, <1>6, <2>1, <2>2 DEF DocIDsPartitioned, Distinct
<1>10. IndexesAgree'
  BY <1>5, <1>6, <1>7 DEF IndexesAgree, Stored
<1>11. LiveInOldest'
  BY <1>5, <1>6 DEF LiveInOldest
<1> QED
  BY <1>8, <1>9, <1>10, <1>11

(* Steps that leave the indexes alone and report no panic.                 *)
LEMMA OutcomeInv ==
  ASSUME StoreInv,
         reply' \in [outcome : Outcomes, value : Nat], reply'.outcome # "panic",
         UNCHANGED <<nextDocID, freeDocIDs, objects, ticketsByDocID, ticketIDToDocID,
                     active>>,
         oldestTickets' \subseteq oldestTickets, LiveRefs \subseteq oldestTickets'
  PROVE  StoreInv'
<1>1. /\ LiveDocIDs' = LiveDocIDs /\ LiveRefs' = LiveRefs
      /\ FreeDocIDs' = FreeDocIDs /\ IssuedDocIDs' = IssuedDocIDs
  BY DEF LiveDocIDs, LiveRefs, FreeDocIDs, IssuedDocIDs
<1>2. TypeOK'
  BY DEF StoreInv, TypeOK
<1>3. DocIDsPartitioned'
  BY <1>1 DEF StoreInv, DocIDsPartitioned
<1>4. IndexesAgree'
  BY <1>1 DEF StoreInv, IndexesAgree, Stored
<1> QED
  BY <1>1, <1>2, <1>3, <1>4 DEF StoreInv, LiveInOldest

(* Removing distinct live DocIDs frees them and changes nothing else; the  *)
(* consistency panic is not raised.                                        *)
LEMMA RemoveDocIDsInv ==
  ASSUME StoreInv, NEW docs \in Seq(DocIDs), Distinct(docs),
         Elements(docs) \subseteq LiveDocIDs, RemoveDocIDs(docs)
  PROVE  StoreInv' /\ LiveDocIDs' = LiveDocIDs \ Elements(docs)
<1> DEFINE gone == Elements(docs)
<1> USE DEF StoreInv
<1>1. /\ ticketsByDocID' = [d \in DocIDs |-> IF d \in gone THEN 0 ELSE ticketsByDocID[d]]
      /\ ticketIDToDocID' = [id \in TicketIDs |-> IF ticketIDToDocID[id] \in gone
                                                  THEN 0 ELSE ticketIDToDocID[id]]
      /\ active' = active \ gone
      /\ freeDocIDs' = freeDocIDs \o docs
      /\ reply' = Ok
      /\ UNCHANGED <<nextDocID, objects, oldestTickets>>
  <2>1. gone \subseteq active
    BY DEF IndexesAgree
  <2> QED
    BY <2>1 DEF RemoveDocIDs, TicketIDsWithout, ActiveWithout, Elements
<1>2. LiveDocIDs' = LiveDocIDs \ gone
  BY <1>1 DEF LiveDocIDs
<1>3. /\ freeDocIDs' \in Seq(DocIDs)
      /\ Distinct(freeDocIDs')
      /\ Elements(freeDocIDs') = FreeDocIDs \cup gone
  <2>1. /\ freeDocIDs \in Seq(DocIDs) /\ Distinct(freeDocIDs)
        /\ Elements(freeDocIDs) = FreeDocIDs
    BY DEF TypeOK, DocIDsPartitioned, Distinct, Elements, FreeDocIDs
  <2>2. Elements(freeDocIDs) \cap gone = {}
    BY <2>1 DEF DocIDsPartitioned
  <2> QED
    BY <1>1, <2>1, <2>2, ConcatDistinct
<1>4. TypeOK'
  <2>1. ticketsByDocID' \in [DocIDs -> 0..Len(objects)]
    BY <1>1, LenProperties DEF TypeOK
  <2>2. ticketIDToDocID' \in [TicketIDs -> 0..MaxDocID]
    BY <1>1, StoreAssumption DEF TypeOK
  <2>3. reply' \in [outcome : Outcomes, value : Nat]
    BY <1>1 DEF Ok, Outcomes
  <2> QED
    BY <1>1, <1>3, <2>1, <2>2, <2>3 DEF TypeOK
<1>5. DocIDsPartitioned'
  <2>1. FreeDocIDs' = FreeDocIDs \cup gone
    BY <1>3 DEF FreeDocIDs, Elements
  <2>2. IssuedDocIDs' = IssuedDocIDs
    BY <1>1 DEF IssuedDocIDs
  <2> QED
    BY <1>2, <1>3, <2>1, <2>2 DEF DocIDsPartitioned, Distinct
<1>6. IndexesAgree'
  <2>1. active' = LiveDocIDs'
    BY <1>1, <1>2 DEF IndexesAgree
  <2>2. ASSUME NEW id \in TicketIDs, ticketIDToDocID'[id] # 0
        PROVE  Stored(id)' # 0 /\ objects'[Stored(id)'].ticketID = id
    <3>1. /\ ticketIDToDocID'[id] = ticketIDToDocID[id]
          /\ ticketIDToDocID[id] \notin gone /\ ticketIDToDocID[id] # 0
      BY <1>1, <2>2
    <3>2. ticketIDToDocID[id] \in DocIDs /\ Stored(id) \in DOMAIN objects
          /\ objects[Stored(id)].ticketID = id
      BY <3>1, LiveFacts DEF LiveDocIDs
    <3>3. Stored(id)' = Stored(id)
      BY <1>1, <3>1, <3>2 DEF Stored
    <3> QED
      BY <1>1, <3>1, <3>2, <3>3 DEF IndexesAgree
  <2>3. ASSUME NEW d \in LiveDocIDs'
        PROVE  /\ objects'[ticketsByDocID'[d]].docID = d
               /\ ticketIDToDocID'[objects'[ticketsByDocID'[d]].ticketID] = d
    <3>1. d \in LiveDocIDs /\ d \notin gone
      BY <1>2, <2>3
    <3>2. objects'[ticketsByDocID'[d]] = objects[ticketsByDocID[d]]
      BY <1>1, <3>1 DEF LiveDocIDs
    <3>3. /\ objects[ticketsByDocID[d]].docID = d
          /\ ticketIDToDocID[objects[ticketsByDocID[d]].ticketID] = d
      BY <3>1 DEF IndexesAgree
    <3>4. objects[ticketsByDocID[d]].ticketID \in TicketIDs
      BY <3>1, LiveFacts DEF Object
    <3> QED
      BY <1>1, <3>1, <3>2, <3>3, <3>4
  <2>4. reply'.outcome # "panic"
    BY <1>1 DEF Ok
  <2> QED
    BY <2>1, <2>2, <2>3, <2>4 DEF IndexesAgree
<1>7. LiveInOldest'
  BY <1>1, <1>2 DEF LiveInOldest, LiveRefs, LiveDocIDs
<1> QED
  BY <1>2, <1>4, <1>5, <1>6, <1>7

LEMMA RemoveInv ==
  ASSUME StoreInv, NEW id \in TicketIDs, Remove(id)
  PROVE  StoreInv'
<1> USE DEF StoreInv
<1>1. CASE ticketIDToDocID[id] # 0
  <2> DEFINE docs == <<ticketIDToDocID[id]>>
  <2>1. ticketIDToDocID[id] \in LiveDocIDs
    BY <1>1, LiveFacts
  <2>2. /\ docs \in Seq(DocIDs) /\ Distinct(docs)
        /\ Elements(docs) \subseteq LiveDocIDs
    BY <2>1 DEF Distinct, Elements, LiveDocIDs
  <2>3. RemoveDocIDs(docs)
    BY <1>1 DEF Remove
  <2> HIDE DEF docs
  <2> QED
    BY <2>2, <2>3, RemoveDocIDsInv
<1>2. CASE ticketIDToDocID[id] = 0
  <2>1. /\ reply' = Failed("absent")
        /\ UNCHANGED <<nextDocID, freeDocIDs, objects, ticketsByDocID,
                       ticketIDToDocID, active, oldestTickets>>
    BY <1>2 DEF Remove
  <2>2. reply' \in [outcome : Outcomes, value : Nat] /\ reply'.outcome # "panic"
    BY <2>1 DEF Failed, Outcomes
  <2> QED
    BY <2>1, <2>2, OutcomeInv DEF LiveInOldest
<1> QED
  BY <1>1, <1>2

(* A committable match names distinct tickets, hence distinct live DocIDs. *)
LEMMA CommitFacts ==
  ASSUME TypeOK, IndexesAgree, NEW match \in Matches, Committable(match)
  PROVE  LET docs == [i \in DOMAIN match |-> ticketIDToDocID[match[i].ticketID]]
         IN /\ docs \in Seq(DocIDs)
            /\ DOMAIN docs = DOMAIN match
            /\ Distinct(docs)
            /\ Elements(docs) \subseteq LiveDocIDs
            /\ \A i \in DOMAIN match : /\ match[i].ticketID \in TicketIDs
                                       /\ ticketsByDocID[docs[i]] = match[i].ref
<1> DEFINE docs == [i \in DOMAIN match |-> ticketIDToDocID[match[i].ticketID]]
<1>1. PICK n \in 1..MaxGroup : match \in [1..n -> Pointers]
  BY DEF Matches
<1>2. n \in Nat /\ DOMAIN match = 1..n
  BY <1>1, StoreAssumption
<1>3. ASSUME NEW p \in Pointers PROVE p.ticketID \in TicketIDs
  <2>1. CASE p \in [ticketID : TicketIDs, ref : {0}]
    BY <2>1
  <2>2. CASE \E r \in DOMAIN objects : p = [ticketID |-> objects[r].ticketID, ref |-> r]
    <3>1. PICK r \in DOMAIN objects : p = [ticketID |-> objects[r].ticketID, ref |-> r]
      BY <2>2
    <3>2. objects[r] \in Object
      BY <3>1, LenProperties, ElementOfSeq DEF TypeOK
    <3> QED
      BY <3>1, <3>2 DEF Object
  <2> QED
    BY <2>1, <2>2 DEF Pointers
<1>4. ASSUME NEW i \in 1..n
      PROVE  /\ match[i].ticketID \in TicketIDs
             /\ ticketIDToDocID[match[i].ticketID] # 0
             /\ Stored(match[i].ticketID) = match[i].ref
             /\ docs[i] = ticketIDToDocID[match[i].ticketID]
             /\ docs[i] \in LiveDocIDs
  <2>1. match[i].ticketID \in TicketIDs
    BY <1>1, <1>3
  <2>2. ticketIDToDocID[match[i].ticketID] # 0 /\ Stored(match[i].ticketID) = match[i].ref
    BY <1>2 DEF Committable
  <2>3. ticketIDToDocID[match[i].ticketID] \in LiveDocIDs
    BY <2>1, <2>2, LiveFacts
  <2> QED
    BY <1>2, <2>1, <2>2, <2>3
<1>5. DOMAIN docs = 1..n
  BY <1>2
<1>6. docs \in Seq(DocIDs)
  BY <1>2, <1>4, <1>5 DEF LiveDocIDs
<1>7. Distinct(docs)
  <2> SUFFICES ASSUME NEW i \in 1..n, NEW j \in 1..n, docs[i] = docs[j]
               PROVE  i = j
    BY <1>5 DEF Distinct
  <2>1. match[i].ticketID = match[j].ticketID
    BY <1>4, LiveFacts
  <2> QED
    BY <1>2, <2>1 DEF Committable
<1>8. Elements(docs) \subseteq LiveDocIDs
  BY <1>4, <1>5 DEF Elements
<1>9. \A i \in DOMAIN match : /\ match[i].ticketID \in TicketIDs
                             /\ ticketsByDocID[docs[i]] = match[i].ref
  BY <1>2, <1>4 DEF Stored
<1> QED
  BY <1>2, <1>5, <1>6, <1>7, <1>8, <1>9

LEMMA CommitInv ==
  ASSUME StoreInv, NEW match \in Matches, Commit(match)
  PROVE  StoreInv'
<1> USE DEF StoreInv
<1>1. CASE Committable(match)
  <2> DEFINE docs == [i \in DOMAIN match |-> ticketIDToDocID[match[i].ticketID]]
  <2>1. docs \in Seq(DocIDs) /\ Distinct(docs) /\ Elements(docs) \subseteq LiveDocIDs
    BY <1>1, CommitFacts
  <2>2. RemoveDocIDs(docs)
    BY <1>1 DEF Commit
  <2> HIDE DEF docs
  <2> QED
    BY <2>1, <2>2, RemoveDocIDsInv
<1>2. CASE ~Committable(match)
  <2>1. /\ reply' = Failed("rejected")
        /\ UNCHANGED <<nextDocID, freeDocIDs, objects, ticketsByDocID,
                       ticketIDToDocID, active, oldestTickets>>
    BY <1>2 DEF Commit
  <2>2. reply' \in [outcome : Outcomes, value : Nat] /\ reply'.outcome # "panic"
    BY <2>1 DEF Failed, Outcomes
  <2> QED
    BY <2>1, <2>2, OutcomeInv DEF LiveInOldest
<1> QED
  BY <1>1, <1>2

-------------------------------------------------------------------------------
(* A heap entry is live when it is the object its DocID holds now.         *)
LEMMA LivenessTest ==
  ASSUME TypeOK, IndexesAgree, NEW r \in 1..Len(objects)
  PROVE  IsLive(r) <=> r \in LiveRefs
<1>1. objects[r] \in Object
  BY ElementOfSeq DEF TypeOK
<1>2. r # 0
  BY LenProperties DEF TypeOK
<1>3. IsLive(r) => r \in LiveRefs
  BY <1>1, <1>2 DEF IsLive, LiveRefs, LiveDocIDs, Object
<1>4. ASSUME r \in LiveRefs PROVE IsLive(r)
  <2>1. PICK d \in LiveDocIDs : r = ticketsByDocID[d]
    BY <1>4 DEF LiveRefs
  <2>2. objects[r].docID = d
    BY <2>1 DEF IndexesAgree
  <2> QED
    BY <2>1, <2>2 DEF IsLive
<1> QED
  BY <1>3, <1>4

LEMMA OldestCreatedAtInv ==
  ASSUME StoreInv, OldestCreatedAt
  PROVE  StoreInv' /\ OldestIsExact' /\ reply'.outcome # "exhausted"
<1> USE DEF StoreInv
<1> DEFINE dead == {r \in oldestTickets : ~IsLive(r)}
<1>1. UNCHANGED <<nextDocID, freeDocIDs, objects, ticketsByDocID, ticketIDToDocID, active>>
  BY DEF OldestCreatedAt
<1>2. LiveRefs' = LiveRefs
  BY <1>1 DEF LiveRefs, LiveDocIDs
<1>3. LiveRefs \subseteq oldestTickets /\ oldestTickets \subseteq 1..Len(objects)
  BY DEF LiveInOldest, TypeOK
<1>4. \A r \in oldestTickets : r \in dead <=> r \notin LiveRefs
  BY <1>3, LivenessTest
<1>5. \A r \in 1..Len(objects) : objects[r].createdAt \in Nat /\ objects[r].docID \in Nat
  <2> SUFFICES ASSUME NEW r \in 1..Len(objects)
               PROVE  objects[r].createdAt \in Nat /\ objects[r].docID \in Nat
    OBVIOUS
  <2>1. objects[r] \in Object
    BY ElementOfSeq DEF TypeOK
  <2>2. objects[r].createdAt \in CreatedAts /\ objects[r].docID \in 1..MaxDocID
    BY <2>1 DEF Object, DocIDs
  <2>3. CreatedAts \subseteq Nat /\ 1..MaxDocID \subseteq Nat
    BY StoreAssumption
  <2> QED
    BY <2>2, <2>3
<1>6. CASE \E top \in oldestTickets \ dead, popped \in SUBSET dead :
             /\ \A r \in oldestTickets \ popped : ~Before(r, top)
             /\ oldestTickets' = oldestTickets \ popped
             /\ reply' = [outcome |-> "oldest", value |-> objects[top].createdAt]
  <2>1. PICK top \in oldestTickets \ dead, popped \in SUBSET dead :
             /\ \A r \in oldestTickets \ popped : ~Before(r, top)
             /\ oldestTickets' = oldestTickets \ popped
             /\ reply' = [outcome |-> "oldest", value |-> objects[top].createdAt]
    BY <1>6
  <2>2. top \in LiveRefs /\ top \in 1..Len(objects)
    BY <1>3, <1>4, <2>1
  <2>3. LiveRefs \subseteq oldestTickets'
    BY <1>3, <1>4, <2>1
  <2>4. reply'.outcome = "oldest" /\ reply'.value = objects[top].createdAt
    BY <2>1
  <2>5. reply' \in [outcome : Outcomes, value : Nat]
    BY <1>5, <2>1, <2>2 DEF Outcomes
  <2>6. StoreInv'
    BY <1>1, <2>1, <2>3, <2>4, <2>5, OutcomeInv
  <2>7. ASSUME NEW r \in LiveRefs PROVE objects[top].createdAt <= objects[r].createdAt
    <3>1. ~Before(r, top) /\ r \in 1..Len(objects)
      BY <1>3, <2>1, <2>3
    <3> QED
      BY <1>5, <2>2, <3>1 DEF Before
  <2>8. OldestIsExact'
    BY <1>1, <1>2, <2>2, <2>3, <2>4, <2>7 DEF OldestIsExact
  <2> QED
    BY <2>4, <2>6, <2>8
<1>7. CASE /\ oldestTickets \subseteq dead
           /\ oldestTickets' = {}
           /\ reply' = Failed("empty")
  <2>1. LiveRefs = {}
    BY <1>3, <1>4, <1>7
  <2>2. /\ reply' \in [outcome : Outcomes, value : Nat]
        /\ reply'.outcome = "empty"
    BY <1>7 DEF Failed, Outcomes
  <2>3. StoreInv'
    BY <1>1, <1>7, <2>1, <2>2, OutcomeInv
  <2> QED
    BY <1>2, <2>1, <2>2, <2>3 DEF OldestIsExact
<1> QED
  BY <1>6, <1>7 DEF OldestCreatedAt

LEMMA AddRefusedInv ==
  ASSUME StoreInv, NEW id \in TicketIDs, AddRefused(id)
  PROVE  /\ StoreInv'
         /\ reply'.outcome \in {"duplicate", "exhausted"}
         /\ reply'.outcome = "exhausted" => LiveDocIDs' = DocIDs
<1> USE DEF StoreInv
<1>1. UNCHANGED <<nextDocID, freeDocIDs, objects, ticketsByDocID, ticketIDToDocID,
                  active, oldestTickets>>
  BY DEF AddRefused
<1>2. LiveDocIDs' = LiveDocIDs
  BY <1>1 DEF LiveDocIDs
<1>3. \/ reply' = Failed("duplicate")
      \/ reply' = Failed("exhausted") /\ ~CanAllocate
  BY DEF AddRefused
<1>4. /\ reply' \in [outcome : Outcomes, value : Nat]
      /\ reply'.outcome \in {"duplicate", "exhausted"}
      /\ reply'.outcome = "exhausted" => ~CanAllocate
  BY <1>3 DEF Failed, Outcomes
<1>5. StoreInv'
  BY <1>1, <1>4, OutcomeInv DEF LiveInOldest
<1>6. ASSUME ~CanAllocate PROVE LiveDocIDs = DocIDs
  <2>1. nextDocID = 0 /\ freeDocIDs = <<>>
    BY <1>6 DEF CanAllocate, Recyclable
  <2>2. FreeDocIDs = {} /\ IssuedDocIDs = DocIDs
    BY <2>1 DEF FreeDocIDs, IssuedDocIDs
  <2> QED
    BY <2>2 DEF DocIDsPartitioned
<1> QED
  BY <1>2, <1>4, <1>5, <1>6

-------------------------------------------------------------------------------
IInv == StoreInv /\ OldestIsExact /\ ExhaustedOnlyWhenFull

(* Calls other than oldestCreatedAt and a refused Add answer neither       *)
(* "oldest" nor "empty" nor "exhausted".                                   *)
LEMMA OtherOutcomes ==
  ASSUME StoreInv',
         reply'.outcome \notin {"oldest", "empty", "exhausted"}
  PROVE  IInv'
BY DEF IInv, StoreInv, OldestIsExact, ExhaustedOnlyWhenFull, LiveInOldest

LEMMA Inductive == IInv /\ [Next]_vars => IInv'
<1> SUFFICES ASSUME IInv, [Next]_vars PROVE IInv'
  OBVIOUS
<1> USE DEF IInv
<1>1. ASSUME NEW id \in TicketIDs, NEW t \in CreatedAts, Add(id, t) PROVE IInv'
  <2>1. reply'.outcome = "ok"
    BY <1>1 DEF Add, Ok
  <2> QED
    BY <1>1, <2>1, AddInv, OtherOutcomes
<1>2. ASSUME NEW id \in TicketIDs, AddInvalid(id) PROVE IInv'
  <2>1. reply'.outcome = "invalid"
    BY <1>2 DEF AddInvalid, Failed
  <2> QED
    BY <1>2, <2>1, AddInvalidInv, OtherOutcomes
<1>3. ASSUME NEW id \in TicketIDs, AddRefused(id) PROVE IInv'
  <2>1. /\ StoreInv' /\ reply'.outcome \in {"duplicate", "exhausted"}
        /\ reply'.outcome = "exhausted" => LiveDocIDs' = DocIDs
    BY <1>3, AddRefusedInv
  <2> QED
    BY <2>1 DEF StoreInv, OldestIsExact, ExhaustedOnlyWhenFull, LiveInOldest
<1>4. ASSUME NEW id \in TicketIDs, Remove(id) PROVE IInv'
  <2>1. reply'.outcome \in {"ok", "panic", "absent"}
    BY <1>4 DEF Remove, RemoveDocIDs, Ok, Failed
  <2> QED
    BY <1>4, <2>1, RemoveInv, OtherOutcomes
<1>5. ASSUME NEW match \in Matches, Commit(match) PROVE IInv'
  <2>1. reply'.outcome \in {"ok", "panic", "rejected"}
    BY <1>5 DEF Commit, RemoveDocIDs, Ok, Failed
  <2> QED
    BY <1>5, <2>1, CommitInv, OtherOutcomes
<1>6. CASE OldestCreatedAt
  BY <1>6, OldestCreatedAtInv DEF ExhaustedOnlyWhenFull
<1>7. CASE UNCHANGED vars
  <2>1. /\ LiveRefs' = LiveRefs /\ LiveDocIDs' = LiveDocIDs
        /\ FreeDocIDs' = FreeDocIDs /\ IssuedDocIDs' = IssuedDocIDs
    BY <1>7 DEF vars, LiveRefs, LiveDocIDs, FreeDocIDs, IssuedDocIDs
  <2>2. TypeOK'
    BY <1>7 DEF vars, StoreInv, TypeOK
  <2>3. DocIDsPartitioned'
    BY <1>7, <2>1 DEF vars, StoreInv, DocIDsPartitioned
  <2>4. IndexesAgree'
    BY <1>7, <2>1 DEF vars, StoreInv, IndexesAgree, Stored
  <2>5. OldestIsExact' /\ LiveInOldest'
    BY <1>7, <2>1 DEF vars, StoreInv, OldestIsExact, LiveInOldest
  <2>6. ExhaustedOnlyWhenFull'
    BY <1>7, <2>1 DEF vars, ExhaustedOnlyWhenFull
  <2> QED
    BY <2>2, <2>3, <2>4, <2>5, <2>6 DEF StoreInv
<1> QED
  BY <1>1, <1>2, <1>3, <1>4, <1>5, <1>6, <1>7 DEF Next

LEMMA InitIInv == Init => IInv
<1> SUFFICES ASSUME Init PROVE IInv
  OBVIOUS
<1>1. StoreInv
  BY InitInv
<1>2. reply.outcome = "ok"
  BY DEF Init, Ok
<1> QED
  BY <1>1, <1>2 DEF IInv, StoreInv, OldestIsExact, ExhaustedOnlyWhenFull, LiveInOldest

(* The invariant the results below are read off from.                      *)
THEOREM Invariant == Spec => []IInv
BY InitIInv, Inductive, PTL DEF Spec

(* Every reachable state of the store is well typed.                       *)
THEOREM TypeCorrect == Spec => []TypeOK
<1>1. IInv => TypeOK
  BY DEF IInv, StoreInv
<1> QED
  BY <1>1, Invariant, PTL

(* DocIDs neither leak nor are handed out twice, however many are issued,  *)
(* recycled and refused, and also after the counter has wrapped.           *)
THEOREM NoDocIDLost == Spec => []DocIDsPartitioned
<1>1. IInv => DocIDsPartitioned
  BY DEF IInv, StoreInv
<1> QED
  BY <1>1, Invariant, PTL

(* The indexes never drift apart, so removeDocID never panics.             *)
THEOREM NoPanic == Spec => []IndexesAgree
<1>1. IInv => IndexesAgree
  BY DEF IInv, StoreInv
<1> QED
  BY <1>1, Invariant, PTL

(* The oldest waiting time is exact although the heap keeps dead objects.  *)
THEOREM OldestExact == Spec => []OldestIsExact
<1>1. IInv => OldestIsExact
  BY DEF IInv
<1> QED
  BY <1>1, Invariant, PTL

(* Exhaustion is reported only when every DocID is in use.                 *)
THEOREM ExhaustionExact == Spec => []ExhaustedOnlyWhenFull
<1>1. IInv => ExhaustedOnlyWhenFull
  BY DEF IInv
<1> QED
  BY <1>1, Invariant, PTL

-------------------------------------------------------------------------------
(* A step that removes DocIDs takes out exactly the objects under them.    *)
LEMMA RemovedRefs ==
  ASSUME StoreInv, NEW docs \in Seq(DocIDs), Distinct(docs),
         Elements(docs) \subseteq LiveDocIDs, RemoveDocIDs(docs)
  PROVE  LiveRefs \ LiveRefs' = {ticketsByDocID[d] : d \in Elements(docs)}
<1> USE DEF StoreInv
<1>1. LiveDocIDs' = LiveDocIDs \ Elements(docs)
  BY RemoveDocIDsInv
<1>2. \A d \in LiveDocIDs' : ticketsByDocID'[d] = ticketsByDocID[d]
  BY <1>1 DEF RemoveDocIDs, Elements, LiveDocIDs
<1>3. LiveRefs' = {ticketsByDocID[d] : d \in LiveDocIDs \ Elements(docs)}
  BY <1>1, <1>2 DEF LiveRefs
<1>4. \A d, e \in LiveDocIDs : ticketsByDocID[d] = ticketsByDocID[e] => d = e
  BY DEF IndexesAgree
<1> QED
  BY <1>3, <1>4 DEF LiveRefs

LEMMA CommitConsumes ==
  ASSUME StoreInv, NEW match \in Matches, Commit(match)
  PROVE  LiveRefs \ LiveRefs' \in {{}, {match[i].ref : i \in DOMAIN match}}
<1> USE DEF StoreInv
<1>1. CASE Committable(match)
  <2> DEFINE docs == [i \in DOMAIN match |-> ticketIDToDocID[match[i].ticketID]]
  <2>1. /\ docs \in Seq(DocIDs) /\ Distinct(docs) /\ Elements(docs) \subseteq LiveDocIDs
        /\ DOMAIN docs = DOMAIN match
        /\ \A i \in DOMAIN match : ticketsByDocID[docs[i]] = match[i].ref
    BY <1>1, CommitFacts
  <2>2. RemoveDocIDs(docs)
    BY <1>1 DEF Commit
  <2> HIDE DEF docs
  <2>3. LiveRefs \ LiveRefs' = {ticketsByDocID[d] : d \in Elements(docs)}
    BY <2>1, <2>2, RemovedRefs
  <2>4. {ticketsByDocID[d] : d \in Elements(docs)} = {match[i].ref : i \in DOMAIN match}
    BY <2>1 DEF Elements
  <2> QED
    BY <2>3, <2>4
<1>2. CASE ~Committable(match)
  <2>1. LiveRefs' = LiveRefs
    BY <1>2 DEF Commit, LiveRefs, LiveDocIDs
  <2> QED
    BY <2>1
<1> QED
  BY <1>1, <1>2

(* Commit consumes all the objects its match points to or none, whatever   *)
(* the caller's pointers are.                                              *)
THEOREM CommitAtomic == Spec => CommitAllOrNothing
<1>1. IInv => [\A match \in Matches : Commit(match) =>
                 LiveRefs \ LiveRefs' \in {{}, {match[i].ref : i \in DOMAIN match}}]_vars
  BY CommitConsumes DEF IInv
<1> QED
  BY <1>1, Invariant, PTL DEF CommitAllOrNothing

-------------------------------------------------------------------------------
(* The refinement mapping to TicketPool.                                   *)
PoolMap == [id \in TicketIDs |-> IF ticketIDToDocID[id] = 0 THEN 0 ELSE Stored(id)]

LEMMA AddPool ==
  ASSUME StoreInv, NEW id \in TicketIDs, NEW created \in CreatedAts, Add(id, created)
  PROVE  Pool!PoolAdd(id)
<1> USE DEF StoreInv
<1> DEFINE docID == AllocatedDocID
           ref == Len(objects) + 1
<1>1. docID \in DocIDs \ LiveDocIDs /\ docID # 0
  BY Allocation DEF Add, DocIDs
<1>2. /\ ticketIDToDocID[id] = 0
      /\ Len(objects) < MaxTickets
      /\ ticketsByDocID' = [ticketsByDocID EXCEPT ![docID] = ref]
      /\ ticketIDToDocID' = [ticketIDToDocID EXCEPT ![id] = docID]
  BY DEF Add
<1>3. Len(objects') = ref
  <2>1. PICK object : objects' = Append(objects, object) /\ object \in Object
    <3>1. [ticketID |-> id, docID |-> docID, createdAt |-> created] \in Object
      BY <1>1 DEF Object
    <3> QED
      BY <3>1 DEF Add
  <2> QED
    BY <2>1, AppendProperties DEF TypeOK
<1>4. ASSUME NEW jd \in TicketIDs
      PROVE  PoolMap'[jd] = IF jd = id THEN ref ELSE PoolMap[jd]
  <2>1. CASE jd = id
    BY <1>1, <1>2, <2>1 DEF PoolMap, Stored, TypeOK
  <2>2. CASE jd # id /\ ticketIDToDocID[jd] = 0
    BY <1>2, <2>2 DEF PoolMap, TypeOK
  <2>3. CASE jd # id /\ ticketIDToDocID[jd] # 0
    <3>1. ticketIDToDocID[jd] \in LiveDocIDs
      BY <2>3, LiveFacts
    <3>2. ticketIDToDocID'[jd] = ticketIDToDocID[jd]
      BY <1>2, <2>3 DEF TypeOK
    <3>3. Stored(jd)' = Stored(jd)
      BY <1>1, <1>2, <3>1, <3>2 DEF Stored, TypeOK, LiveDocIDs
    <3> QED
      BY <2>3, <3>2, <3>3 DEF PoolMap
  <2> QED
    BY <2>1, <2>2, <2>3
<1>5. PoolMap' = [PoolMap EXCEPT ![id] = ref]
  BY <1>4 DEF PoolMap
<1> QED
  BY <1>2, <1>3, <1>5 DEF Pool!PoolAdd, PoolMap

LEMMA RemoveDocIDsPool ==
  ASSUME StoreInv, NEW docs \in Seq(DocIDs), Distinct(docs),
         Elements(docs) \subseteq LiveDocIDs, RemoveDocIDs(docs),
         NEW ids \in SUBSET TicketIDs, ids # {},
         \A id \in TicketIDs : id \in ids <=> ticketIDToDocID[id] \in Elements(docs)
  PROVE  Pool!PoolTake(ids)
<1> USE DEF StoreInv
<1>1. /\ ticketsByDocID' =
           [d \in DocIDs |-> IF d \in Elements(docs) THEN 0 ELSE ticketsByDocID[d]]
      /\ ticketIDToDocID' =
           [id \in TicketIDs |-> IF ticketIDToDocID[id] \in Elements(docs)
                                THEN 0 ELSE ticketIDToDocID[id]]
      /\ objects' = objects
  BY DEF RemoveDocIDs, TicketIDsWithout, Elements
<1>2. ids \subseteq Pool!LiveIDs
  BY LiveFacts, LenProperties DEF Pool!LiveIDs, LiveDocIDs, DocIDs, TypeOK
<1>3. ASSUME NEW id \in TicketIDs
      PROVE  PoolMap'[id] = IF id \in ids THEN 0 ELSE PoolMap[id]
  <2>1. CASE id \in ids
    BY <1>1, <2>1 DEF PoolMap
  <2>2. CASE id \notin ids /\ ticketIDToDocID[id] = 0
    BY <1>1, <2>2 DEF PoolMap
  <2>3. CASE id \notin ids /\ ticketIDToDocID[id] # 0
    <3>1. ticketIDToDocID[id] \in DocIDs
      BY <2>3, LiveFacts DEF LiveDocIDs
    <3>2. ticketIDToDocID'[id] = ticketIDToDocID[id]
      BY <1>1, <2>3
    <3>3. Stored(id)' = Stored(id)
      BY <1>1, <2>3, <3>1, <3>2 DEF Stored
    <3> QED
      BY <2>3, <3>2, <3>3 DEF PoolMap
  <2> QED
    BY <2>1, <2>2, <2>3
<1>4. PoolMap' = [id \in TicketIDs |-> IF id \in ids THEN 0 ELSE PoolMap[id]]
  BY <1>3 DEF PoolMap
<1> QED
  BY <1>1, <1>2, <1>4 DEF Pool!PoolTake, PoolMap

(* Steps that change neither map nor the objects are stutters of the pool. *)
LEMMA PoolStutter ==
  ASSUME UNCHANGED <<objects, ticketsByDocID, ticketIDToDocID>>
  PROVE  UNCHANGED Pool!poolVars
BY DEF Pool!poolVars, Stored

LEMMA PoolStep == IInv /\ [Next]_vars => [Pool!PoolNext]_(Pool!poolVars)
<1> SUFFICES ASSUME IInv, [Next]_vars PROVE [Pool!PoolNext]_(Pool!poolVars)
  OBVIOUS
<1> USE DEF IInv
<1>1. ASSUME NEW id \in TicketIDs, NEW t \in CreatedAts, Add(id, t) PROVE Pool!PoolNext
  BY <1>1, AddPool DEF Pool!PoolNext
<1>2. ASSUME NEW id \in TicketIDs, AddInvalid(id) \/ AddRefused(id)
      PROVE  UNCHANGED Pool!poolVars
  BY <1>2, PoolStutter DEF AddInvalid, AddRefused
<1>3. ASSUME NEW id \in TicketIDs, Remove(id) PROVE [Pool!PoolNext]_(Pool!poolVars)
  <2>1. CASE ticketIDToDocID[id] # 0
    <3> DEFINE docs == <<ticketIDToDocID[id]>>
    <3>1. ticketIDToDocID[id] \in LiveDocIDs
      BY <2>1, LiveFacts DEF StoreInv
    <3>2. /\ docs \in Seq(DocIDs) /\ Distinct(docs)
          /\ Elements(docs) = {ticketIDToDocID[id]}
      BY <3>1 DEF Distinct, Elements, LiveDocIDs
    <3>3. RemoveDocIDs(docs)
      BY <1>3, <2>1 DEF Remove
    <3>4. \A jd \in TicketIDs : jd \in {id} <=> ticketIDToDocID[jd] \in Elements(docs)
      BY <2>1, <3>2, LiveFacts DEF StoreInv
    <3> HIDE DEF docs
    <3>5. Pool!PoolTake({id})
      BY <3>1, <3>2, <3>3, <3>4, RemoveDocIDsPool
    <3> QED
      BY <3>5 DEF Pool!PoolNext
  <2>2. CASE ticketIDToDocID[id] = 0
    BY <1>3, <2>2, PoolStutter DEF Remove
  <2> QED
    BY <2>1, <2>2
<1>4. ASSUME NEW match \in Matches, Commit(match) PROVE [Pool!PoolNext]_(Pool!poolVars)
  <2>1. CASE Committable(match)
    <3> DEFINE docs == [i \in DOMAIN match |-> ticketIDToDocID[match[i].ticketID]]
               ids == {match[i].ticketID : i \in DOMAIN match}
    <3>1. /\ docs \in Seq(DocIDs) /\ Distinct(docs) /\ Elements(docs) \subseteq LiveDocIDs
          /\ DOMAIN docs = DOMAIN match
          /\ \A i \in DOMAIN match : match[i].ticketID \in TicketIDs
      BY <2>1, CommitFacts DEF StoreInv
    <3>2. RemoveDocIDs(docs)
      BY <1>4, <2>1 DEF Commit
    <3>3. ids \in SUBSET TicketIDs /\ ids # {}
      <4>1. PICK n \in 1..MaxGroup : match \in [1..n -> Pointers]
        BY DEF Matches
      <4>2. 1 \in DOMAIN match
        BY <4>1, StoreAssumption
      <4> QED
        BY <3>1, <4>2
    <3>4. ASSUME NEW id \in TicketIDs
          PROVE  id \in ids <=> ticketIDToDocID[id] \in Elements(docs)
      <4>1. id \in ids => ticketIDToDocID[id] \in Elements(docs)
        BY <3>1 DEF Elements
      <4>2. ASSUME ticketIDToDocID[id] \in Elements(docs) PROVE id \in ids
        <5>1. PICK i \in DOMAIN match : ticketIDToDocID[id] = ticketIDToDocID[match[i].ticketID]
          BY <3>1, <4>2 DEF Elements
        <5>2. ticketIDToDocID[id] # 0
          BY <3>1, <4>2 DEF LiveDocIDs, DocIDs
        <5>3. id = match[i].ticketID
          BY <3>1, <5>1, <5>2, LiveFacts DEF StoreInv
        <5> QED
          BY <5>3
      <4> QED
        BY <4>1, <4>2
    <3> HIDE DEF docs, ids
    <3>5. Pool!PoolTake(ids)
      BY <3>1, <3>2, <3>3, <3>4, RemoveDocIDsPool
    <3> QED
      BY <3>3, <3>5 DEF Pool!PoolNext
  <2>2. CASE ~Committable(match)
    BY <1>4, <2>2, PoolStutter DEF Commit
  <2> QED
    BY <2>1, <2>2
<1>5. CASE OldestCreatedAt
  BY <1>5, PoolStutter DEF OldestCreatedAt
<1>6. CASE UNCHANGED vars
  BY <1>6, PoolStutter DEF vars
<1> QED
  BY <1>1, <1>2, <1>3, <1>4, <1>5, <1>6 DEF Next

LEMMA PoolInitial == Init => Pool!PoolInit
BY EmptySeq DEF Init, Pool!PoolInit

(* The store implements the abstract pool LogicalNode is built on.         *)
THEOREM RefinesPool == Spec => ImplementsPool
BY PoolInitial, PoolStep, Invariant, PTL DEF Spec, ImplementsPool, Pool!PoolSpec


-------------------------------------------------------------------------------
(* The bitmap indexes beside the store, for any tickets and block size.    *)
CONSTANTS Docs, Tickets, NoValue, MaxDocumentValues, BlockSize

VARIABLES indexed, snapshots, range, multi, session

Index == INSTANCE PrefilterIndex WITH active <- indexed

(* A map from values to documents is the inverse of one from documents to  *)
(* values, or to sets of keys.                                             *)
Inverts(f, val) ==
  /\ DOMAIN f = {val[d] : d \in DOMAIN val}
  /\ \A v \in DOMAIN f : f[v] = {d \in DOMAIN val : val[d] = v}

InvertsSets(f, keys) ==
  /\ DOMAIN f = UNION {keys[d] : d \in DOMAIN keys}
  /\ \A k \in DOMAIN f : f[k] = {d \in DOMAIN keys : k \in keys[d]}

(* The document filed under one more value.                                *)
Filed(f, v, d) == Index!Put(f, v, Index!At(f, v) \cup {d})

LEMMA PutInverts ==
  ASSUME NEW f, NEW val, Inverts(f, val), NEW d, d \notin DOMAIN val, NEW v,
         NEW g, g = Filed(f, v, d),
         NEW w, w = Index!Put(val, d, v)
  PROVE  Inverts(g, w) /\ DOMAIN w = DOMAIN val \cup {d} /\ w[d] = v
           /\ \A e \in DOMAIN val : w[e] = val[e]
<1>1. /\ DOMAIN w = DOMAIN val \cup {d} /\ w[d] = v
      /\ \A e \in DOMAIN val : w[e] = val[e]
  BY DEF Index!Put
<1>2. /\ DOMAIN g = DOMAIN f \cup {v}
      /\ g[v] = Index!At(f, v) \cup {d}
      /\ \A x \in DOMAIN f : x # v => g[x] = f[x]
  BY DEF Filed, Index!Put
<1>3. Index!At(f, v) = {e \in DOMAIN val : val[e] = v}
  BY DEF Index!At, Inverts
<1>4. DOMAIN g = {w[e] : e \in DOMAIN w}
  BY <1>1, <1>2 DEF Inverts
<1>5. ASSUME NEW x \in DOMAIN g PROVE g[x] = {e \in DOMAIN w : w[e] = x}
  <2>1. CASE x = v
    BY <1>1, <1>2, <1>3, <2>1
  <2>2. CASE x # v
    <3>1. x \in DOMAIN f /\ g[x] = f[x]
      BY <1>2, <2>2
    <3>2. f[x] = {e \in DOMAIN val : val[e] = x}
      BY <3>1 DEF Inverts
    <3> QED
      BY <1>1, <2>2, <3>1, <3>2
  <2> QED
    BY <2>1, <2>2
<1> QED
  BY <1>1, <1>4, <1>5 DEF Inverts

LEMMA WithoutInverts ==
  ASSUME NEW f, NEW val, Inverts(f, val), NEW d \in DOMAIN val,
         NEW g, g = Index!Without(f, val[d], d),
         NEW w, w = Index!Restrict(val, DOMAIN val \ {d})
  PROVE  Inverts(g, w) /\ DOMAIN w = DOMAIN val \ {d}
           /\ \A e \in DOMAIN w : w[e] = val[e]
<1>1. DOMAIN w = DOMAIN val \ {d} /\ \A e \in DOMAIN w : w[e] = val[e]
  BY DEF Index!Restrict
<1>2. PICK v : v = val[d]
  OBVIOUS
<1>3. v \in DOMAIN f /\ f[v] = {e \in DOMAIN val : val[e] = v} /\ Index!At(f, v) = f[v]
  BY <1>2 DEF Inverts, Index!At
<1>4. CASE f[v] \subseteq {d}
  <2>1. DOMAIN g = DOMAIN f \ {v} /\ \A x \in DOMAIN g : g[x] = f[x]
    BY <1>2, <1>3, <1>4 DEF Index!Without, Index!Restrict
  <2>2. \A e \in DOMAIN w : w[e] # v
    BY <1>1, <1>3, <1>4
  <2>a. DOMAIN f = {val[e] : e \in DOMAIN val}
    BY DEF Inverts
  <2>b. ASSUME NEW x \in DOMAIN g PROVE \E e \in DOMAIN w : w[e] = x
    <3>1. x # v /\ x \in DOMAIN f
      BY <2>1
    <3>2. PICK e \in DOMAIN val : val[e] = x
      BY <2>a, <3>1
    <3> QED
      BY <1>1, <1>2, <3>1, <3>2
  <2>c. ASSUME NEW e \in DOMAIN w PROVE w[e] \in DOMAIN g
    BY <1>1, <2>1, <2>2, <2>a
  <2>3. DOMAIN g = {w[e] : e \in DOMAIN w}
    BY <2>b, <2>c
  <2>4. ASSUME NEW x \in DOMAIN g PROVE g[x] = {e \in DOMAIN w : w[e] = x}
    <3>1. x # v /\ g[x] = {e \in DOMAIN val : val[e] = x}
      BY <2>1 DEF Inverts
    <3> QED
      BY <1>1, <1>2, <3>1
  <2> QED
    BY <1>1, <2>3, <2>4 DEF Inverts
<1>5. CASE ~ (f[v] \subseteq {d})
  <2>1. /\ DOMAIN g = DOMAIN f /\ g[v] = f[v] \ {d}
        /\ \A x \in DOMAIN f : x # v => g[x] = f[x]
    BY <1>2, <1>3, <1>5 DEF Index!Without
  <2>2. PICK o \in DOMAIN w : w[o] = v
    BY <1>1, <1>3, <1>5
  <2>3. DOMAIN g = {w[e] : e \in DOMAIN w}
    BY <1>1, <1>2, <2>1, <2>2 DEF Inverts
  <2>4. ASSUME NEW x \in DOMAIN g PROVE g[x] = {e \in DOMAIN w : w[e] = x}
    <3>1. CASE x = v
      BY <1>1, <1>3, <2>1, <3>1
    <3>2. CASE x # v
      <4>1. g[x] = {e \in DOMAIN val : val[e] = x}
        BY <2>1, <3>2 DEF Inverts
      <4> QED
        BY <1>1, <1>2, <3>2, <4>1
    <3> QED
      BY <3>1, <3>2
  <2> QED
    BY <1>1, <2>3, <2>4 DEF Inverts
<1> QED
  BY <1>4, <1>5

LEMMA AddKeysInverts ==
  ASSUME NEW m, InvertsSets(m.postings, m.keysOf), NEW d, d \notin DOMAIN m.keysOf,
         NEW keys, keys # {}, NEW n, n = Index!AddKeys(m, d, keys)
  PROVE  /\ InvertsSets(n.postings, n.keysOf)
         /\ DOMAIN n.keysOf = DOMAIN m.keysOf \cup {d} /\ n.keysOf[d] = keys
         /\ \A e \in DOMAIN m.keysOf : n.keysOf[e] = m.keysOf[e]
<1> DEFINE f == m.postings
           w == n.keysOf
           g == n.postings
<1>1. /\ DOMAIN w = DOMAIN m.keysOf \cup {d} /\ w[d] = keys
      /\ \A e \in DOMAIN m.keysOf : w[e] = m.keysOf[e]
  BY DEF Index!AddKeys, Index!Put
<1>2. /\ DOMAIN g = DOMAIN f \cup keys
      /\ \A k \in DOMAIN g : g[k] = Index!At(f, k) \cup IF k \in keys THEN {d} ELSE {}
  BY DEF Index!AddKeys
<1>3. \A k : Index!At(f, k) = {e \in DOMAIN m.keysOf : k \in m.keysOf[e]}
  BY DEF Index!At, InvertsSets
<1> HIDE DEF f, g, w
<1>4. DOMAIN g = UNION {w[e] : e \in DOMAIN w}
  <2>1. DOMAIN f = UNION {m.keysOf[e] : e \in DOMAIN m.keysOf}
    BY DEF InvertsSets, f
  <2> QED
    BY <1>1, <1>2, <2>1
<1>5. ASSUME NEW k \in DOMAIN g PROVE g[k] = {e \in DOMAIN w : k \in w[e]}
  BY <1>1, <1>2, <1>3
<1> QED
  BY <1>1, <1>4, <1>5 DEF InvertsSets, g, w

LEMMA RemoveKeysInverts ==
  ASSUME NEW m, InvertsSets(m.postings, m.keysOf), NEW d,
         NEW n, n = Index!RemoveKeys(m, d)
  PROVE  /\ InvertsSets(n.postings, n.keysOf)
         /\ DOMAIN n.keysOf = DOMAIN m.keysOf \ {d}
         /\ \A e \in DOMAIN n.keysOf : n.keysOf[e] = m.keysOf[e]
<1> DEFINE f == m.postings
           w == n.keysOf
           g == n.postings
<1>1. DOMAIN w = DOMAIN m.keysOf \ {d} /\ \A e \in DOMAIN w : w[e] = m.keysOf[e]
  BY DEF Index!RemoveKeys, Index!Restrict
<1>2. /\ DOMAIN g = {k \in DOMAIN f : ~ (f[k] \subseteq {d})}
      /\ \A k \in DOMAIN g : g[k] = f[k] \ {d}
  BY DEF Index!RemoveKeys, Index!Restrict
<1>3. /\ DOMAIN f = UNION {m.keysOf[e] : e \in DOMAIN m.keysOf}
      /\ \A k \in DOMAIN f : f[k] = {e \in DOMAIN m.keysOf : k \in m.keysOf[e]}
  BY DEF InvertsSets
<1> HIDE DEF f, g, w
<1>4. DOMAIN g = UNION {w[e] : e \in DOMAIN w}
  <2>1. ASSUME NEW k \in DOMAIN g PROVE \E e \in DOMAIN w : k \in w[e]
    <3>1. PICK e \in f[k] : e # d
      BY <1>2
    <3> QED
      BY <1>1, <1>2, <1>3, <3>1
  <2>2. ASSUME NEW e \in DOMAIN w, NEW k \in w[e] PROVE k \in DOMAIN g
    <3>1. k \in DOMAIN f /\ e \in f[k] /\ e # d
      BY <1>1, <1>3
    <3> QED
      BY <1>2, <3>1
  <2> QED
    BY <2>1, <2>2
<1>5. ASSUME NEW k \in DOMAIN g PROVE g[k] = {e \in DOMAIN w : k \in w[e]}
  BY <1>1, <1>2, <1>3
<1> QED
  BY <1>1, <1>4, <1>5 DEF InvertsSets, g, w

-------------------------------------------------------------------------------
LEMMA SameCount == \A S : Index!Cardinality(S) = Cardinality(S)
BY DEF Index!Cardinality, Cardinality, Index!IsFiniteSet, IsFiniteSet

(* A set of places that holds with each one those before it ends at its    *)
(* number of members.                                                      *)
LEMMA InitialSegment ==
  ASSUME NEW n \in Nat, NEW D \in SUBSET (1..n),
         \A i \in D, j \in 1..n : j < i => j \in D
  PROVE  /\ Cardinality(D) \in 0..n
         /\ \A i \in 1..n : i \in D <=> i <= Cardinality(D)
<1> DEFINE R == OpToRel(<, Nat)
           Out == Nat \ (D \cup {0})
<1>1. \A x, y \in Nat : <<x, y>> \in R <=> x < y
  BY DEF OpToRel
<1>2. n + 1 \in Out
  OBVIOUS
<1>3. PICK m \in Out : \A y \in Out : ~ (<<y, m>> \in R)
  <2>1. Out \subseteq Nat /\ Out # {} /\ IsWellFoundedOn(R, Nat)
    BY <1>2, NatLessThanWellFounded
  <2> HIDE DEF R, Out
  <2> QED
    BY <2>1, WFMin
<1> HIDE DEF R
<1>4. m \in Nat \ {0} /\ m <= n + 1 /\ m \notin D
  <2>1. m \in Nat /\ m # 0 /\ m \notin D
    OBVIOUS
  <2>2. ~ (n + 1 < m)
    BY <1>1, <1>2, <1>3, <2>1
  <2> QED
    BY <2>1, <2>2
<1>5. ASSUME NEW i \in Nat \ {0}, i < m PROVE i \in D
  <2>1. i \notin Out
    BY <1>1, <1>3, <1>4, <1>5
  <2> QED
    BY <2>1
<1> HIDE DEF Out
<1>6. ASSUME NEW i \in D PROVE i \in 1..n /\ i < m
  <2>1. i \in 1..n
    OBVIOUS
  <2>2. i # m /\ ~ (m < i)
    <3>1. m < i => m \in 1..n
      BY <1>4, <2>1
    <3> QED
      BY <1>4, <3>1
  <2> QED
    BY <1>4, <2>1, <2>2
<1>7. D = 1..(m - 1)
  <2>1. ASSUME NEW i \in D PROVE i \in 1..(m - 1)
    BY <1>4, <1>6
  <2>2. ASSUME NEW i \in 1..(m - 1) PROVE i \in D
    BY <1>4, <1>5
  <2> QED
    BY <2>1, <2>2
<1>8. Cardinality(D) = m - 1
  BY <1>4, <1>7, FS_Interval
<1> QED
  BY <1>4, <1>7, <1>8

(* The ascending order of a finite set of integers.                        *)
LEMMA PlaceOrders ==
  ASSUME NEW values \in SUBSET Int, IsFiniteSet(values)
  PROVE  /\ Cardinality(values) \in Nat
         /\ \A v \in values : Index!Place(values, v) \in 1..Cardinality(values)
         /\ \A v, w \in values : v < w <=> Index!Place(values, v) < Index!Place(values, w)
<1> DEFINE upTo(v) == {w \in values : w <= v}
<1>1. Cardinality(values) \in Nat
  BY FS_CardinalityType
<1>2. ASSUME NEW v \in values
      PROVE  /\ Index!Place(values, v) = Cardinality(upTo(v))
             /\ IsFiniteSet(upTo(v)) /\ upTo(v) \in SUBSET values
             /\ Cardinality(upTo(v)) \in 1..Cardinality(values)
  <2>1. Index!Place(values, v) = Cardinality(upTo(v))
    BY SameCount DEF Index!Place
  <2>2. IsFiniteSet(upTo(v)) /\ upTo(v) \in SUBSET values
          /\ Cardinality(upTo(v)) <= Cardinality(values)
    BY FS_Subset
  <2>3. v \in upTo(v)
    OBVIOUS
  <2>4. Cardinality(upTo(v)) \in Nat /\ Cardinality(upTo(v)) # 0
    <3> HIDE DEF upTo
    <3> QED
      BY <2>2, <2>3, FS_CardinalityType, FS_EmptySet
  <2> QED
    BY <1>1, <2>1, <2>2, <2>4
<1>3. ASSUME NEW v \in values, NEW w \in values, v < w
      PROVE  Cardinality(upTo(v)) < Cardinality(upTo(w))
  <2>0. values \subseteq Int /\ v \in Int /\ w \in Int
    OBVIOUS
  <2>1. upTo(v) \in SUBSET upTo(w) /\ w \in upTo(w) /\ w \notin upTo(v)
    <3>1. \A x \in values : x <= v => x <= w
      BY <1>3, <2>0
    <3>2. w <= w /\ ~ (w <= v)
      BY <1>3, <2>0
    <3> QED
      BY <3>1, <3>2
  <2> HIDE DEF upTo
  <2> QED
    BY <1>1, <1>2, <2>1, FS_Subset
<1> HIDE DEF upTo
<1>4. ASSUME NEW v \in values, NEW w \in values
      PROVE  v < w <=> Cardinality(upTo(v)) < Cardinality(upTo(w))
  <2>1. v \in Int /\ w \in Int
    OBVIOUS
  <2>2. Cardinality(upTo(v)) \in Int /\ Cardinality(upTo(w)) \in Int
    BY <1>1, <1>2
  <2>3. CASE v < w
    BY <1>3, <2>3
  <2>4. CASE w < v
    BY <1>3, <2>1, <2>2, <2>4
  <2>5. CASE v = w
    BY <2>1, <2>2, <2>5
  <2> QED
    BY <2>1, <2>3, <2>4, <2>5
<1> QED
  BY <1>1, <1>2, <1>4

LEMMA AscendingProperties ==
  ASSUME NEW values \in SUBSET Int, IsFiniteSet(values),
         NEW s, s = Index!Ascending(values)
  PROVE  /\ Cardinality(values) \in Nat
         /\ DOMAIN s = 1..Cardinality(values)
         /\ \A i \in DOMAIN s : s[i] \in values /\ Index!Place(values, s[i]) = i
         /\ \A v \in values : Index!Place(values, v) \in DOMAIN s
                                /\ s[Index!Place(values, v)] = v
         /\ \A i, j \in DOMAIN s : i < j <=> s[i] < s[j]
<1> DEFINE n == Cardinality(values)
           f == [v \in values |-> Index!Place(values, v)]
<1>1. n \in Nat /\ DOMAIN s = 1..n
  BY PlaceOrders, SameCount DEF Index!Ascending
<1>2. f \in Injection(values, 1..n)
  <2>1. f \in [values -> 1..n]
    BY PlaceOrders
  <2>2. ASSUME NEW v \in values, NEW w \in values, f[v] = f[w] PROVE v = w
    <3>1. v \in Int /\ w \in Int
      OBVIOUS
    <3>2. Index!Place(values, v) = Index!Place(values, w)
            /\ Index!Place(values, v) \in Int
      BY <2>2, PlaceOrders
    <3>3. ~ (v < w) /\ ~ (w < v)
      BY <3>2, PlaceOrders
    <3> QED
      BY <3>1, <3>3
  <2> HIDE DEF f
  <2> QED
    BY <2>1, <2>2 DEF Injection, IsInjective
<1>3. f \in Surjection(values, 1..n)
  <2>1. IsFiniteSet(1..n) /\ Cardinality(1..n) = n
    BY <1>1, FS_Interval
  <2> HIDE DEF f
  <2> QED
    BY <1>2, <2>1, FS_Injection
<1>4. ASSUME NEW i \in 1..n PROVE \E v \in values : Index!Place(values, v) = i
  <2>1. PICK v \in values : f[v] = i
    <3> HIDE DEF f
    <3> QED
      BY <1>3, <1>4 DEF Surjection
  <2> QED
    BY <2>1
<1>5. ASSUME NEW i \in 1..n
      PROVE  s[i] \in values /\ Index!Place(values, s[i]) = i
  <2> DEFINE P(v) == v \in values /\ Index!Place(values, v) = i
  <2>1. s[i] = CHOOSE v \in values : Index!Place(values, v) = i
    BY <1>1, SameCount DEF Index!Ascending
  <2> QED
    BY <1>4, <1>5, <2>1
<1>6. ASSUME NEW v \in values
      PROVE  Index!Place(values, v) \in 1..n /\ s[Index!Place(values, v)] = v
  <2>1. PICK i \in 1..n : i = Index!Place(values, v)
    BY PlaceOrders
  <2>2. s[i] \in values /\ Index!Place(values, s[i]) = Index!Place(values, v)
    BY <1>5, <2>1
  <2>3. PICK w \in values : w = s[i]
    BY <2>2
  <2>4. Index!Place(values, v) \in Int /\ Index!Place(values, w) = Index!Place(values, v)
    BY <2>1, <2>2, <2>3
  <2>5. ~ (v < w) /\ ~ (w < v)
    BY <2>4, PlaceOrders
  <2>6. v \in Int /\ w \in Int
    OBVIOUS
  <2> QED
    BY <2>1, <2>3, <2>5, <2>6
<1>7. ASSUME NEW i \in 1..n, NEW j \in 1..n PROVE i < j <=> s[i] < s[j]
  <2>1. PICK v \in values : v = s[i] /\ Index!Place(values, v) = i
    BY <1>5
  <2>2. PICK w \in values : w = s[j] /\ Index!Place(values, w) = j
    BY <1>5
  <2>3. v < w <=> Index!Place(values, v) < Index!Place(values, w)
    BY PlaceOrders
  <2> QED
    BY <2>1, <2>2, <2>3
<1> QED
  BY <1>1, <1>5, <1>6, <1>7

-------------------------------------------------------------------------------
(* What the steps keep of the range index.                                 *)
BlockFor(values, v) == Index!BlockAt(Index!Place(values, v)) + 1

(* The directory and the blocks as Prepare builds them.                    *)
Prepared(r) ==
  LET values == DOMAIN r.postings
  IN /\ r.sorted = Index!Ascending(values)
     /\ DOMAIN r.blockOf = values
     /\ \A v \in values : r.blockOf[v] = BlockFor(values, v)
     /\ DOMAIN r.blocks = 1..((Cardinality(values) + BlockSize - 1) \div BlockSize)

(* A block holds the documents whose value is filed under it.              *)
FiledIn(blocks, blockOf, valueOf) ==
  /\ \A v \in DOMAIN blockOf : blockOf[v] \in DOMAIN blocks
  /\ \A b \in DOMAIN blocks :
       blocks[b] = {d \in DOMAIN valueOf :
                      valueOf[d] \in DOMAIN blockOf /\ blockOf[valueOf[d]] = b}

BlocksFiled(r) == FiledIn(r.blocks, r.blockOf, r.valueOf)

RangeRecord(r) ==
  r = [postings |-> r.postings, valueOf |-> r.valueOf, sorted |-> r.sorted,
       dirty |-> r.dirty, blocks |-> r.blocks, blockOf |-> r.blockOf]

RangeInv(r) ==
  /\ RangeRecord(r)
  /\ r.dirty \in BOOLEAN
  /\ IsFiniteSet(DOMAIN r.postings)
  /\ DOMAIN r.postings \subseteq Int
  /\ Inverts(r.postings, r.valueOf)
  /\ BlocksFiled(r)
  /\ {r.sorted[i] : i \in DOMAIN r.sorted} = DOMAIN r.blockOf
  /\ ~ r.dirty => Prepared(r)

(* A block once a document joined, or left, the block of its value.        *)
Joined(blocks, blockOf, b, v, d) ==
  IF v \in DOMAIN blockOf /\ blockOf[v] = b THEN blocks[b] \cup {d} ELSE blocks[b]

Left(blocks, blockOf, b, v, d) ==
  IF v \in DOMAIN blockOf /\ blockOf[v] = b THEN blocks[b] \ {d} ELSE blocks[b]

LEMMA FiledAfterAdd ==
  ASSUME NEW blocks, NEW blockOf, NEW val, FiledIn(blocks, blockOf, val),
         NEW d, d \notin DOMAIN val, NEW v,
         NEW w, DOMAIN w = DOMAIN val \cup {d}, w[d] = v, \A e \in DOMAIN val : w[e] = val[e],
         NEW bl, DOMAIN bl = DOMAIN blocks,
         \A b \in DOMAIN blocks : bl[b] = Joined(blocks, blockOf, b, v, d)
  PROVE  FiledIn(bl, blockOf, w)
<1>1. ASSUME NEW b \in DOMAIN blocks, NEW e
      PROVE  e \in bl[b] <=>
               e \in DOMAIN w /\ w[e] \in DOMAIN blockOf /\ blockOf[w[e]] = b
  <2>1. e \in blocks[b] <=>
          e \in DOMAIN val /\ val[e] \in DOMAIN blockOf /\ blockOf[val[e]] = b
    BY DEF FiledIn
  <2>2. CASE e = d
    BY <2>1, <2>2 DEF Joined
  <2>3. CASE e # d
    BY <2>1, <2>3 DEF Joined
  <2> QED
    BY <2>2, <2>3
<1>2. ASSUME NEW b \in DOMAIN blocks
      PROVE  bl[b] = {e \in DOMAIN w : w[e] \in DOMAIN blockOf /\ blockOf[w[e]] = b}
  <2>1. bl[b] \subseteq DOMAIN w
    BY <1>1
  <2> QED
    BY <1>1, <2>1
<1> QED
  BY <1>2 DEF FiledIn

LEMMA FiledAfterRemove ==
  ASSUME NEW blocks, NEW blockOf, NEW val, FiledIn(blocks, blockOf, val),
         NEW d \in DOMAIN val, NEW v, v = val[d],
         NEW w, DOMAIN w = DOMAIN val \ {d}, \A e \in DOMAIN w : w[e] = val[e],
         NEW bl, DOMAIN bl = DOMAIN blocks,
         \A b \in DOMAIN blocks : bl[b] = Left(blocks, blockOf, b, v, d)
  PROVE  FiledIn(bl, blockOf, w)
<1>1. ASSUME NEW b \in DOMAIN blocks, NEW e
      PROVE  e \in bl[b] <=>
               e \in DOMAIN w /\ w[e] \in DOMAIN blockOf /\ blockOf[w[e]] = b
  <2>1. e \in blocks[b] <=>
          e \in DOMAIN val /\ val[e] \in DOMAIN blockOf /\ blockOf[val[e]] = b
    BY DEF FiledIn
  <2>2. CASE e = d
    BY <2>1, <2>2 DEF Left
  <2>3. CASE e # d
    BY <2>1, <2>3 DEF Left
  <2> QED
    BY <2>2, <2>3
<1>2. ASSUME NEW b \in DOMAIN blocks
      PROVE  bl[b] = {e \in DOMAIN w : w[e] \in DOMAIN blockOf /\ blockOf[w[e]] = b}
  <2>1. bl[b] \subseteq DOMAIN w
    BY <1>1
  <2> QED
    BY <1>1, <2>1
<1> QED
  BY <1>2 DEF FiledIn

LEMMA AddRangeInv ==
  ASSUME NEW r, RangeInv(r), NEW d, d \notin DOMAIN r.valueOf,
         NEW v, {v} \subseteq Int, v # NoValue, NEW q, q = Index!AddRange(r, d, v)
  PROVE  /\ RangeInv(q)
         /\ DOMAIN q.valueOf = DOMAIN r.valueOf \cup {d} /\ q.valueOf[d] = v
         /\ \A e \in DOMAIN r.valueOf : q.valueOf[e] = r.valueOf[e]
<1>1. /\ q.postings = Filed(r.postings, v, d)
      /\ q.valueOf = Index!Put(r.valueOf, d, v)
      /\ q.dirty = (r.dirty \/ v \notin DOMAIN r.postings)
      /\ q.blocks = Index!InBlocks(r, v, d)
      /\ q.sorted = r.sorted /\ q.blockOf = r.blockOf
      /\ RangeRecord(q)
  BY DEF Index!AddRange, RangeInv, RangeRecord, Filed
<1>2. /\ Inverts(q.postings, q.valueOf)
      /\ DOMAIN q.valueOf = DOMAIN r.valueOf \cup {d} /\ q.valueOf[d] = v
      /\ \A e \in DOMAIN r.valueOf : q.valueOf[e] = r.valueOf[e]
  <2>1. Inverts(r.postings, r.valueOf)
    BY DEF RangeInv
  <2>2. q.postings = Filed(r.postings, v, d) /\ q.valueOf = Index!Put(r.valueOf, d, v)
    BY <1>1
  <2> QED
    BY <2>1, <2>2, PutInverts
<1>3. DOMAIN q.postings = DOMAIN r.postings \cup {v}
  BY <1>1 DEF Filed, Index!Put
<1>4. IsFiniteSet(DOMAIN q.postings) /\ DOMAIN q.postings \subseteq Int
  BY <1>3, FS_AddElement DEF RangeInv
<1>5. BlocksFiled(q)
  <2>1. DOMAIN q.blocks = DOMAIN r.blocks
    BY <1>1 DEF Index!InBlocks
  <2>2. ASSUME NEW b \in DOMAIN r.blocks
        PROVE  q.blocks[b] = Joined(r.blocks, r.blockOf, b, v, d)
    BY <1>1 DEF Joined, Index!InBlocks
  <2>3. FiledIn(r.blocks, r.blockOf, r.valueOf)
    BY DEF RangeInv, BlocksFiled
  <2>4. FiledIn(q.blocks, r.blockOf, q.valueOf)
    BY <1>2, <2>1, <2>2, <2>3, FiledAfterAdd
  <2> QED
    BY <1>1, <2>4 DEF BlocksFiled
<1>6. ASSUME ~ q.dirty PROVE Prepared(q)
  <2>1. DOMAIN q.postings = DOMAIN r.postings /\ ~ r.dirty
    BY <1>1, <1>3, <1>6 DEF RangeInv
  <2>2. DOMAIN q.blocks = DOMAIN r.blocks
    BY <1>1 DEF Index!InBlocks
  <2> QED
    BY <1>1, <2>1, <2>2 DEF RangeInv, Prepared
<1>7. {q.sorted[i] : i \in DOMAIN q.sorted} = DOMAIN q.blockOf /\ q.dirty \in BOOLEAN
  BY <1>1 DEF RangeInv
<1>8. RangeInv(q)
  BY <1>1, <1>2, <1>4, <1>5, <1>6, <1>7 DEF RangeInv
<1> QED
  BY <1>2, <1>8

LEMMA RemoveRangeInv ==
  ASSUME NEW r, RangeInv(r), NEW d \in DOMAIN r.valueOf,
         NEW q, q = Index!RemoveRange(r, d)
  PROVE  /\ RangeInv(q)
         /\ DOMAIN q.valueOf = DOMAIN r.valueOf \ {d}
         /\ \A e \in DOMAIN q.valueOf : q.valueOf[e] = r.valueOf[e]
<1>0. PICK v : v = r.valueOf[d]
  OBVIOUS
<1>1. /\ q.postings = Index!Without(r.postings, r.valueOf[d], d)
      /\ q.valueOf = Index!Restrict(r.valueOf, DOMAIN r.valueOf \ {d})
      /\ q.dirty = (r.dirty \/ r.postings[v] \subseteq {d})
      /\ q.blocks = Index!OutOfBlocks(r, v, d)
      /\ q.sorted = r.sorted /\ q.blockOf = r.blockOf
      /\ RangeRecord(q)
  BY <1>0 DEF Index!RemoveRange, RangeInv, RangeRecord
<1>2. /\ Inverts(q.postings, q.valueOf)
      /\ DOMAIN q.valueOf = DOMAIN r.valueOf \ {d}
      /\ \A e \in DOMAIN q.valueOf : q.valueOf[e] = r.valueOf[e]
  BY <1>1, WithoutInverts DEF RangeInv
<1>3. /\ DOMAIN q.postings \subseteq DOMAIN r.postings
      /\ v \in DOMAIN r.postings
      /\ ~ (r.postings[v] \subseteq {d}) => DOMAIN q.postings = DOMAIN r.postings
  <2>1. v \in DOMAIN r.postings
    BY <1>0 DEF RangeInv, Inverts
  <2> QED
    BY <1>0, <1>1, <2>1 DEF Index!Without, Index!Restrict, Index!At
<1>4. IsFiniteSet(DOMAIN q.postings) /\ DOMAIN q.postings \subseteq Int
  BY <1>3, FS_Subset DEF RangeInv
<1>5. BlocksFiled(q)
  <2>1. DOMAIN q.blocks = DOMAIN r.blocks
    BY <1>1 DEF Index!OutOfBlocks
  <2>2. ASSUME NEW b \in DOMAIN r.blocks
        PROVE  q.blocks[b] = Left(r.blocks, r.blockOf, b, v, d)
    BY <1>1 DEF Left, Index!OutOfBlocks
  <2>3. FiledIn(r.blocks, r.blockOf, r.valueOf)
    BY DEF RangeInv, BlocksFiled
  <2>4. FiledIn(q.blocks, r.blockOf, q.valueOf)
    BY <1>0, <1>2, <2>1, <2>2, <2>3, FiledAfterRemove
  <2> QED
    BY <1>1, <2>4 DEF BlocksFiled
<1>6. ASSUME ~ q.dirty PROVE Prepared(q)
  <2>1. DOMAIN q.postings = DOMAIN r.postings /\ ~ r.dirty
    BY <1>1, <1>3, <1>6 DEF RangeInv
  <2>2. DOMAIN q.blocks = DOMAIN r.blocks
    BY <1>1 DEF Index!OutOfBlocks
  <2> QED
    BY <1>1, <2>1, <2>2 DEF RangeInv, Prepared
<1>7. {q.sorted[i] : i \in DOMAIN q.sorted} = DOMAIN q.blockOf /\ q.dirty \in BOOLEAN
  BY <1>1 DEF RangeInv
<1>8. RangeInv(q)
  BY <1>1, <1>2, <1>4, <1>5, <1>6, <1>7 DEF RangeInv
<1> QED
  BY <1>2, <1>8

-------------------------------------------------------------------------------
(* The block of a place: the first q + 1 blocks hold the first q + 1 times *)
(* BlockSize places.                                                       *)
LEMMA Quotient ==
  ASSUME NEW B \in Nat \ {0}, NEW x \in Nat, NEW q \in Nat
  PROVE  /\ x \div B \in Nat
         /\ (x \div B <= q) <=> x < q * B + B
<1>1. x \div B \in Nat /\ (x \div B) * B <= x /\ x < (x \div B) * B + B
  <2>1. x \div B \in Nat /\ x % B \in 0..(B - 1)
    OBVIOUS
  <2>2. x = B * (x \div B) + (x % B)
    OBVIOUS
  <2> QED
    BY <2>1, <2>2
<1>2. PICK k \in Nat : k = x \div B
  BY <1>1
<1>3. k * B <= x /\ x < k * B + B /\ k * B \in Int /\ q * B \in Int
  BY <1>1, <1>2
<1>4. CASE k <= q
  <2>1. k * B <= q * B
    BY <1>4
  <2> QED
    BY <1>2, <1>3, <1>4, <2>1
<1>5. CASE q + 1 <= k
  <2>1. (q + 1) * B <= k * B
    BY <1>5
  <2>2. (q + 1) * B = q * B + B
    OBVIOUS
  <2> QED
    BY <1>2, <1>3, <1>5, <2>1, <2>2
<1> QED
  BY <1>2, <1>4, <1>5

LEMMA PlaceInBlock ==
  ASSUME Index!IndexAssumption, NEW p \in Nat \ {0}, NEW q \in Nat
  PROVE  /\ Index!BlockAt(p) \in Nat
         /\ Index!BlockAt(p) <= q <=> p <= q * BlockSize + BlockSize
         /\ Index!BlockAt(p) < q <=> p <= q * BlockSize
<1>1. BlockSize \in Nat \ {0}
  BY DEF Index!IndexAssumption
<1>2. PICK B \in Nat \ {0} : B = BlockSize
  BY <1>1
<1>3. PICK k \in Nat : k = (p - 1) \div B
  BY <1>2, Quotient
<1>4. k <= q <=> p - 1 < q * B + B
  BY <1>3, Quotient
<1>5. q * B \in Int
  OBVIOUS
<1>6. k < q <=> p <= q * B
  <2>1. CASE q = 0
    BY <2>1
  <2>2. CASE q # 0
    <3>1. k <= q - 1 <=> p - 1 < (q - 1) * B + B
      BY <1>3, <2>2, Quotient
    <3>2. (q - 1) * B + B = q * B
      BY <2>2
    <3> QED
      BY <1>5, <3>1, <3>2
  <2> QED
    BY <2>1, <2>2
<1> QED
  BY <1>2, <1>3, <1>4, <1>5, <1>6 DEF Index!BlockAt

(* The blocks Prepare makes are enough for every value.                    *)
LEMMA BlocksSuffice ==
  ASSUME Index!IndexAssumption, NEW n \in Nat, NEW p \in 1..n
  PROVE  Index!BlockAt(p) + 1 \in 1..((n + BlockSize - 1) \div BlockSize)
<1>1. BlockSize \in Nat \ {0}
  BY DEF Index!IndexAssumption
<1>2. PICK B \in Nat \ {0} : B = BlockSize
  BY <1>1
<1>3. PICK k \in Nat : k = (n + B - 1) \div B
  BY <1>2, Quotient
<1>4. k * B \in Int /\ n + B - 1 < k * B + B
  BY <1>3, Quotient
<1>5. p <= k * B
  BY <1>4
<1>6. Index!BlockAt(p) \in Nat /\ Index!BlockAt(p) < k
  BY <1>2, <1>5, PlaceInBlock
<1> QED
  BY <1>2, <1>3, <1>6

LEMMA PrepareInv ==
  ASSUME Index!IndexAssumption, NEW r, RangeInv(r), NEW q, q = Index!Prepare(r)
  PROVE  RangeInv(q) /\ ~ q.dirty /\ q.valueOf = r.valueOf
<1>1. CASE ~ r.dirty
  BY <1>1 DEF Index!Prepare
<1>2. CASE r.dirty
  <2> DEFINE values == DOMAIN r.postings
             n == Cardinality(values)
  <2>1. values \in SUBSET Int /\ IsFiniteSet(values)
    BY DEF RangeInv
  <2>2. n \in Nat /\ \A v \in values : Index!Place(values, v) \in 1..n
    BY <2>1, PlaceOrders
  <2>3. /\ q.postings = r.postings /\ q.valueOf = r.valueOf /\ q.dirty = FALSE
        /\ q.sorted = Index!Ascending(values)
        /\ DOMAIN q.blockOf = values
        /\ \A v \in values : q.blockOf[v] = BlockFor(values, v)
        /\ DOMAIN q.blocks = 1..((n + BlockSize - 1) \div BlockSize)
        /\ \A b \in DOMAIN q.blocks :
             q.blocks[b] = UNION {r.postings[v] : v \in {w \in values : BlockFor(values, w) = b}}
        /\ RangeRecord(q)
    BY <1>2, SameCount DEF Index!Prepare, RangeInv, RangeRecord, BlockFor
  <2>4. Prepared(q)
    BY <2>3 DEF Prepared
  <2>5. \A v \in values : q.blockOf[v] \in DOMAIN q.blocks
    BY <2>2, <2>3, BlocksSuffice DEF BlockFor
  <2>6. ASSUME NEW b \in DOMAIN q.blocks
        PROVE  q.blocks[b] = {d \in DOMAIN q.valueOf :
                                q.valueOf[d] \in DOMAIN q.blockOf /\ q.blockOf[q.valueOf[d]] = b}
    <3>1. /\ values = {r.valueOf[d] : d \in DOMAIN r.valueOf}
          /\ \A v \in values : r.postings[v] = {d \in DOMAIN r.valueOf : r.valueOf[d] = v}
      BY DEF RangeInv, Inverts
    <3> HIDE DEF values, n
    <3>2. ASSUME NEW d
          PROVE  d \in q.blocks[b] <=>
                   \E v \in values : BlockFor(values, v) = b /\ d \in r.postings[v]
      BY <2>3
    <3>3. ASSUME NEW d
          PROVE  d \in q.blocks[b] <=>
                   /\ d \in DOMAIN r.valueOf
                   /\ r.valueOf[d] \in values /\ BlockFor(values, r.valueOf[d]) = b
      <4>1. ASSUME NEW v \in values, BlockFor(values, v) = b, d \in r.postings[v]
            PROVE  d \in DOMAIN r.valueOf /\ r.valueOf[d] = v
        BY <3>1, <4>1
      <4>2. ASSUME d \in DOMAIN r.valueOf
            PROVE  d \in r.postings[r.valueOf[d]]
        BY <3>1, <4>2
      <4> QED
        BY <3>2, <4>1, <4>2
    <3>4. ASSUME NEW d
          PROVE  d \in q.blocks[b] <=>
                   /\ d \in DOMAIN q.valueOf
                   /\ q.valueOf[d] \in DOMAIN q.blockOf /\ q.blockOf[q.valueOf[d]] = b
      BY <2>3, <3>3
    <3> QED
      BY <3>4
  <2>7. BlocksFiled(q)
    BY <2>3, <2>5, <2>6 DEF BlocksFiled, FiledIn
  <2>8. {q.sorted[i] : i \in DOMAIN q.sorted} = DOMAIN q.blockOf
    <3>1. /\ \A i \in DOMAIN q.sorted : q.sorted[i] \in values
          /\ \A v \in values : \E i \in DOMAIN q.sorted : q.sorted[i] = v
      BY <2>1, <2>3, AscendingProperties
    <3> QED
      BY <2>3, <3>1
  <2> QED
    BY <2>3, <2>4, <2>7, <2>8 DEF RangeInv
<1> QED
  BY <1>1, <1>2 DEF RangeInv

-------------------------------------------------------------------------------
(* The documents of the values from one place to another.                  *)
PlaceOf(d) == Index!Place(DOMAIN range.postings, range.valueOf[d])

HeldAt(a, b) == {d \in DOMAIN range.valueOf : a < PlaceOf(d) /\ PlaceOf(d) <= b}

Slice(from, to) ==
  [i \in 1..(to - from) |-> Index!At(range.postings, range.sorted[from + i])]

Middle(first, last) == [i \in 1..(last - first - 1) |-> range.blocks[first + 1 + i]]

Bitmaps == Seq(SUBSET DOMAIN range.valueOf)

(* The theory of sequences kept from the steps that only join them.        *)
IsSeqOf(S, s) == s \in Seq(S)

Joint(s, t) == s \o t

LEMMA ConcatUnion ==
  ASSUME NEW S, NEW s, IsSeqOf(S, s), NEW t, IsSeqOf(S, t), NEW u, u = Joint(s, t)
  PROVE  IsSeqOf(S, u) /\ UNION Index!Range(u) = (UNION Index!Range(s)) \cup (UNION Index!Range(t))
<1>0. s \in Seq(S) /\ t \in Seq(S)
  BY DEF IsSeqOf
<1>1. /\ DOMAIN s = 1..Len(s) /\ DOMAIN t = 1..Len(t)
      /\ DOMAIN (s \o t) = 1..(Len(s) + Len(t))
      /\ Len(s) \in Nat /\ Len(t) \in Nat
  BY <1>0, ConcatProperties, LenProperties
<1>2. /\ \A i \in 1..Len(s) : (s \o t)[i] = s[i]
      /\ \A i \in 1..Len(t) : (s \o t)[Len(s) + i] = t[i]
  BY <1>0, <1>1, ConcatProperties
<1>3. u = s \o t
  BY DEF Joint
<1>4. ASSUME NEW k \in DOMAIN u
      PROVE  (\E i \in DOMAIN s : u[k] = s[i]) \/ (\E i \in DOMAIN t : u[k] = t[i])
  <2>1. CASE k <= Len(s)
    BY <1>1, <1>2, <1>3, <2>1
  <2>2. CASE ~ (k <= Len(s))
    <3>1. k - Len(s) \in 1..Len(t) /\ k = Len(s) + (k - Len(s))
      BY <1>1, <1>3, <2>2
    <3> QED
      BY <1>1, <1>2, <1>3, <3>1
  <2> QED
    BY <2>1, <2>2
<1>5. ASSUME NEW i \in DOMAIN s PROVE \E k \in DOMAIN u : u[k] = s[i]
  BY <1>1, <1>2, <1>3
<1>6. ASSUME NEW i \in DOMAIN t PROVE \E k \in DOMAIN u : u[k] = t[i]
  <2>1. Len(s) + i \in 1..(Len(s) + Len(t))
    BY <1>1
  <2> QED
    BY <1>1, <1>2, <1>3, <2>1
<1>7. Index!Range(u) = Index!Range(s) \cup Index!Range(t)
  <2>1. ASSUME NEW x \in Index!Range(u) PROVE x \in Index!Range(s) \cup Index!Range(t)
    BY <1>4, <2>1 DEF Index!Range
  <2>2. ASSUME NEW x \in Index!Range(s) PROVE x \in Index!Range(u)
    BY <1>5, <2>2 DEF Index!Range
  <2>3. ASSUME NEW x \in Index!Range(t) PROVE x \in Index!Range(u)
    BY <1>6, <2>3 DEF Index!Range
  <2> QED
    BY <2>1, <2>2, <2>3
<1>8. IsSeqOf(S, u)
  BY <1>0, <1>3, ConcatProperties DEF IsSeqOf
<1> QED
  BY <1>7, <1>8

(* What the directory of a session knows.                                  *)
LEMMA Directory ==
  ASSUME RangeInv(range), ~ range.dirty
  PROVE  LET n == Cardinality(DOMAIN range.postings)
         IN /\ n \in Nat /\ DOMAIN range.sorted = 1..n
            /\ \A d \in DOMAIN range.valueOf :
                 /\ PlaceOf(d) \in 1..n
                 /\ range.valueOf[d] = range.sorted[PlaceOf(d)]
                 /\ range.valueOf[d] \in Int
            /\ \A i \in 1..n :
                 /\ range.sorted[i] \in Int
                 /\ Index!At(range.postings, range.sorted[i])
                      = {d \in DOMAIN range.valueOf : PlaceOf(d) = i}
            /\ \A i, j \in 1..n : i < j <=> range.sorted[i] < range.sorted[j]
<1> DEFINE values == DOMAIN range.postings
           n == Cardinality(values)
           s == range.sorted
<1>1. values \in SUBSET Int /\ IsFiniteSet(values) /\ s = Index!Ascending(values)
  BY DEF RangeInv, Prepared
<1>2. /\ values = {range.valueOf[d] : d \in DOMAIN range.valueOf}
      /\ \A v \in values :
           range.postings[v] = {d \in DOMAIN range.valueOf : range.valueOf[d] = v}
  BY DEF RangeInv, Inverts
<1>3. /\ n \in Nat /\ DOMAIN s = 1..n
      /\ \A i \in 1..n : s[i] \in values /\ Index!Place(values, s[i]) = i
      /\ \A v \in values : Index!Place(values, v) \in 1..n
                             /\ s[Index!Place(values, v)] = v
      /\ \A i, j \in 1..n : i < j <=> s[i] < s[j]
  <2> HIDE DEF values, s
  <2> QED
    BY <1>1, AscendingProperties
<1>4. ASSUME NEW d \in DOMAIN range.valueOf
      PROVE  /\ PlaceOf(d) \in 1..n /\ range.valueOf[d] = s[PlaceOf(d)]
             /\ range.valueOf[d] \in Int /\ range.valueOf[d] \in values
  BY <1>1, <1>2, <1>3 DEF PlaceOf
<1>5. ASSUME NEW i \in 1..n
      PROVE  /\ s[i] \in Int
             /\ Index!At(range.postings, s[i])
                  = {d \in DOMAIN range.valueOf : PlaceOf(d) = i}
  <2>1. PICK v \in values : v = s[i] /\ Index!Place(values, v) = i
    BY <1>3
  <2>2. Index!At(range.postings, v) = {d \in DOMAIN range.valueOf : range.valueOf[d] = v}
    BY <1>2 DEF Index!At
  <2>3. \A d \in DOMAIN range.valueOf : range.valueOf[d] = v <=> PlaceOf(d) = i
    BY <1>4, <2>1 DEF PlaceOf
  <2> QED
    BY <1>1, <2>1, <2>2, <2>3
<1> QED
  BY <1>3, <1>4, <1>5

LEMMA SliceHolds ==
  ASSUME RangeInv(range), ~ range.dirty,
         NEW from \in Nat, NEW to \in Nat, from <= to,
         to <= Cardinality(DOMAIN range.postings)
  PROVE  /\ Slice(from, to) \in Bitmaps
         /\ UNION Index!Range(Slice(from, to)) = HeldAt(from, to)
<1> DEFINE n == Cardinality(DOMAIN range.postings)
           s == Slice(from, to)
<1>1. /\ n \in Nat
      /\ \A d \in DOMAIN range.valueOf : PlaceOf(d) \in 1..n
      /\ \A i \in 1..n : Index!At(range.postings, range.sorted[i])
                           = {d \in DOMAIN range.valueOf : PlaceOf(d) = i}
  BY Directory
<1>2. DOMAIN s = 1..(to - from)
  BY DEF Slice
<1>3. ASSUME NEW i \in 1..(to - from)
      PROVE  s[i] = {d \in DOMAIN range.valueOf : PlaceOf(d) = from + i}
  <2>1. from + i \in 1..n
    BY <1>1
  <2>2. s[i] = Index!At(range.postings, range.sorted[from + i])
    BY DEF Slice
  <2> QED
    BY <1>1, <2>1, <2>2
<1>4. s \in Bitmaps
  <2>1. \A i \in 1..(to - from) :
          Index!At(range.postings, range.sorted[from + i]) \in SUBSET DOMAIN range.valueOf
    BY <1>3 DEF Slice
  <2>2. PICK k \in Nat : k = to - from
    OBVIOUS
  <2>3. s \in [1..k -> SUBSET DOMAIN range.valueOf]
    BY <2>1, <2>2 DEF Slice
  <2> HIDE DEF s
  <2> QED
    BY <2>3, SeqDef DEF Bitmaps
<1>5. ASSUME NEW d
      PROVE  (\E i \in 1..(to - from) : d \in s[i]) <=> d \in HeldAt(from, to)
  <2>1. ASSUME NEW i \in 1..(to - from), d \in s[i] PROVE d \in HeldAt(from, to)
    BY <1>3, <2>1 DEF HeldAt
  <2>2. ASSUME d \in HeldAt(from, to) PROVE \E i \in 1..(to - from) : d \in s[i]
    <3>1. PICK p \in 1..n : p = PlaceOf(d)
      BY <1>1, <2>2 DEF HeldAt
    <3>2. p - from \in 1..(to - from) /\ from + (p - from) = p
      BY <2>2, <3>1 DEF HeldAt
    <3> QED
      BY <1>3, <2>2, <3>1, <3>2 DEF HeldAt
  <2> QED
    BY <2>1, <2>2
<1> HIDE DEF s
<1>6. UNION Index!Range(s) = HeldAt(from, to)
  BY <1>2, <1>5 DEF Index!Range
<1> QED
  BY <1>4, <1>6 DEF s

LEMMA MiddleHolds ==
  ASSUME Index!IndexAssumption, RangeInv(range), ~ range.dirty,
         NEW first \in Nat, NEW last \in Nat, first < last,
         last * BlockSize < Cardinality(DOMAIN range.postings)
  PROVE  /\ Middle(first, last) \in Bitmaps
         /\ UNION Index!Range(Middle(first, last))
              = HeldAt(first * BlockSize + BlockSize, last * BlockSize)
<1> DEFINE n == Cardinality(DOMAIN range.postings)
           s == Middle(first, last)
<1>1. /\ n \in Nat /\ BlockSize \in Nat \ {0}
      /\ \A d \in DOMAIN range.valueOf : PlaceOf(d) \in 1..n
  BY Directory DEF Index!IndexAssumption
<1>2. ASSUME NEW d \in DOMAIN range.valueOf
      PROVE  /\ range.valueOf[d] \in DOMAIN range.blockOf
             /\ range.blockOf[range.valueOf[d]] = Index!BlockAt(PlaceOf(d)) + 1
             /\ Index!BlockAt(PlaceOf(d)) \in Nat
             /\ \A q \in Nat :
                  /\ Index!BlockAt(PlaceOf(d)) <= q
                       <=> PlaceOf(d) <= q * BlockSize + BlockSize
                  /\ Index!BlockAt(PlaceOf(d)) < q <=> PlaceOf(d) <= q * BlockSize
  <2>1. range.valueOf[d] \in DOMAIN range.postings /\ DOMAIN range.blockOf = DOMAIN range.postings
    BY DEF RangeInv, Prepared, Inverts
  <2>2. range.blockOf[range.valueOf[d]] = Index!BlockAt(PlaceOf(d)) + 1
    BY <2>1 DEF RangeInv, Prepared, BlockFor, PlaceOf
  <2>3. PlaceOf(d) \in Nat \ {0}
    BY <1>1
  <2> QED
    BY <2>1, <2>2, <2>3, PlaceInBlock
<1>3. DOMAIN range.blocks = 1..((n + BlockSize - 1) \div BlockSize)
  BY DEF RangeInv, Prepared
<1>4. ASSUME NEW i \in 1..(last - first - 1)
      PROVE  /\ first + 1 + i \in DOMAIN range.blocks
             /\ s[i] = {d \in DOMAIN range.valueOf : Index!BlockAt(PlaceOf(d)) = first + i}
  <2>1. first + 1 + i \in DOMAIN range.blocks
    <3>1. PICK p \in 1..n : p = last * BlockSize
      <4>1. PICK B \in Nat \ {0} : B = BlockSize
        BY <1>1
      <4>2. last * B \in Nat /\ last * B # 0
        OBVIOUS
      <4> QED
        BY <1>1, <4>1, <4>2
    <3>2. /\ Index!BlockAt(p) \in Nat
          /\ Index!BlockAt(p) + 1 \in DOMAIN range.blocks
          /\ ~ (Index!BlockAt(p) < last - 1)
      <4>1. p \in Nat \ {0} /\ last - 1 \in Nat
        BY <1>1
      <4>2. ~ (p <= (last - 1) * BlockSize)
        <5>1. PICK B \in Nat \ {0} : B = BlockSize
          BY <1>1
        <5>2. (last - 1) * B = last * B - B /\ last * B \in Int
          OBVIOUS
        <5> QED
          BY <3>1, <5>1, <5>2
      <4> QED
        BY <1>1, <1>3, <4>1, <4>2, BlocksSuffice, PlaceInBlock
    <3>3. PICK k \in Nat : k = Index!BlockAt(p)
      BY <3>2
    <3>4. PICK N : DOMAIN range.blocks = 1..N /\ N \in Int
      <4>1. (n + BlockSize - 1) \div BlockSize \in Int
        BY <1>1
      <4> QED
        BY <1>3, <4>1
    <3> QED
      BY <3>2, <3>3, <3>4
  <2>2. s[i] = range.blocks[first + 1 + i]
    BY DEF Middle
  <2>3. range.blocks[first + 1 + i]
          = {d \in DOMAIN range.valueOf :
               range.valueOf[d] \in DOMAIN range.blockOf
                 /\ range.blockOf[range.valueOf[d]] = first + 1 + i}
    BY <2>1 DEF RangeInv, BlocksFiled, FiledIn
  <2>4. \A d \in DOMAIN range.valueOf :
          range.blockOf[range.valueOf[d]] = first + 1 + i
            <=> Index!BlockAt(PlaceOf(d)) = first + i
    BY <1>2
  <2> QED
    BY <1>2, <2>1, <2>2, <2>3, <2>4
<1>5. s \in Bitmaps
  <2>1. PICK k \in Nat : k = last - first - 1
    OBVIOUS
  <2>2. DOMAIN s = 1..k /\ s = [i \in 1..k |-> s[i]]
    BY <2>1 DEF Middle
  <2>3. \A i \in 1..k : s[i] \in SUBSET DOMAIN range.valueOf
    BY <1>4, <2>1
  <2> HIDE DEF s
  <2>4. s \in [1..k -> SUBSET DOMAIN range.valueOf]
    BY <2>2, <2>3
  <2> QED
    BY <2>4, SeqDef DEF Bitmaps
<1>6. ASSUME NEW d
      PROVE  (\E i \in DOMAIN s : d \in s[i])
               <=> d \in HeldAt(first * BlockSize + BlockSize, last * BlockSize)
  <2>1. (\E i \in DOMAIN s : d \in s[i])
          <=> \E i \in 1..(last - first - 1) :
                d \in DOMAIN range.valueOf /\ Index!BlockAt(PlaceOf(d)) = first + i
    BY <1>4 DEF Middle
  <2>2. CASE d \in DOMAIN range.valueOf
    <3>1. PICK k \in Nat : k = Index!BlockAt(PlaceOf(d))
      BY <1>2, <2>2
    <3>2. PICK p \in Nat : p = PlaceOf(d)
      BY <1>1, <2>2
    <3>3. (\E i \in 1..(last - first - 1) : k = first + i) <=> ~ (k <= first) /\ k < last
      <4>1. ~ (k <= first) /\ k < last =>
              k - first \in 1..(last - first - 1) /\ k = first + (k - first)
        OBVIOUS
      <4> QED
        BY <4>1
    <3>4. k <= first <=> p <= first * BlockSize + BlockSize
      BY <1>2, <2>2, <3>1, <3>2
    <3>5. k < last <=> p <= last * BlockSize
      BY <1>2, <2>2, <3>1, <3>2
    <3>6. first * BlockSize + BlockSize \in Nat
      BY <1>1
    <3>7. d \in HeldAt(first * BlockSize + BlockSize, last * BlockSize)
            <=> ~ (p <= first * BlockSize + BlockSize) /\ p <= last * BlockSize
      <4>1. PICK a \in Nat : a = first * BlockSize + BlockSize
        BY <3>6
      <4> QED
        BY <2>2, <3>2, <4>1 DEF HeldAt
    <3> QED
      BY <2>1, <2>2, <3>1, <3>3, <3>4, <3>5, <3>7
  <2>3. CASE d \notin DOMAIN range.valueOf
    BY <2>1, <2>3 DEF HeldAt
  <2> QED
    BY <2>2, <2>3
<1> HIDE DEF s
<1>7. UNION Index!Range(s) = HeldAt(first * BlockSize + BlockSize, last * BlockSize)
  BY <1>6 DEF Index!Range
<1> QED
  BY <1>5, <1>7 DEF s

(* A range over several blocks: what it has of the first, the blocks       *)
(* between, what it has of the last.                                       *)
Across(start, end, first, last) ==
  Slice(start, Index!Min({end, (first + 1) * BlockSize}))
    \o Middle(first, last) \o Slice(last * BlockSize, end)

(* The bitmaps of a range, its slices and the blocks between them named.   *)
LEMMA PartsNamed ==
  ASSUME NEW min, NEW max, NEW start, start = Index!Start(min), NEW end, end = Index!End(max),
         NEW first, first = Index!BlockAt(start + 1), NEW last, last = Index!BlockAt(end)
  PROVE  /\ min > max \/ start >= end => Index!Parts(min, max) = <<>>
         /\ ~ (min > max \/ start >= end) /\ first = last =>
              Index!Parts(min, max) = Slice(start, end)
         /\ ~ (min > max \/ start >= end) /\ first # last =>
              Index!Parts(min, max) = Across(start, end, first, last)
BY DEF Index!Parts, Across, Slice, Middle

(* A range finds the documents whose value is in it, from the slices of    *)
(* its first and last block and the whole blocks between.                  *)
LEMMA LookupFinds ==
  ASSUME Index!IndexAssumption, RangeInv(range), ~ range.dirty,
         NEW min \in Int, NEW max \in Int
  PROVE  Index!LookupRange(min, max)
           = {d \in DOMAIN range.valueOf : range.valueOf[d] \in min..max}
<1> DEFINE n == Cardinality(DOMAIN range.postings)
           values == range.sorted
           below == {i \in DOMAIN values : values[i] < min}
           upTo == {i \in DOMAIN values : values[i] <= max}
           found == {d \in DOMAIN range.valueOf : range.valueOf[d] \in min..max}
<1>1. /\ n \in Nat /\ DOMAIN values = 1..n /\ BlockSize \in Nat \ {0}
      /\ \A d \in DOMAIN range.valueOf :
           /\ PlaceOf(d) \in 1..n /\ range.valueOf[d] = values[PlaceOf(d)]
           /\ range.valueOf[d] \in Int
      /\ \A i \in 1..n : values[i] \in Int
      /\ \A i, j \in 1..n : i < j <=> values[i] < values[j]
  BY Directory DEF Index!IndexAssumption
<1>2. PICK start \in 0..n : /\ start = Index!Start(min)
                            /\ \A i \in 1..n : values[i] < min <=> i <= start
  <2>1. \A i \in below, j \in 1..n : j < i => j \in below
    <3>1. ASSUME NEW i \in 1..n, values[i] < min, NEW j \in 1..n, j < i PROVE values[j] < min
      <4>1. values[j] < values[i] /\ values[i] \in Int /\ values[j] \in Int
        BY <1>1, <3>1
      <4>2. PICK x \in Int, y \in Int : x = values[i] /\ y = values[j]
        BY <4>1
      <4> QED
        BY <3>1, <4>1, <4>2
    <3> QED
      BY <1>1, <3>1
  <2>2. below \in SUBSET (1..n)
    BY <1>1
  <2>3. \A i \in 1..n : i \in below <=> values[i] < min
    BY <1>1
  <2>4. Index!Start(min) = Cardinality(below)
    BY SameCount DEF Index!Start
  <2> HIDE DEF below
  <2> QED
    BY <1>1, <2>1, <2>2, <2>3, <2>4, InitialSegment
<1>3. PICK end \in 0..n : /\ end = Index!End(max)
                          /\ \A i \in 1..n : values[i] <= max <=> i <= end
  <2>1. \A i \in upTo, j \in 1..n : j < i => j \in upTo
    <3>1. ASSUME NEW i \in 1..n, values[i] <= max, NEW j \in 1..n, j < i PROVE values[j] <= max
      <4>1. values[j] < values[i] /\ values[i] \in Int /\ values[j] \in Int
        BY <1>1, <3>1
      <4>2. PICK x \in Int, y \in Int : x = values[i] /\ y = values[j]
        BY <4>1
      <4> QED
        BY <3>1, <4>1, <4>2
    <3> QED
      BY <1>1, <3>1
  <2>2. upTo \in SUBSET (1..n)
    BY <1>1
  <2>3. \A i \in 1..n : i \in upTo <=> values[i] <= max
    BY <1>1
  <2>4. Index!End(max) = Cardinality(upTo)
    BY SameCount DEF Index!End
  <2> HIDE DEF upTo
  <2> QED
    BY <1>1, <2>1, <2>2, <2>3, <2>4, InitialSegment
<1>4. found = HeldAt(start, end)
  <2>1. ASSUME NEW d \in DOMAIN range.valueOf
        PROVE  range.valueOf[d] \in min..max <=> start < PlaceOf(d) /\ PlaceOf(d) <= end
    <3>1. PICK p \in 1..n : p = PlaceOf(d)
      BY <1>1
    <3>2. PICK v \in Int : v = range.valueOf[d] /\ v = values[p]
      BY <1>1, <3>1
    <3>3. (v < min <=> p <= start) /\ (v <= max <=> p <= end)
      BY <1>2, <1>3, <3>2
    <3> QED
      BY <3>1, <3>2, <3>3
  <2> QED
    BY <2>1 DEF HeldAt
<1> HIDE DEF values, below, upTo, found
<1>5. CASE min > max \/ start >= end
  <2>1. Index!LookupRange(min, max) = {}
    <3>1. Index!Parts(min, max) = <<>>
      BY <1>2, <1>3, <1>5, PartsNamed
    <3> QED
      BY <3>1 DEF Index!LookupRange, Index!Range
  <2>2. found = {}
    <3>1. CASE min > max
      BY <3>1 DEF found
    <3>2. CASE start >= end
      <4>1. \A d \in DOMAIN range.valueOf : PlaceOf(d) \in Int
        BY <1>1
      <4> QED
        BY <1>4, <3>2, <4>1 DEF HeldAt
    <3> QED
      BY <1>5, <3>1, <3>2
  <2> QED
    BY <2>1, <2>2 DEF found
<1>6. CASE ~ (min > max \/ start >= end)
  <2>0. start \in Nat /\ end \in Nat /\ start < end /\ end <= n
    BY <1>1, <1>6
  <2>1. PICK first \in Nat : /\ first = Index!BlockAt(start + 1)
                             /\ start + 1 <= first * BlockSize + BlockSize
                             /\ ~ (start + 1 <= first * BlockSize)
    <3>1. Index!BlockAt(start + 1) \in Nat /\ start + 1 \in Nat \ {0}
      BY <2>0, PlaceInBlock
    <3>2. PICK first \in Nat : first = Index!BlockAt(start + 1)
      BY <3>1
    <3> QED
      BY <3>1, <3>2, PlaceInBlock
  <2>2. PICK last \in Nat : /\ last = Index!BlockAt(end)
                            /\ end <= last * BlockSize + BlockSize
                            /\ ~ (end <= last * BlockSize)
    <3>1. Index!BlockAt(end) \in Nat /\ end \in Nat \ {0}
      BY <2>0, PlaceInBlock
    <3>2. PICK last \in Nat : last = Index!BlockAt(end)
      BY <3>1
    <3> QED
      BY <3>1, <3>2, PlaceInBlock
  <2>3. CASE first = last
    <3>1. Index!Parts(min, max) = Slice(start, end)
      BY <1>2, <1>3, <1>6, <2>1, <2>2, <2>3, PartsNamed
    <3>2. UNION Index!Range(Slice(start, end)) = HeldAt(start, end)
      BY <2>0, SliceHolds
    <3> QED
      BY <1>4, <3>1, <3>2 DEF Index!LookupRange, found
  <2>4. CASE first # last
    <3> DEFINE a == first * BlockSize + BlockSize
               b == last * BlockSize
    <3>1. a \in Nat /\ b \in Nat /\ start < a /\ a <= b /\ b < end /\ first < last
          /\ (first + 1) * BlockSize = a
      <4>1. PICK B \in Nat \ {0} : B = BlockSize
        BY <1>1
      <4>2. first * B \in Nat /\ last * B \in Nat /\ (first + 1) * B = first * B + B
        OBVIOUS
      <4>3. start + 1 <= first * B + B /\ last * B < end /\ first * B <= start
        BY <2>0, <2>1, <2>2, <4>1, <4>2
      <4>4. first < last
        <5>1. CASE last < first
          <6>1. last * B + B <= first * B
            <7>1. (last + 1) * B <= first * B /\ (last + 1) * B = last * B + B
              BY <5>1
            <7> QED
              BY <7>1
          <6>2. end <= last * B + B
            BY <2>2, <4>1
          <6> QED
            BY <2>0, <4>2, <4>3, <6>1, <6>2
        <5> QED
          BY <2>4, <5>1
      <4>5. first * B + B <= last * B
        <5>1. (first + 1) * B <= last * B
          BY <4>4
        <5> QED
          BY <4>2, <5>1
      <4> QED
        BY <2>0, <4>1, <4>2, <4>3, <4>4, <4>5
    <3>2. Index!Min({end, (first + 1) * BlockSize}) = a
      <4>1. \A x \in {end, a} : (\A y \in {end, a} : x <= y) <=> x = a
        BY <2>0, <3>1
      <4> HIDE DEF a
      <4> QED
        BY <3>1, <4>1 DEF Index!Min
    <3>3. Index!Parts(min, max) = Slice(start, a) \o Middle(first, last) \o Slice(b, end)
      <4>1. Index!Parts(min, max) = Across(start, end, first, last)
        BY <1>2, <1>3, <1>6, <2>1, <2>2, <2>4, PartsNamed
      <4> QED
        BY <3>2, <4>1 DEF Across
    <3>4. /\ Slice(start, a) \in Bitmaps /\ UNION Index!Range(Slice(start, a)) = HeldAt(start, a)
          /\ Slice(b, end) \in Bitmaps /\ UNION Index!Range(Slice(b, end)) = HeldAt(b, end)
      <4> HIDE DEF a, b
      <4>1. a <= n /\ b <= n /\ start <= a /\ b <= end
        BY <1>1, <2>0, <3>1
      <4>2. Slice(start, a) \in Bitmaps /\ UNION Index!Range(Slice(start, a)) = HeldAt(start, a)
        BY <2>0, <3>1, <4>1, SliceHolds
      <4>3. Slice(b, end) \in Bitmaps /\ UNION Index!Range(Slice(b, end)) = HeldAt(b, end)
        BY <2>0, <3>1, <4>1, SliceHolds
      <4> QED
        BY <4>2, <4>3
    <3>5. /\ Middle(first, last) \in Bitmaps
          /\ UNION Index!Range(Middle(first, last)) = HeldAt(a, b)
      BY <1>1, <2>0, <3>1, MiddleHolds
    <3>6. UNION Index!Range(Index!Parts(min, max))
            = (HeldAt(start, a) \cup HeldAt(a, b)) \cup HeldAt(b, end)
      <4> HIDE DEF a, b
      <4>1. PICK s : s = Slice(start, a)
        OBVIOUS
      <4>2. PICK m : m = Middle(first, last)
        OBVIOUS
      <4>3. PICK t : t = Slice(b, end)
        OBVIOUS
      <4>4. PICK D : D = SUBSET DOMAIN range.valueOf
        OBVIOUS
      <4>5. IsSeqOf(D, s) /\ IsSeqOf(D, m) /\ IsSeqOf(D, t)
        BY <3>4, <3>5, <4>1, <4>2, <4>3, <4>4 DEF Bitmaps, IsSeqOf
      <4>6. PICK u : u = Joint(s, m)
        OBVIOUS
      <4>7. PICK w : w = Joint(u, t)
        OBVIOUS
      <4>8. /\ IsSeqOf(D, u)
            /\ UNION Index!Range(u) = (UNION Index!Range(s)) \cup (UNION Index!Range(m))
        BY <4>5, <4>6, ConcatUnion
      <4>9. UNION Index!Range(w) = (UNION Index!Range(u)) \cup (UNION Index!Range(t))
        BY <4>5, <4>7, <4>8, ConcatUnion
      <4>10. Index!Parts(min, max) = w
        BY <3>3, <4>1, <4>2, <4>3, <4>6, <4>7 DEF Joint
      <4> QED
        BY <3>4, <3>5, <4>1, <4>2, <4>3, <4>8, <4>9, <4>10
    <3>7. (HeldAt(start, a) \cup HeldAt(a, b)) \cup HeldAt(b, end) = HeldAt(start, end)
      <4> HIDE DEF a, b
      <4>1. ASSUME NEW d \in DOMAIN range.valueOf
            PROVE  start < PlaceOf(d) /\ PlaceOf(d) <= end
                     <=> \/ start < PlaceOf(d) /\ PlaceOf(d) <= a
                         \/ a < PlaceOf(d) /\ PlaceOf(d) <= b
                         \/ b < PlaceOf(d) /\ PlaceOf(d) <= end
        <5>1. PICK p \in Nat : p = PlaceOf(d)
          BY <1>1
        <5> QED
          BY <2>0, <3>1, <5>1
      <4> QED
        BY <4>1 DEF HeldAt
    <3> QED
      BY <1>4, <3>6, <3>7 DEF Index!LookupRange, found
  <2> QED
    BY <2>3, <2>4
<1> QED
  BY <1>5, <1>6 DEF found

-------------------------------------------------------------------------------
(* The indexes file each waiting ticket under its value and its keys, and  *)
(* nothing else.                                                           *)
ValuesFiled ==
  /\ DOMAIN range.valueOf = {d \in indexed : snapshots[d].value # NoValue}
  /\ \A d \in DOMAIN range.valueOf : range.valueOf[d] = snapshots[d].value

KeysFiled ==
  /\ DOMAIN multi.keysOf = {d \in indexed : Index!KeysOf(snapshots[d]) # {}}
  /\ \A d \in DOMAIN multi.keysOf : multi.keysOf[d] = Index!KeysOf(snapshots[d])

IndexInv ==
  /\ indexed \subseteq Docs
  /\ DOMAIN snapshots = indexed
  /\ \A d \in indexed : snapshots[d] \in Tickets
  /\ session \in BOOLEAN
  /\ RangeInv(range)
  /\ session => ~ range.dirty
  /\ InvertsSets(multi.postings, multi.keysOf)
  /\ ValuesFiled
  /\ KeysFiled

LEMMA IndexInit ==
  ASSUME Index!IndexAssumption, Index!Init
  PROVE  IndexInv
<1>1. /\ indexed = {} /\ snapshots = Index!Empty /\ session = FALSE
      /\ range = [postings |-> Index!Empty, valueOf |-> Index!Empty, sorted |-> <<>>,
                  dirty |-> FALSE, blocks |-> <<>>, blockOf |-> Index!Empty]
      /\ multi = [postings |-> Index!Empty, keysOf |-> Index!Empty]
  BY DEF Index!Init
<1>2. DOMAIN Index!Empty = {}
  BY DEF Index!Empty, Index!Restrict
<1>3. IsFiniteSet({}) /\ Cardinality({}) = 0
  BY FS_EmptySet
<1>4. <<>> = Index!Ascending({}) /\ DOMAIN <<>> = 1..0
  BY <1>3, SameCount DEF Index!Ascending
<1>5. RangeRecord(range)
  BY <1>1 DEF RangeRecord
<1>6. /\ DOMAIN range.postings = {} /\ DOMAIN range.valueOf = {} /\ range.sorted = <<>>
      /\ DOMAIN range.blockOf = {} /\ range.blocks = <<>> /\ ~ range.dirty
      /\ range.dirty \in BOOLEAN
      /\ DOMAIN multi.postings = {} /\ DOMAIN multi.keysOf = {}
  BY <1>1, <1>2
<1>7. Prepared(range)
  <2>1. PICK B \in Nat \ {0} : B = BlockSize
    BY DEF Index!IndexAssumption
  <2>2. (B - 1) \div B = 0
    <3>1. (B - 1) \div B \in Nat /\ ((B - 1) \div B <= 0 <=> B - 1 < 0 * B + B)
      BY Quotient
    <3>2. PICK k \in Nat : k = (B - 1) \div B
      BY <3>1
    <3> QED
      BY <3>1, <3>2
  <2>3. (Cardinality(DOMAIN range.postings) + BlockSize - 1) \div BlockSize = 0
    BY <1>3, <1>6, <2>1, <2>2
  <2>4. range.sorted = Index!Ascending(DOMAIN range.postings)
    BY <1>4, <1>6
  <2>5. DOMAIN range.blocks = 1..0
    BY <1>4, <1>6
  <2> QED
    BY <1>6, <2>3, <2>4, <2>5 DEF Prepared
<1>8. BlocksFiled(range)
  BY <1>4, <1>6 DEF BlocksFiled, FiledIn
<1>9. RangeInv(range)
  <2>1. Inverts(range.postings, range.valueOf)
    BY <1>6 DEF Inverts
  <2>2. {range.sorted[i] : i \in DOMAIN range.sorted} = DOMAIN range.blockOf
    BY <1>4, <1>6
  <2> QED
    BY <1>3, <1>5, <1>6, <1>7, <1>8, <2>1, <2>2 DEF RangeInv
<1>10. InvertsSets(multi.postings, multi.keysOf)
  BY <1>6 DEF InvertsSets
<1>11. ValuesFiled /\ KeysFiled
  BY <1>1, <1>6 DEF ValuesFiled, KeysFiled
<1> QED
  BY <1>1, <1>2, <1>6, <1>9, <1>10, <1>11 DEF IndexInv

(* What an added, and a removed, ticket does to a snapshot map.            *)
LEMMA AddDocKeeps ==
  ASSUME Index!IndexAssumption, IndexInv,
         NEW d \in Docs, NEW ticket \in Tickets, Index!AddDoc(d, ticket)
  PROVE  IndexInv'
<1>1. /\ d \notin indexed /\ indexed' = indexed \cup {d} /\ session' = FALSE
      /\ snapshots' = Index!Put(snapshots, d, ticket)
      /\ range' = Index!AddRange(range, d, ticket.value)
      /\ multi' = Index!AddKeys(multi, d, Index!KeysOf(ticket))
  BY DEF Index!AddDoc
<1>2. /\ DOMAIN snapshots = indexed /\ RangeInv(range)
      /\ InvertsSets(multi.postings, multi.keysOf)
      /\ ValuesFiled /\ KeysFiled
  BY DEF IndexInv
<1>3. /\ DOMAIN snapshots' = indexed' /\ snapshots'[d] = ticket
      /\ \A e \in indexed : snapshots'[e] = snapshots[e]
  BY <1>1, <1>2 DEF Index!Put
<1>4. RangeInv(range') /\ ValuesFiled'
  <2>1. CASE ticket.value = NoValue
    <3>1. range' = range
      BY <1>1, <2>1 DEF Index!AddRange
    <3> QED
      BY <1>1, <1>2, <1>3, <2>1, <3>1 DEF ValuesFiled
  <2>2. CASE ticket.value # NoValue
    <3>1. {ticket.value} \subseteq Int
      BY <2>2 DEF Index!IndexAssumption
    <3>2. d \notin DOMAIN range.valueOf
      BY <1>1, <1>2 DEF ValuesFiled
    <3>3. PICK v : v = ticket.value
      OBVIOUS
    <3>4. PICK r : r = range
      OBVIOUS
    <3>5. PICK q : q = range'
      OBVIOUS
    <3>6. q = Index!AddRange(r, d, v)
      BY <1>1, <3>3, <3>4, <3>5
    <3>7. RangeInv(r) /\ d \notin DOMAIN r.valueOf /\ {v} \subseteq Int /\ v # NoValue
      BY <1>2, <2>2, <3>1, <3>2, <3>3, <3>4
    <3>8. /\ RangeInv(q)
          /\ DOMAIN q.valueOf = DOMAIN r.valueOf \cup {d} /\ q.valueOf[d] = v
          /\ \A e \in DOMAIN r.valueOf : q.valueOf[e] = r.valueOf[e]
      BY <3>6, <3>7, AddRangeInv
    <3>9. RangeInv(range')
      BY <3>5, <3>8
    <3>10. ValuesFiled'
      BY <1>1, <1>2, <1>3, <2>2, <3>3, <3>4, <3>5, <3>8 DEF ValuesFiled
    <3> QED
      BY <3>9, <3>10
  <2> QED
    BY <2>1, <2>2
<1>5. InvertsSets(multi'.postings, multi'.keysOf) /\ KeysFiled'
  <2>1. PICK keys : keys = Index!KeysOf(ticket)
    OBVIOUS
  <2>2. PICK m : m = multi
    OBVIOUS
  <2>3. PICK n : n = multi'
    OBVIOUS
  <2>4. n = Index!AddKeys(m, d, keys) /\ InvertsSets(m.postings, m.keysOf)
          /\ d \notin DOMAIN m.keysOf
    BY <1>1, <1>2, <2>1, <2>2, <2>3 DEF KeysFiled
  <2>5. CASE keys = {}
    <3>1. n = m
      BY <2>4, <2>5 DEF Index!AddKeys
    <3>2. InvertsSets(multi'.postings, multi'.keysOf)
      BY <1>2, <2>2, <2>3, <3>1
    <3>3. multi' = multi /\ Index!KeysOf(ticket) = {}
      BY <2>1, <2>2, <2>3, <2>5, <3>1
    <3>4. DOMAIN multi'.keysOf = {e \in indexed' : Index!KeysOf(snapshots'[e]) # {}}
      <4>1. ASSUME NEW e
            PROVE  e \in DOMAIN multi'.keysOf
                     <=> e \in indexed' /\ Index!KeysOf(snapshots'[e]) # {}
        <5>1. CASE e = d
          BY <1>1, <1>2, <1>3, <3>3, <5>1 DEF KeysFiled
        <5>2. CASE e # d
          BY <1>1, <1>2, <1>3, <3>3, <5>2 DEF KeysFiled
        <5> QED
          BY <5>1, <5>2
      <4> QED
        BY <4>1
    <3>5. \A e \in DOMAIN multi'.keysOf : multi'.keysOf[e] = Index!KeysOf(snapshots'[e])
      BY <1>2, <1>3, <3>3 DEF KeysFiled
    <3> QED
      BY <3>2, <3>4, <3>5 DEF KeysFiled
  <2>6. CASE keys # {}
    <3>1. /\ InvertsSets(n.postings, n.keysOf)
          /\ DOMAIN n.keysOf = DOMAIN m.keysOf \cup {d} /\ n.keysOf[d] = keys
          /\ \A e \in DOMAIN m.keysOf : n.keysOf[e] = m.keysOf[e]
      BY <2>4, <2>6, AddKeysInverts
    <3>2. InvertsSets(multi'.postings, multi'.keysOf)
      BY <2>3, <3>1
    <3>3. KeysFiled'
      BY <1>1, <1>2, <1>3, <2>1, <2>2, <2>3, <2>6, <3>1 DEF KeysFiled
    <3> QED
      BY <3>2, <3>3
  <2> QED
    BY <2>5, <2>6
<1> QED
  BY <1>1, <1>3, <1>4, <1>5 DEF IndexInv

LEMMA RemoveDocKeeps ==
  ASSUME IndexInv, NEW d \in Docs, Index!RemoveDoc(d)
  PROVE  IndexInv'
<1>1. /\ d \in indexed /\ indexed' = indexed \ {d} /\ session' = FALSE
      /\ snapshots' = Index!Restrict(snapshots, indexed \ {d})
      /\ range' = Index!RemoveRange(range, d)
      /\ multi' = Index!RemoveKeys(multi, d)
  BY DEF Index!RemoveDoc
<1>2. /\ DOMAIN snapshots = indexed /\ RangeInv(range)
      /\ InvertsSets(multi.postings, multi.keysOf)
      /\ ValuesFiled /\ KeysFiled
  BY DEF IndexInv
<1>3. /\ DOMAIN snapshots' = indexed'
      /\ \A e \in indexed' : snapshots'[e] = snapshots[e]
  BY <1>1, <1>2 DEF Index!Restrict
<1>4. RangeInv(range') /\ ValuesFiled'
  <2>1. CASE d \notin DOMAIN range.valueOf
    <3>1. range' = range
      BY <1>1, <2>1 DEF Index!RemoveRange
    <3> QED
      BY <1>1, <1>2, <1>3, <2>1, <3>1 DEF ValuesFiled
  <2>2. CASE d \in DOMAIN range.valueOf
    <3>1. PICK r : r = range
      OBVIOUS
    <3>2. PICK q : q = range'
      OBVIOUS
    <3>3. q = Index!RemoveRange(r, d) /\ RangeInv(r) /\ d \in DOMAIN r.valueOf
      BY <1>1, <1>2, <2>2, <3>1, <3>2
    <3>4. /\ RangeInv(q)
          /\ DOMAIN q.valueOf = DOMAIN r.valueOf \ {d}
          /\ \A e \in DOMAIN q.valueOf : q.valueOf[e] = r.valueOf[e]
      BY <3>3, RemoveRangeInv
    <3>5. RangeInv(range')
      BY <3>2, <3>4
    <3>6. ValuesFiled'
      <4>1. DOMAIN range'.valueOf = {e \in indexed : snapshots[e].value # NoValue} \ {d}
        BY <1>2, <3>1, <3>2, <3>4 DEF ValuesFiled
      <4>2. ASSUME NEW e
            PROVE  e \in DOMAIN range'.valueOf <=> e \in indexed' /\ snapshots'[e].value # NoValue
        BY <1>1, <1>3, <4>1
      <4>3. DOMAIN range'.valueOf = {e \in indexed' : snapshots'[e].value # NoValue}
        BY <4>2
      <4>4. ASSUME NEW e \in DOMAIN range'.valueOf
            PROVE  range'.valueOf[e] = snapshots'[e].value
        BY <1>2, <1>3, <3>1, <3>2, <3>4, <4>2 DEF ValuesFiled
      <4> QED
        BY <4>3, <4>4 DEF ValuesFiled
    <3> QED
      BY <3>5, <3>6
  <2> QED
    BY <2>1, <2>2
<1>5. InvertsSets(multi'.postings, multi'.keysOf) /\ KeysFiled'
  <2>1. PICK m : m = multi
    OBVIOUS
  <2>2. PICK n : n = multi'
    OBVIOUS
  <2>3. n = Index!RemoveKeys(m, d) /\ InvertsSets(m.postings, m.keysOf)
    BY <1>1, <1>2, <2>1, <2>2
  <2>4. /\ InvertsSets(n.postings, n.keysOf)
        /\ DOMAIN n.keysOf = DOMAIN m.keysOf \ {d}
        /\ \A e \in DOMAIN n.keysOf : n.keysOf[e] = m.keysOf[e]
    BY <2>3, RemoveKeysInverts
  <2>5. InvertsSets(multi'.postings, multi'.keysOf)
    BY <2>2, <2>4
  <2>6. KeysFiled'
    <3>1. DOMAIN multi'.keysOf = {e \in indexed : Index!KeysOf(snapshots[e]) # {}} \ {d}
      BY <1>2, <2>1, <2>2, <2>4 DEF KeysFiled
    <3>2. ASSUME NEW e
          PROVE  e \in DOMAIN multi'.keysOf <=> e \in indexed' /\ Index!KeysOf(snapshots'[e]) # {}
      BY <1>1, <1>3, <3>1
    <3>3. DOMAIN multi'.keysOf = {e \in indexed' : Index!KeysOf(snapshots'[e]) # {}}
      BY <3>2
    <3>4. ASSUME NEW e \in DOMAIN multi'.keysOf
          PROVE  multi'.keysOf[e] = Index!KeysOf(snapshots'[e])
      BY <1>2, <1>3, <2>1, <2>2, <2>4, <3>2 DEF KeysFiled
    <3> QED
      BY <3>3, <3>4 DEF KeysFiled
  <2> QED
    BY <2>5, <2>6
<1> QED
  BY <1>1, <1>3, <1>4, <1>5 DEF IndexInv

LEMMA BeginTickKeeps ==
  ASSUME Index!IndexAssumption, IndexInv, Index!BeginTick
  PROVE  IndexInv'
<1>1. /\ range' = Index!Prepare(range) /\ session' = TRUE
      /\ UNCHANGED <<indexed, snapshots, multi>>
  BY DEF Index!BeginTick
<1>2. PICK r : r = range
  OBVIOUS
<1>3. PICK q : q = range'
  OBVIOUS
<1>4. q = Index!Prepare(r) /\ RangeInv(r)
  BY <1>1, <1>2, <1>3 DEF IndexInv
<1>5. RangeInv(q) /\ ~ q.dirty /\ q.valueOf = r.valueOf
  BY <1>4, PrepareInv
<1>6. RangeInv(range') /\ ~ range'.dirty /\ range'.valueOf = range.valueOf
  BY <1>2, <1>3, <1>5
<1>7. ValuesFiled' /\ KeysFiled'
  BY <1>1, <1>6 DEF IndexInv, ValuesFiled, KeysFiled
<1> QED
  BY <1>1, <1>6, <1>7 DEF IndexInv

LEMMA IndexStep ==
  ASSUME Index!IndexAssumption, IndexInv, [Index!Next]_(Index!vars)
  PROVE  IndexInv'
<1>1. CASE Index!Next
  <2>1. \/ \E d \in Docs : Index!RemoveDoc(d)
        \/ \E d \in Docs, t \in Tickets : Index!AddDoc(d, t)
        \/ Index!BeginTick
    BY <1>1 DEF Index!Next
  <2> QED
    BY <2>1, AddDocKeeps, RemoveDocKeeps, BeginTickKeeps
<1>2. CASE UNCHANGED Index!vars
  <2>1. UNCHANGED <<indexed, snapshots, range, multi, session>>
    BY <1>2 DEF Index!vars
  <2> QED
    BY <2>1 DEF IndexInv, ValuesFiled, KeysFiled
<1> QED
  BY <1>1, <1>2

-------------------------------------------------------------------------------
(* In a session every range finds exactly the waiting tickets whose value  *)
(* is in it, and every set of keys, at any time, those that have one of    *)
(* them, for any block size and whatever came and went since the directory *)
(* was built (int64_range_index.go and multi_value_index.go).              *)
THEOREM CandidatesFound ==
  Index!IndexAssumption => (Index!Spec => [](Index!RangeFound /\ Index!KeysFound))
<1> SUFFICES ASSUME Index!IndexAssumption
             PROVE  Index!Spec => [](Index!RangeFound /\ Index!KeysFound)
  OBVIOUS
<1>1. IndexInv => Index!RangeFound
  <2> SUFFICES ASSUME IndexInv, session, NEW min \in Index!Bounds, NEW max \in Index!Bounds
               PROVE  /\ Index!LookupRange(min, max) = Index!InRange(min, max)
                      /\ {d \in Docs : Index!ContainsRange(min, max, d)}
                           = Index!InRange(min, max)
    BY DEF Index!RangeFound
  <2>1. min \in Int /\ max \in Int
    <3>1. \A v \in Index!Values : v \in Int
      BY DEF Index!Values, Index!IndexAssumption
    <3> QED
      BY <3>1 DEF Index!Bounds
  <2>2. /\ RangeInv(range) /\ ~ range.dirty /\ indexed \subseteq Docs /\ ValuesFiled
    BY DEF IndexInv
  <2>3. Index!InRange(min, max) = {d \in DOMAIN range.valueOf : range.valueOf[d] \in min..max}
    BY <2>2 DEF Index!InRange, ValuesFiled
  <2>4. Index!LookupRange(min, max) = Index!InRange(min, max)
    BY <2>1, <2>2, <2>3, LookupFinds
  <2>5. {d \in Docs : Index!ContainsRange(min, max, d)} = Index!InRange(min, max)
    BY <2>2, <2>3 DEF Index!ContainsRange, ValuesFiled
  <2> QED
    BY <2>4, <2>5
<1>2. IndexInv => Index!KeysFound
  <2> SUFFICES ASSUME IndexInv, NEW keys \in SUBSET Index!Keys
               PROVE  /\ Index!LookupKeys(keys) = Index!HasOne(keys)
                      /\ \A d \in Docs :
                           Index!ContainsKeys(keys, d) <=> d \in Index!HasOne(keys)
    BY DEF Index!KeysFound
  <2>1. InvertsSets(multi.postings, multi.keysOf) /\ KeysFiled
    BY DEF IndexInv
  <2>2. ASSUME NEW k, NEW d
        PROVE  d \in Index!At(multi.postings, k)
                 <=> d \in indexed /\ k \in Index!KeysOf(snapshots[d])
    <3>1. Index!At(multi.postings, k) = {e \in DOMAIN multi.keysOf : k \in multi.keysOf[e]}
      BY <2>1 DEF Index!At, InvertsSets
    <3> QED
      BY <2>1, <3>1 DEF KeysFiled
  <2>3. ASSUME NEW d
        PROVE  (\E k \in keys : d \in Index!At(multi.postings, k)) <=> d \in Index!HasOne(keys)
    BY <2>2 DEF Index!HasOne
  <2>4. Index!LookupKeys(keys) = Index!HasOne(keys)
    BY <2>3 DEF Index!LookupKeys
  <2>5. \A d \in Docs : Index!ContainsKeys(keys, d) <=> d \in Index!HasOne(keys)
    BY <2>3 DEF Index!ContainsKeys
  <2> QED
    BY <2>4, <2>5
<1> QED
  BY <1>1, <1>2, IndexInit, IndexStep, PTL DEF Index!Spec

(* A ticket that left, or was refused, is in no bitmap, and no bitmap is   *)
(* left of a value or a key that no waiting ticket has, through any        *)
(* sequence of AddDoc, RemoveDoc and BeginTick (store.go).                 *)
THEOREM NothingStaysBehind ==
  Index!IndexAssumption => (Index!Spec => []Index!NothingLeftBehind)
<1> SUFFICES ASSUME Index!IndexAssumption PROVE Index!Spec => []Index!NothingLeftBehind
  OBVIOUS
<1>1. IndexInv => Index!NothingLeftBehind
  <2> SUFFICES ASSUME IndexInv PROVE Index!NothingLeftBehind
    OBVIOUS
  <2>1. /\ RangeInv(range) /\ InvertsSets(multi.postings, multi.keysOf)
        /\ ValuesFiled /\ KeysFiled
    BY DEF IndexInv
  <2>2. DOMAIN range.valueOf \subseteq indexed
    BY <2>1 DEF ValuesFiled
  <2>3. \A i \in DOMAIN range.blocks : range.blocks[i] \subseteq indexed
    BY <2>1, <2>2 DEF RangeInv, BlocksFiled, FiledIn
  <2>4. DOMAIN range.postings = {snapshots[d].value : d \in DOMAIN range.valueOf}
    BY <2>1 DEF RangeInv, Inverts, ValuesFiled
  <2>5. \A v \in DOMAIN range.postings : range.postings[v] \subseteq indexed
    BY <2>1, <2>2 DEF RangeInv, Inverts
  <2>6. DOMAIN multi.postings = UNION {Index!KeysOf(snapshots[d]) : d \in indexed}
    <3>1. ASSUME NEW k
          PROVE  k \in DOMAIN multi.postings
                   <=> \E d \in DOMAIN multi.keysOf : k \in multi.keysOf[d]
      BY <2>1 DEF InvertsSets
    <3>2. ASSUME NEW k
          PROVE  (\E d \in DOMAIN multi.keysOf : k \in multi.keysOf[d])
                   <=> \E d \in indexed : k \in Index!KeysOf(snapshots[d])
      BY <2>1 DEF KeysFiled
    <3> QED
      BY <3>1, <3>2
  <2> QED
    BY <2>1, <2>3, <2>4, <2>5, <2>6 DEF Index!NothingLeftBehind, ValuesFiled, KeysFiled
<1> QED
  BY <1>1, IndexInit, IndexStep, PTL DEF Index!Spec

(* The directory and the blocks name the same values at every step.        *)
THEOREM IndexTypeCorrect ==
  Index!IndexAssumption => (Index!Spec => []Index!TypeOK)
<1> SUFFICES ASSUME Index!IndexAssumption PROVE Index!Spec => []Index!TypeOK
  OBVIOUS
<1>1. IndexInv => Index!TypeOK
  BY DEF IndexInv, RangeInv, Index!TypeOK, Index!Range
<1> QED
  BY <1>1, IndexInit, IndexStep, PTL DEF Index!Spec
===============================================================================
