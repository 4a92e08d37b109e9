----------------------------- MODULE Locks_proofs -----------------------------
(***************************************************************************)
(* The locks of the program, for every set of threads.                     *)
(*                                                                         *)
(* The two kinds of locks of a buffer pool keep it together, whatever the  *)
(* threads and the limit: every space is on the list or has the users it   *)
(* counts, the assertions hold, and each operation appears to happen at    *)
(* one instant.  After it come the lock of the ring buffer and the list of *)
(* launched threads.                                                       *)
(***************************************************************************)
EXTENDS MCLocks, FiniteSetTheorems, SequenceTheorems, TLAPS

\* The places at which a thread holds the lock of its space.
HoldingUse == {"getTwist", "dropReturn", "dropTwist", "lastTwist"}

\* The threads that the value of a space's lock counts.
UsersOf(s) == {t \in Threads : space[t] = s /\ pc[t] # "getTwist"}

\* A lock has the owner that the places of the threads say it has.
LocksHaveOwners ==
    /\ \A t \in Threads : haveOwner = t <=> pc[t] = "getSpace"
    /\ \A t \in Threads, s \in Spaces :
          useOwner[s] = t <=> space[t] = s /\ pc[t] \in HoldingUse

\* The value of a space's lock is the number of its users.
UseCountsTheUsers == \A s \in Spaces : useValue[s] = Cardinality(UsersOf(s))

\* Where a thread is in an operation tells whether it has a space, and how many
\* use the space then.
PlacesOK ==
    \A t \in Threads :
      /\ pc[t] \in {"getPossess", "getSpace"} => space[t] = NoSpace
      /\ pc[t] \in HoldingUse => space[t] # NoSpace
      /\ pc[t] = "getTwist" => useValue[space[t]] = 0
      /\ pc[t] \in {"dropReturn", "lastTwist"} => useValue[space[t]] = 1
      /\ pc[t] = "dropTwist" => useValue[space[t]] > 1

\* A space is on the list unless a thread has it that has not just put it there.
ListHasTheFree ==
    /\ \A i \in DOMAIN head : head[i] \in 1..made
    /\ \A t \in Threads : space[t] <= made
    /\ \A s \in 1..made :
          s \in ToSet(head) <=> \A t \in Threads : space[t] = s => pc[t] = "lastTwist"

\* Whoever was let past the limit finds a space.
LimitOK == \A t \in Threads : pc[t] = "getSpace" /\ limit = 0 => head # <<>>

IInv == /\ TypeOK /\ LocksHaveOwners /\ UseCountsTheUsers /\ PlacesOK
        /\ HaveCountsTheList /\ ListHasTheFree /\ LimitOK /\ NoAssertionFails
-----------------------------------------------------------------------------
(* The list.                                                               *)

NoneTwice(list) == \A i, j \in DOMAIN list : list[i] = list[j] => i = j

LEMMA Pulled ==
    ASSUME NEW S, NEW list \in Seq(S), list # <<>>, NoneTwice(list)
    PROVE  /\ Tail(list) \in Seq(S) /\ Len(Tail(list)) = Len(list) - 1
           /\ Head(list) \in ToSet(list) /\ Head(list) = list[1] /\ Len(list) \in Nat \ {0}
           /\ ToSet(Tail(list)) = ToSet(list) \ {Head(list)}
           /\ NoneTwice(Tail(list))
  <1>1. /\ Len(list) \in Nat \ {0} /\ DOMAIN list = 1..Len(list) /\ Head(list) = list[1]
    BY EmptySeq, LenProperties
  <1>2. /\ Tail(list) \in Seq(S) /\ Len(Tail(list)) = Len(list) - 1
        /\ DOMAIN Tail(list) = 1..Len(list) - 1
        /\ \A i \in 1..Len(list) - 1 : Tail(list)[i] = list[i + 1]
    BY <1>1, HeadTailProperties, LenProperties
  <1>3. \A i \in DOMAIN list : i # 1 => i - 1 \in DOMAIN Tail(list) /\ list[i] = Tail(list)[i - 1]
    BY <1>1, <1>2
  <1>4. \A i \in DOMAIN Tail(list) : i + 1 \in DOMAIN list /\ i + 1 # 1
    BY <1>1, <1>2
  <1>5. ToSet(Tail(list)) = ToSet(list) \ {Head(list)}
    <2>1. ASSUME NEW x \in ToSet(Tail(list)) PROVE x \in ToSet(list) \ {Head(list)}
      <3>1. PICK i \in DOMAIN Tail(list) : x = Tail(list)[i]
        BY <2>1 DEF ToSet
      <3> QED BY <3>1, <1>1, <1>2, <1>4 DEF ToSet, NoneTwice
    <2>2. ASSUME NEW x \in ToSet(list) \ {Head(list)} PROVE x \in ToSet(Tail(list))
      <3>1. PICK i \in DOMAIN list : x = list[i]
        BY <2>2 DEF ToSet
      <3> QED BY <2>2, <3>1, <1>1, <1>3 DEF ToSet
    <2> QED BY <2>1, <2>2
  <1>6. NoneTwice(Tail(list))
    BY <1>1, <1>2, <1>4 DEF NoneTwice
  <1>7. Head(list) \in ToSet(list)
    BY <1>1 DEF ToSet
  <1> QED BY <1>1, <1>2, <1>5, <1>6, <1>7

LEMMA Pushed ==
    ASSUME NEW S, NEW list \in Seq(S), NEW s \in S, s \notin ToSet(list), NoneTwice(list)
    PROVE  /\ <<s>> \o list \in Seq(S) /\ Len(<<s>> \o list) = Len(list) + 1
           /\ ToSet(<<s>> \o list) = ToSet(list) \cup {s}
           /\ NoneTwice(<<s>> \o list)
  <1> DEFINE more == <<s>> \o list
  <1>1. /\ Len(list) \in Nat /\ DOMAIN list = 1..Len(list)
    BY LenProperties
  <1>2. <<s>> \in Seq(S) /\ Len(<<s>>) = 1 /\ <<s>>[1] = s
    OBVIOUS
  <1>3. /\ more \in Seq(S) /\ Len(more) = Len(list) + 1 /\ DOMAIN more = 1..Len(list) + 1
        /\ more[1] = s /\ \A i \in 2..Len(list) + 1 : more[i] = list[i - 1]
    BY <1>1, <1>2, ConcatProperties, LenProperties
  <1>4. \A i \in DOMAIN list : i + 1 \in DOMAIN more /\ more[i + 1] = list[i]
    BY <1>1, <1>3
  <1>5. \A i \in DOMAIN more : i = 1 \/ (i - 1 \in DOMAIN list /\ more[i] = list[i - 1])
    BY <1>1, <1>3
  <1>6. ToSet(more) = ToSet(list) \cup {s}
    <2>1. ASSUME NEW x \in ToSet(more) PROVE x \in ToSet(list) \cup {s}
      <3>1. PICK i \in DOMAIN more : x = more[i]
        BY <2>1 DEF ToSet
      <3> QED BY <3>1, <1>3, <1>5 DEF ToSet
    <2>2. ASSUME NEW x \in ToSet(list) \cup {s} PROVE x \in ToSet(more)
      <3>1. CASE x = s
        BY <3>1, <1>1, <1>3 DEF ToSet
      <3>2. CASE x \in ToSet(list)
        <4>1. PICK i \in DOMAIN list : x = list[i]
          BY <3>2 DEF ToSet
        <4> QED BY <4>1, <1>4 DEF ToSet
      <3> QED BY <3>1, <3>2
    <2> QED BY <2>1, <2>2
  <1>7. NoneTwice(more)
    <2> SUFFICES ASSUME NEW i \in DOMAIN more, NEW j \in DOMAIN more, more[i] = more[j] PROVE i = j
      BY DEF NoneTwice
    <2>1. CASE i = 1 /\ j = 1
      BY <2>1
    <2>2. CASE i = 1 /\ j # 1
      BY <2>2, <1>3, <1>5 DEF ToSet
    <2>3. CASE i # 1 /\ j = 1
      BY <2>3, <1>3, <1>5 DEF ToSet
    <2>4. CASE i # 1 /\ j # 1
      <3>1. i - 1 = j - 1
        BY <2>4, <1>5 DEF NoneTwice
      <3> QED BY <3>1, <1>1, <1>3
    <2> QED BY <2>1, <2>2, <2>3, <2>4
  <1> QED BY <1>3, <1>6, <1>7

\* A list that has each of the first n numbers once, and nothing else, is n long.
LEMMA ListOfAll ==
    ASSUME NEW n \in Nat, NEW list \in Seq(1..n), NoneTwice(list), \A s \in 1..n : s \in ToSet(list)
    PROVE  Len(list) = n
  <1>1. /\ Len(list) \in Nat /\ DOMAIN list = 1..Len(list) /\ list \in [1..Len(list) -> 1..n]
    BY LenProperties
  <1>2. list \in Bijection(1..Len(list), 1..n)
    BY <1>1 DEF Bijection, Injection, Surjection, IsInjective, NoneTwice, ToSet
  <1>3. /\ IsFiniteSet(1..Len(list)) /\ Cardinality(1..Len(list)) = Len(list)
        /\ Cardinality(1..n) = n
    <2>1. \A m \in Nat : IsFiniteSet(1..m) /\ Cardinality(1..m) = m
      BY FS_Interval
    <2> QED BY <2>1, <1>1
  <1> QED BY <1>2, <1>3, FS_Bijection DEF ExistsBijection
-----------------------------------------------------------------------------
(* The steps.                                                              *)

LEMMA UsersAreFinite ==
    ASSUME NEW s
    PROVE  IsFiniteSet(UsersOf(s)) /\ Cardinality(UsersOf(s)) \in Nat
  <1>1. UsersOf(s) \in SUBSET Threads
    BY DEF UsersOf
  <1> QED BY <1>1, ThreadsAssumption, FS_Subset, FS_CardinalityType

LEMMA SpacesAreNumbers ==
    /\ Cardinality(Threads) \in Nat
    /\ \A s \in Spaces : s \in Nat /\ s # NoSpace
    /\ \A n \in 0..Cardinality(Threads) : 1..n \subseteq Spaces
  BY ThreadsAssumption, FS_CardinalityType DEF Spaces, NoSpace

LEMMA InitHolds == Init => IInv
  <1> SUFFICES ASSUME Init PROVE IInv
    OBVIOUS
  <1> USE DEF Init
  <1>1. TypeOK
    BY LimitAssumption, SpacesAreNumbers DEF TypeOK
  <1>2. LocksHaveOwners /\ PlacesOK /\ LimitOK /\ NoAssertionFails
    BY ThreadsAssumption DEF LocksHaveOwners, PlacesOK, LimitOK, NoAssertionFails, HoldingUse
  <1>3. UseCountsTheUsers
    <2>1. \A s \in Spaces : UsersOf(s) = {}
      BY SpacesAreNumbers DEF UsersOf
    <2> QED BY <2>1, FS_EmptySet DEF UseCountsTheUsers
  <1>4. HaveCountsTheList /\ ListHasTheFree
    BY DEF HaveCountsTheList, ListHasTheFree, NoSpace, ToSet
  <1> QED BY <1>1, <1>2, <1>3, <1>4 DEF IInv

\* The users stay when no thread comes or goes.
LEMMA SameUsers ==
    ASSUME IInv, UNCHANGED <<space, useValue>>,
           \A t \in Threads : pc'[t] = "getTwist" <=> pc[t] = "getTwist"
    PROVE  UseCountsTheUsers'
  <1>1. \A s : UsersOf(s)' = UsersOf(s)
    BY DEF UsersOf
  <1> QED BY <1>1 DEF IInv, UseCountsTheUsers

LEMMA CallGetKeepsIInv ==
    ASSUME IInv, NEW t \in Threads, CallGet(t) PROVE IInv'
  <1> USE DEF IInv, CallGet, Goto
  <1>1. TypeOK'
    BY DEF TypeOK
  <1>2. \A u \in Threads : pc'[u] = IF u = t THEN "getPossess" ELSE pc[u]
    BY DEF TypeOK
  <1>3. UseCountsTheUsers'
    BY <1>2, SameUsers
  <1>4. LocksHaveOwners' /\ PlacesOK' /\ LimitOK' /\ NoAssertionFails'
    BY <1>2 DEF LocksHaveOwners, PlacesOK, LimitOK, NoAssertionFails, HoldingUse
  <1>5. HaveCountsTheList' /\ ListHasTheFree'
    BY <1>2 DEF HaveCountsTheList, ListHasTheFree
  <1> QED BY <1>1, <1>3, <1>4, <1>5

LEMMA GetPossessKeepsIInv ==
    ASSUME IInv, NEW t \in Threads, GetPossess(t) PROVE IInv'
  <1> USE DEF IInv, GetPossess, Goto
  <1>1. TypeOK'
    BY DEF TypeOK
  <1>2. \A u \in Threads : pc'[u] = IF u = t THEN "getSpace" ELSE pc[u]
    BY DEF TypeOK
  <1>3. UseCountsTheUsers'
    BY <1>2, SameUsers
  <1>4. limit = 0 => head # <<>>
    BY DEF HaveCountsTheList
  <1>5. LocksHaveOwners' /\ PlacesOK' /\ LimitOK' /\ NoAssertionFails'
    BY <1>2, <1>4, ThreadsAssumption
    DEF LocksHaveOwners, PlacesOK, LimitOK, NoAssertionFails, HoldingUse
  <1>6. HaveCountsTheList' /\ ListHasTheFree'
    BY <1>2 DEF HaveCountsTheList, ListHasTheFree
  <1> QED BY <1>1, <1>3, <1>5, <1>6

\* A space on the list whose lock is free is used by nobody.
LEMMA ListedIsUnused ==
    ASSUME IInv, NEW s \in ToSet(head), useOwner[s] = NoOne
    PROVE  /\ s \in 1..made /\ s \in Spaces /\ useValue[s] = 0
           /\ \A t \in Threads : space[t] # s
  <1> USE DEF IInv
  <1>1. s \in 1..made /\ s \in Spaces
    BY SpacesAreNumbers DEF ToSet, ListHasTheFree, TypeOK
  <1>2. \A t \in Threads : space[t] # s
    BY <1>1, ThreadsAssumption DEF ListHasTheFree, LocksHaveOwners, HoldingUse
  <1>3. UsersOf(s) = {}
    BY <1>2 DEF UsersOf
  <1>4. useValue[s] = 0
    BY <1>1, <1>3, FS_EmptySet DEF UseCountsTheUsers
  <1> QED BY <1>1, <1>2, <1>4

LEMMA GetPullKeepsIInv ==
    ASSUME IInv, NEW t \in Threads, GetPull(t) PROVE IInv'
  <1> USE DEF IInv, Goto
  <1> DEFINE s == Head(head)
  <1>1. /\ pc[t] = "getSpace" /\ space[t] = NoSpace /\ haveOwner = t
        /\ head \in Seq(Spaces) /\ head # <<>> /\ NoneTwice(head) /\ useOwner[s] = NoOne
    BY DEF GetPull, TypeOK, PlacesOK, LocksHaveOwners, HaveCountsTheList, NoneTwice
  <1>2. /\ head' \in Seq(Spaces) /\ Len(head') = Len(head) - 1 /\ Len(head) \in Nat \ {0}
        /\ s \in ToSet(head) /\ ToSet(head') = ToSet(head) \ {s}
        /\ NoneTwice(head')
    BY <1>1, Pulled DEF GetPull
  <1>3. /\ s \in 1..made /\ s \in Spaces /\ s # NoSpace /\ useValue[s] = 0
        /\ \A u \in Threads : space[u] # s
    BY <1>1, <1>2, ListedIsUnused, SpacesAreNumbers
  <1>4. /\ \A u \in Threads : pc'[u] = IF u = t THEN "getTwist" ELSE pc[u]
        /\ \A u \in Threads : space'[u] = IF u = t THEN s ELSE space[u]
        /\ \A x \in Spaces : useOwner'[x] = IF x = s THEN t ELSE useOwner[x]
        /\ UNCHANGED <<limit, made, useValue>> /\ haveOwner' = NoOne /\ haveValue' = haveValue - 1
    BY <1>3 DEF GetPull, TypeOK
  <1>5. TypeOK'
    BY <1>1, <1>2, <1>3, <1>4 DEF GetPull, TypeOK, HaveCountsTheList
  <1>6. LocksHaveOwners'
    BY <1>1, <1>3, <1>4, ThreadsAssumption DEF LocksHaveOwners, HoldingUse
  <1>7. UseCountsTheUsers'
    <2>1. \A x \in Spaces : UsersOf(x)' = UsersOf(x)
      BY <1>1, <1>3, <1>4, SpacesAreNumbers DEF UsersOf
    <2> QED BY <2>1, <1>4 DEF UseCountsTheUsers
  <1>8. PlacesOK'
    BY <1>1, <1>3, <1>4 DEF PlacesOK, HoldingUse
  <1>9. HaveCountsTheList'
    BY <1>2, <1>4 DEF HaveCountsTheList, NoneTwice
  <1>10. ListHasTheFree'
    <2>1. \A i \in DOMAIN head' : head'[i] \in 1..made
      BY <1>2 DEF ToSet, ListHasTheFree
    <2>2. ASSUME NEW x \in 1..made
          PROVE  x \in ToSet(head') <=> \A u \in Threads : space'[u] = x => pc'[u] = "lastTwist"
      <3>1. CASE x = s
        BY <3>1, <1>2, <1>4
      <3>2. CASE x # s
        <4>1. \A u \in Threads : (space'[u] = x => pc'[u] = "lastTwist") <=> (space[u] = x => pc[u] = "lastTwist")
          BY <3>2, <1>1, <1>4 DEF NoSpace
        <4> QED BY <4>1, <3>2, <1>2 DEF ListHasTheFree
      <3> QED BY <3>1, <3>2
    <2>3. \A u \in Threads : space'[u] <= made'
      BY <1>3, <1>4 DEF ListHasTheFree
    <2> QED BY <2>1, <2>2, <2>3, <1>4 DEF ListHasTheFree
  <1>11. LimitOK' /\ NoAssertionFails'
    BY <1>1, <1>4 DEF LimitOK, NoAssertionFails, LocksHaveOwners
  <1> QED BY <1>5, <1>6, <1>7, <1>8, <1>9, <1>10, <1>11

LEMMA GetTwistKeepsIInv ==
    ASSUME IInv, NEW t \in Threads, GetTwist(t) PROVE IInv'
  <1> USE DEF IInv, Goto
  <1> DEFINE s == space[t]
  <1>1. /\ pc[t] = "getTwist" /\ s \in Spaces /\ s # NoSpace /\ useValue[s] = 0 /\ useOwner[s] = t
    BY DEF GetTwist, TypeOK, PlacesOK, HoldingUse, LocksHaveOwners
  <1>2. /\ \A u \in Threads : pc'[u] = IF u = t THEN "idle" ELSE pc[u]
        /\ \A x \in Spaces : useOwner'[x] = IF x = s THEN NoOne ELSE useOwner[x]
        /\ \A x \in Spaces : useValue'[x] = IF x = s THEN 1 ELSE useValue[x]
        /\ UNCHANGED <<limit, made, head, haveValue, haveOwner, space>>
    BY <1>1 DEF GetTwist, TypeOK
  <1>3. TypeOK'
    BY <1>1, <1>2 DEF GetTwist, TypeOK
  <1>4. \A u \in Threads : space[u] = s /\ u # t => pc[u] \notin HoldingUse
    BY <1>1 DEF LocksHaveOwners
  <1>5. LocksHaveOwners'
    BY <1>1, <1>2, <1>4, ThreadsAssumption DEF LocksHaveOwners, HoldingUse
  <1>6. UsersOf(s) = {}
    BY <1>1, UsersAreFinite, FS_EmptySet DEF UseCountsTheUsers
  <1>7. \A u \in Threads : space[u] = s => u = t
    BY <1>4, <1>6 DEF UsersOf, HoldingUse
  <1>8. UseCountsTheUsers'
    <2>1. UsersOf(s)' = {t}
      BY <1>2, <1>7 DEF UsersOf
    <2>2. \A x \in Spaces : x # s => UsersOf(x)' = UsersOf(x)
      BY <1>2 DEF UsersOf
    <2>3. Cardinality({t}) = 1
      BY ONLY FS_Singleton
    <2> QED BY <2>1, <2>2, <2>3, <1>2, SMTT(30) DEF UseCountsTheUsers
  <1>9. PlacesOK'
    BY <1>1, <1>2, <1>4, <1>7 DEF PlacesOK, HoldingUse, TypeOK
  <1>10. HaveCountsTheList' /\ ListHasTheFree' /\ LimitOK' /\ NoAssertionFails'
    BY <1>1, <1>2 DEF HaveCountsTheList, ListHasTheFree, LimitOK, NoAssertionFails
  <1> QED BY <1>3, <1>5, <1>8, <1>9, <1>10

\* When nothing is on the list, and a thread has no space, not all threads have one.
LEMMA RoomForOne ==
    ASSUME IInv, NEW t \in Threads, space[t] = NoSpace, head = <<>>
    PROVE  made < Cardinality(Threads)
  <1> DEFINE holder == [s \in 1..made |-> CHOOSE u \in Threads : space[u] = s]
  <1>1. made \in Nat /\ \A s \in 1..made : s # NoSpace /\ s \notin ToSet(head)
    BY SpacesAreNumbers DEF IInv, TypeOK, ToSet, NoSpace
  <1>2. \A s \in 1..made : \E u \in Threads : space[u] = s
    BY <1>1 DEF IInv, ListHasTheFree
  <1>3. \A s \in 1..made : holder[s] \in Threads /\ space[holder[s]] = s
    BY <1>2
  <1>4. holder \in Injection(1..made, Threads \ {t})
    BY <1>1, <1>3 DEF Injection, IsInjective
  <1>5. IsFiniteSet(Threads \ {t}) /\ Cardinality(Threads \ {t}) = Cardinality(Threads) - 1
    BY ThreadsAssumption, FS_RemoveElement
  <1>6. Cardinality(1..made) = made
    BY <1>1, FS_Interval
  <1>7. Cardinality(1..made) <= Cardinality(Threads \ {t})
    BY <1>4, <1>5, FS_Injection
  <1> QED BY <1>1, <1>5, <1>6, <1>7, SpacesAreNumbers

LEMMA GetMakeKeepsIInv ==
    ASSUME IInv, NEW t \in Threads, GetMake(t) PROVE IInv'
  <1> USE DEF IInv, Goto
  <1>0. PICK s : s = made + 1
    OBVIOUS
  <1>1. /\ pc[t] = "getSpace" /\ space[t] = NoSpace /\ haveOwner = t
        /\ head = <<>> /\ limit # 0 /\ made \in Nat
    BY SpacesAreNumbers DEF GetMake, TypeOK, PlacesOK, LocksHaveOwners, LimitOK
  <1>2. made + 1 <= Cardinality(Threads) /\ s \in Spaces /\ s # NoSpace
    BY <1>0, <1>1, RoomForOne, SpacesAreNumbers DEF Spaces, NoSpace
  <1>3. /\ \A u \in Threads : pc'[u] = IF u = t THEN "idle" ELSE pc[u]
        /\ \A u \in Threads : space'[u] = IF u = t THEN s ELSE space[u]
        /\ \A x \in Spaces : useValue'[x] = IF x = s THEN 1 ELSE useValue[x]
        /\ made' = s /\ haveOwner' = NoOne
        /\ limit' = IF limit > 0 THEN limit - 1 ELSE limit
        /\ UNCHANGED <<head, haveValue, useOwner>>
    BY <1>0, <1>1, <1>2 DEF GetMake, TypeOK
  <1>4. \A u \in Threads : space[u] # s
    BY <1>0, <1>1, SpacesAreNumbers DEF ListHasTheFree, TypeOK, NoSpace
  <1>5. TypeOK'
    <2>1. pc' \in [Threads -> {"idle", "getPossess", "getSpace", "getTwist", "dropReturn",
                              "dropTwist", "lastTwist", "assertFailed"}]
      BY <1>1 DEF GetMake, TypeOK
    <2>2. /\ space' = [space EXCEPT ![t] = s] /\ useValue' = [useValue EXCEPT ![s] = 1]
      BY <1>0, <1>1 DEF GetMake
    <2>3. space' \in [Threads -> Spaces \cup {NoSpace}] /\ useValue' \in [Spaces -> Nat]
      BY <2>2, <1>2 DEF TypeOK
    <2>4. limit' \in Nat \cup {-1} /\ made' \in 0..Cardinality(Threads)
      BY <1>0, <1>1, <1>2, <1>3, SpacesAreNumbers DEF TypeOK
    <2> QED BY <2>1, <2>3, <2>4, <1>3 DEF TypeOK
  <1>6. LocksHaveOwners'
    BY <1>1, <1>3, <1>4, ThreadsAssumption DEF LocksHaveOwners, HoldingUse
  <1>7. UseCountsTheUsers'
    <2>1. UsersOf(s)' = {t}
      BY <1>3, <1>4 DEF UsersOf
    <2>2. \A x \in Spaces : x # s => UsersOf(x)' = UsersOf(x)
      BY <1>1, <1>3, SpacesAreNumbers DEF UsersOf
    <2> QED BY <2>1, <2>2, <1>3, FS_Singleton DEF UseCountsTheUsers
  <1>8. PlacesOK'
    BY <1>1, <1>3, <1>4 DEF PlacesOK, HoldingUse, TypeOK
  <1>9. HaveCountsTheList'
    BY <1>3 DEF HaveCountsTheList
  <1>10. ListHasTheFree'
    <2>1. \A u \in Threads : space'[u] <= made'
      <3>1. \A u \in Threads : space[u] \in Nat
        BY SpacesAreNumbers DEF TypeOK, NoSpace
      <3> QED BY <3>1, <1>0, <1>1, <1>3 DEF ListHasTheFree
    <2>2. ASSUME NEW x \in 1..made'
          PROVE  x \in ToSet(head') <=> \A u \in Threads : space'[u] = x => pc'[u] = "lastTwist"
      <3>1. CASE x = s
        BY <3>1, <1>1, <1>3 DEF ToSet
      <3>2. CASE x # s
        <4>1. x \in 1..made /\ x # NoSpace
          BY <3>2, <1>0, <1>1, <1>3 DEF NoSpace
        <4>2. \A u \in Threads : (space'[u] = x => pc'[u] = "lastTwist") <=> (space[u] = x => pc[u] = "lastTwist")
          BY <3>2, <4>1, <1>1, <1>3
        <4> QED BY <4>1, <4>2, <1>3 DEF ListHasTheFree
      <3> QED BY <3>1, <3>2
    <2> QED BY <2>1, <2>2, <1>1, <1>3 DEF ListHasTheFree
  <1>11. LimitOK' /\ NoAssertionFails'
    BY <1>1, <1>3 DEF LimitOK, NoAssertionFails, LocksHaveOwners
  <1> QED BY <1>5, <1>6, <1>7, <1>8, <1>9, <1>10, <1>11

LEMMA UseSpaceKeepsIInv ==
    ASSUME IInv, NEW t \in Threads, NEW u \in Threads, UseSpace(t, u) PROVE IInv'
  <1> USE DEF IInv
  <1> DEFINE s == space[t]
  <1>1. /\ pc[t] = "idle" /\ s \in Spaces /\ s # NoSpace /\ s \in 1..made /\ useOwner[s] = NoOne
        /\ pc[u] = "idle" /\ space[u] = NoSpace
    BY SpacesAreNumbers DEF UseSpace, TypeOK, ListHasTheFree, NoSpace
  <1>2. /\ \A v \in Threads : space'[v] = IF v = u THEN s ELSE space[v]
        /\ \A x \in Spaces : useValue'[x] = IF x = s THEN useValue[x] + 1 ELSE useValue[x]
        /\ UNCHANGED <<limit, made, head, haveValue, haveOwner, useOwner, pc>>
    BY <1>1 DEF UseSpace, TypeOK
  <1>3. TypeOK'
    BY <1>1, <1>2 DEF UseSpace, TypeOK
  <1>4. \A v \in Threads : space[v] = s => pc[v] \notin HoldingUse
    BY <1>1, ThreadsAssumption DEF LocksHaveOwners
  <1>5. LocksHaveOwners'
    BY <1>1, <1>2, <1>4, ThreadsAssumption DEF LocksHaveOwners, HoldingUse
  <1>6. UseCountsTheUsers'
    <2>1. UsersOf(s)' = UsersOf(s) \cup {u} /\ u \notin UsersOf(s)
      BY <1>1, <1>2 DEF UsersOf
    <2>2. \A x \in Spaces : x # s => UsersOf(x)' = UsersOf(x)
      BY <1>1, <1>2, SpacesAreNumbers DEF UsersOf
    <2>3. Cardinality(UsersOf(s) \cup {u}) = Cardinality(UsersOf(s)) + 1
      BY <2>1, UsersAreFinite, FS_AddElement
    <2> QED BY <2>1, <2>2, <2>3, <1>2 DEF UseCountsTheUsers
  <1>7. PlacesOK'
    <2> SUFFICES ASSUME NEW v \in Threads, pc[v] # "idle"
                 PROVE  /\ space'[v] = space[v]
                        /\ pc[v] \in HoldingUse => useValue'[space[v]] = useValue[space[v]]
      BY <1>2 DEF PlacesOK, HoldingUse
    <2>1. v # u
      BY <1>1
    <2>2. pc[v] \in HoldingUse => space[v] # s /\ space[v] \in Spaces
      BY <1>4 DEF PlacesOK, TypeOK
    <2> QED BY <2>1, <2>2, <1>2
  <1>8. HaveCountsTheList' /\ LimitOK' /\ NoAssertionFails'
    BY <1>2 DEF HaveCountsTheList, LimitOK, NoAssertionFails
  <1>9. ListHasTheFree'
    <2>1. ASSUME NEW x \in 1..made
          PROVE  x \in ToSet(head) <=> \A v \in Threads : space'[v] = x => pc[v] = "lastTwist"
      <3>1. CASE x = s
        BY <3>1, <1>1, <1>2 DEF ListHasTheFree
      <3>2. CASE x # s
        <4>1. \A v \in Threads : (space'[v] = x => pc[v] = "lastTwist") <=> (space[v] = x => pc[v] = "lastTwist")
          BY <3>2, <1>1, <1>2 DEF NoSpace
        <4> QED BY <4>1 DEF ListHasTheFree
      <3> QED BY <3>1, <3>2
    <2> QED BY <2>1, <1>1, <1>2 DEF ListHasTheFree
  <1> QED BY <1>3, <1>5, <1>6, <1>7, <1>8, <1>9

LEMMA DropPossessKeepsIInv ==
    ASSUME IInv, NEW t \in Threads, DropPossess(t) PROVE IInv'
  <1> USE DEF IInv, Goto
  <1> DEFINE s == space[t]
  <1>1. pc[t] = "idle" /\ s \in Spaces /\ s # NoSpace /\ useOwner[s] = NoOne
    BY DEF DropPossess, TypeOK
  <1>2. useValue[s] \in Nat \ {0}
    <2>1. t \in UsersOf(s)
      BY <1>1 DEF UsersOf
    <2> QED BY <2>1, <1>1, UsersAreFinite, FS_EmptySet DEF UseCountsTheUsers
  <1>3. /\ \A u \in Threads : pc'[u] = IF u # t THEN pc[u]
                                      ELSE IF useValue[s] = 1 THEN "dropReturn" ELSE "dropTwist"
        /\ \A x \in Spaces : useOwner'[x] = IF x = s THEN t ELSE useOwner[x]
        /\ UNCHANGED <<limit, made, head, haveValue, haveOwner, useValue, space>>
    BY <1>1, <1>2 DEF DropPossess, TypeOK
  <1>4. TypeOK'
    <2>1. pc' = [pc EXCEPT ![t] = IF useValue[s] = 1 THEN "dropReturn" ELSE "dropTwist"]
      BY <1>2 DEF DropPossess
    <2> QED BY <2>1, <1>1, <1>3 DEF DropPossess, TypeOK
  <1>5. LocksHaveOwners'
    BY <1>1, <1>3, ThreadsAssumption DEF LocksHaveOwners, HoldingUse
  <1>6. UseCountsTheUsers'
    BY <1>1, <1>3, SameUsers
  <1>7. PlacesOK'
    BY <1>1, <1>2, <1>3 DEF PlacesOK, HoldingUse, TypeOK
  <1>8. HaveCountsTheList' /\ ListHasTheFree' /\ LimitOK' /\ NoAssertionFails'
    BY <1>1, <1>3 DEF HaveCountsTheList, ListHasTheFree, LimitOK, NoAssertionFails
  <1> QED BY <1>4, <1>5, <1>6, <1>7, <1>8

\* Whoever puts a space back is the only one that has it.
LEMMA LastUserIsAlone ==
    ASSUME IInv, NEW t \in Threads, pc[t] \in {"dropReturn", "lastTwist"}
    PROVE  \A u \in Threads : space[u] = space[t] => u = t
  <1> USE DEF IInv
  <1>1. space[t] \in Spaces /\ useValue[space[t]] = 1 /\ useOwner[space[t]] = t
    BY DEF PlacesOK, LocksHaveOwners, HoldingUse, TypeOK
  <1>2. Cardinality(UsersOf(space[t])) = 1 /\ t \in UsersOf(space[t])
    BY <1>1 DEF UseCountsTheUsers, UsersOf
  <1>3. UsersOf(space[t]) = {t}
    BY <1>2, UsersAreFinite, FS_Singleton
  <1>4. \A u \in Threads : u # t /\ space[u] = space[t] => pc[u] \notin HoldingUse
    BY <1>1 DEF LocksHaveOwners
  <1> QED BY <1>3, <1>4 DEF UsersOf, HoldingUse

LEMMA DropReturnKeepsIInv ==
    ASSUME IInv, NEW t \in Threads, DropReturn(t) PROVE IInv'
  <1> USE DEF IInv, Goto
  <1>0. PICK s : s = space[t]
    OBVIOUS
  <1>1. /\ pc[t] = "dropReturn" /\ s \in Spaces /\ s # NoSpace /\ s \in 1..made
        /\ useValue[s] = 1 /\ useOwner[s] = t /\ haveOwner = NoOne
        /\ head \in Seq(Spaces) /\ NoneTwice(head) /\ haveValue = Len(head)
    BY <1>0, SpacesAreNumbers
    DEF DropReturn, TypeOK, PlacesOK, LocksHaveOwners, HoldingUse, HaveCountsTheList,
        ListHasTheFree, NoneTwice, NoSpace
  <1>2. s \notin ToSet(head)
    BY <1>0, <1>1 DEF ListHasTheFree
  <1>3. /\ head' \in Seq(Spaces) /\ Len(head') = Len(head) + 1
        /\ ToSet(head') = ToSet(head) \cup {s} /\ NoneTwice(head') /\ Len(head) \in Nat
    BY <1>0, <1>1, <1>2, Pushed, LenProperties DEF DropReturn
  <1>4. /\ \A u \in Threads : pc'[u] = IF u = t THEN "lastTwist" ELSE pc[u]
        /\ haveValue' = haveValue + 1
        /\ UNCHANGED <<limit, made, haveOwner, useValue, useOwner, space>>
    BY DEF DropReturn, TypeOK
  <1>5. TypeOK'
    BY <1>3 DEF DropReturn, TypeOK
  <1>6. LocksHaveOwners'
    <2>1. LocksHaveOwners
      OBVIOUS
    <2>2. \A u \in Threads : pc'[u] \in HoldingUse <=> pc[u] \in HoldingUse
      BY ONLY <1>1, <1>4 DEF HoldingUse
    <2>3. \A u \in Threads : pc'[u] = "getSpace" <=> pc[u] = "getSpace"
      BY ONLY <1>1, <1>4
    <2> QED BY ONLY <2>1, <2>2, <2>3, <1>4 DEF LocksHaveOwners
  <1>7. UseCountsTheUsers'
    BY <1>1, <1>4, SameUsers
  <1>8. PlacesOK'
    BY <1>0, <1>1, <1>4 DEF PlacesOK, HoldingUse
  <1>9. HaveCountsTheList'
    BY <1>1, <1>3, <1>4 DEF HaveCountsTheList, NoneTwice
  <1>10. ListHasTheFree'
    <2>1. \A i \in DOMAIN head' : head'[i] \in 1..made
      <3>1. \A x \in ToSet(head) : x \in 1..made
        BY DEF ToSet, ListHasTheFree
      <3>2. \A i \in DOMAIN head' : head'[i] \in ToSet(head')
        BY DEF ToSet
      <3> QED BY <3>1, <3>2, <1>1, <1>3
    <2>2. ASSUME NEW x \in 1..made
          PROVE  x \in ToSet(head') <=> \A u \in Threads : space[u] = x => pc'[u] = "lastTwist"
      <3>1. CASE x = s
        BY <3>1, <1>0, <1>1, <1>3, <1>4, LastUserIsAlone
      <3>2. CASE x # s
        BY <3>2, <1>0, <1>3, <1>4 DEF ListHasTheFree
      <3> QED BY <3>1, <3>2
    <2> QED BY <2>1, <2>2, <1>4 DEF ListHasTheFree
  <1>11. LimitOK' /\ NoAssertionFails'
    BY <1>1, <1>4, ThreadsAssumption DEF LimitOK, NoAssertionFails, LocksHaveOwners
  <1> QED BY <1>5, <1>6, <1>7, <1>8, <1>9, <1>10, <1>11

LEMMA DropTwistKeepsIInv ==
    ASSUME IInv, NEW t \in Threads, DropTwist(t) PROVE IInv'
  <1> USE DEF IInv, Goto
  <1>0. PICK s : s = space[t]
    OBVIOUS
  <1>1. /\ pc[t] \in {"dropTwist", "lastTwist"} /\ s \in Spaces /\ s # NoSpace /\ s \in 1..made
        /\ useValue[s] \in Nat \ {0} /\ useOwner[s] = t
        /\ pc[t] = "lastTwist" => useValue[s] = 1
        /\ pc[t] = "dropTwist" => useValue[s] > 1
    BY <1>0, SpacesAreNumbers
    DEF DropTwist, TypeOK, PlacesOK, LocksHaveOwners, HoldingUse, ListHasTheFree, NoSpace
  <1>2. /\ \A u \in Threads : pc'[u] = IF u = t THEN "idle" ELSE pc[u]
        /\ \A u \in Threads : space'[u] = IF u = t THEN NoSpace ELSE space[u]
        /\ \A x \in Spaces : useValue'[x] = IF x = s THEN useValue[x] - 1 ELSE useValue[x]
        /\ \A x \in Spaces : useOwner'[x] = IF x = s THEN NoOne ELSE useOwner[x]
        /\ UNCHANGED <<limit, made, head, haveValue, haveOwner>>
    BY <1>0, <1>1 DEF DropTwist, TypeOK
  <1>3. TypeOK'
    <2>1. useValue[s] - 1 \in Nat
      BY <1>1
    <2> QED BY <2>1, <1>0, <1>1 DEF DropTwist, TypeOK
  <1>4. \A u \in Threads : u # t /\ space[u] = s => pc[u] \notin HoldingUse
    BY <1>1 DEF LocksHaveOwners
  <1>5. LocksHaveOwners'
    BY <1>1, <1>2, <1>4, ThreadsAssumption DEF LocksHaveOwners, HoldingUse
  <1>6. t \in UsersOf(s) /\ Cardinality(UsersOf(s)) = useValue[s]
    BY <1>0, <1>1 DEF UsersOf, UseCountsTheUsers
  <1>7. UseCountsTheUsers'
    <2>1. UsersOf(s)' = UsersOf(s) \ {t}
      BY <1>1, <1>2 DEF UsersOf
    <2>2. \A x \in Spaces : x # s => UsersOf(x)' = UsersOf(x)
      BY <1>0, <1>2, SpacesAreNumbers DEF UsersOf
    <2>3. Cardinality(UsersOf(s) \ {t}) = Cardinality(UsersOf(s)) - 1
      BY <1>6, UsersAreFinite, FS_RemoveElement
    <2> QED BY <2>1, <2>2, <2>3, <1>2, <1>6 DEF UseCountsTheUsers
  <1>8. PlacesOK'
    <2> SUFFICES ASSUME NEW v \in Threads, v # t
                 PROVE  pc[v] \in HoldingUse => useValue'[space[v]] = useValue[space[v]]
      BY <1>2 DEF PlacesOK, HoldingUse
    <2> QED BY <1>2, <1>4 DEF PlacesOK, TypeOK
  <1>9. HaveCountsTheList' /\ LimitOK' /\ NoAssertionFails'
    BY <1>1, <1>2 DEF HaveCountsTheList, LimitOK, NoAssertionFails
  <1>10. ListHasTheFree'
    <2>1. \A u \in Threads : space'[u] <= made'
      <3>1. NoSpace <= made
        BY SpacesAreNumbers DEF TypeOK, NoSpace
      <3> QED BY <3>1, <1>2 DEF ListHasTheFree
    <2>2. ASSUME NEW x \in 1..made
          PROVE  x \in ToSet(head) <=> \A u \in Threads : space'[u] = x => pc'[u] = "lastTwist"
      <3>1. CASE x = s /\ pc[t] = "lastTwist"
        <4>1. \A u \in Threads : space[u] = s => u = t
          BY <1>0, <3>1, LastUserIsAlone
        <4> QED BY <3>1, <4>1, <1>0, <1>1, <1>2 DEF ListHasTheFree
      <3>2. CASE x = s /\ pc[t] = "dropTwist"
        <4>1. PICK u \in UsersOf(s) : u # t
          <5>1. UsersOf(s) # {t}
            <6>1. Cardinality(UsersOf(s)) # 1
              BY ONLY <1>1, <1>6, <3>2
            <6> QED BY ONLY <6>1, FS_Singleton
          <5> QED BY <5>1, <1>6
        <4>2. u \in Threads /\ space'[u] = s /\ pc'[u] # "lastTwist"
          BY <4>1, <1>2, <1>4 DEF UsersOf, HoldingUse
        <4>3. s \notin ToSet(head)
          BY <1>0, <1>1, <3>2 DEF ListHasTheFree
        <4> QED BY <3>2, <4>2, <4>3
      <3>3. CASE x # s
        <4>1. \A u \in Threads : (space'[u] = x => pc'[u] = "lastTwist") <=> (space[u] = x => pc[u] = "lastTwist")
          BY <3>3, <1>0, <1>2 DEF NoSpace
        <4> QED BY <4>1 DEF ListHasTheFree
      <3> QED BY <3>1, <3>2, <3>3, <1>1
    <2> QED BY <2>1, <2>2, <1>2 DEF ListHasTheFree
  <1> QED BY <1>3, <1>5, <1>7, <1>8, <1>9, <1>10

LEMMA RecreateKeepsIInv ==
    ASSUME IInv, Recreate PROVE IInv'
  <1> USE DEF IInv
  <1>1. \A t \in Threads : pc[t] = "idle" /\ space[t] = NoSpace
    BY DEF Recreate
  <1>2. Len(head) = made
    <2>1. made \in Nat /\ head \in Seq(Spaces) /\ NoneTwice(head)
      BY SpacesAreNumbers DEF TypeOK, HaveCountsTheList, NoneTwice
    <2>2. head \in Seq(1..made)
      <3>1. Len(head) \in Nat /\ head \in [1..Len(head) -> 1..made]
        BY <2>1, LenProperties DEF ListHasTheFree
      <3> QED BY <3>1, SeqDef
    <2>3. \A s \in 1..made : s \in ToSet(head)
      BY <1>1 DEF ListHasTheFree, NoSpace
    <2> QED BY <2>1, <2>2, <2>3, ListOfAll
  <1>3. /\ limit' = Limit /\ made' = 0 /\ head' = <<>> /\ haveValue' = 0
        /\ UNCHANGED <<haveOwner, useValue, useOwner, pc, space>>
    BY <1>2 DEF Recreate
  <1>4. TypeOK'
    BY <1>3, LimitAssumption, SpacesAreNumbers DEF TypeOK
  <1>5. UseCountsTheUsers'
    BY <1>3, SameUsers
  <1>6. LocksHaveOwners' /\ PlacesOK' /\ LimitOK' /\ NoAssertionFails'
    BY <1>1, <1>3 DEF LocksHaveOwners, PlacesOK, LimitOK, NoAssertionFails, HoldingUse
  <1>7. HaveCountsTheList' /\ ListHasTheFree'
    BY <1>1, <1>3 DEF HaveCountsTheList, ListHasTheFree, NoSpace, ToSet
  <1> QED BY <1>4, <1>5, <1>6, <1>7

LEMMA StepKeepsIInv == IInv /\ [Next]_vars => IInv'
  <1> SUFFICES ASSUME IInv, [Next]_vars PROVE IInv'
    OBVIOUS
  <1>1. ASSUME NEW t \in Threads, CallGet(t) \/ DropPossess(t) \/ Inside(t) PROVE IInv'
    BY <1>1, CallGetKeepsIInv, DropPossessKeepsIInv, GetPossessKeepsIInv, GetPullKeepsIInv,
       GetTwistKeepsIInv, GetMakeKeepsIInv, DropReturnKeepsIInv, DropTwistKeepsIInv DEF Inside
  <1>2. ASSUME NEW t \in Threads, NEW u \in Threads, UseSpace(t, u) PROVE IInv'
    BY <1>2, UseSpaceKeepsIInv
  <1>3. CASE Recreate
    BY <1>3, RecreateKeepsIInv
  <1>4. CASE UNCHANGED vars
    BY <1>4
    DEF vars, IInv, TypeOK, LocksHaveOwners, UseCountsTheUsers, UsersOf, PlacesOK,
        HaveCountsTheList, ListHasTheFree, LimitOK, NoAssertionFails
  <1> QED BY <1>1, <1>2, <1>3, <1>4 DEF Next

LEMMA InvariantHolds == Spec => []IInv
  BY InitHolds, StepKeepsIInv, PTL DEF Spec

\* No assertion of buffer_pool.c fails: a space that is dropped has a user,
\* buffer_pool_get_space lets nobody past a used-up limit who finds no space, and
\* buffer_pool_free finds all the spaces on the list.
THEOREM AssertionsHold == Spec => []NoAssertionFails
  BY InvariantHolds, PTL DEF IInv

\* The value of have is the number of spaces on the list, which has no space twice.
THEOREM CountIsRight == Spec => []HaveCountsTheList
  BY InvariantHolds, PTL DEF IInv

THEOREM TypesHold == Spec => []TypeOK
  BY InvariantHolds, PTL DEF IInv
-----------------------------------------------------------------------------
(* Nobody waits in a circle.                                               *)

\* What Inside(t) waits for.
CanGoOn(t) ==
    \/ pc[t] = "getPossess" /\ haveOwner = NoOne /\ (limit = 0 => haveValue # 0)
    \/ pc[t] = "getSpace" /\ (head # <<>> => useOwner[Head(head)] = NoOne)
    \/ pc[t] = "dropReturn" /\ haveOwner = NoOne
    \/ pc[t] \in {"getTwist", "dropTwist", "lastTwist"}

\* Somebody is inside an operation, and not waiting for a space of a pool that has
\* none left.
SomeoneIsBusy == \E t \in Threads : \/ pc[t] \notin {"idle", "getPossess"}
                                    \/ pc[t] = "getPossess" /\ (limit # 0 \/ head # <<>>)

SomeoneCanGoOn == SomeoneIsBusy => \E t \in Threads : CanGoOn(t)

\* Whoever has a lock can go on itself, or waits for one whose owner can: the owner
\* of have waits at most for the lock of a space that is on the list, whose owner
\* has put it there and waits for nothing.
LEMMA InvariantLetsGoOn == IInv => SomeoneCanGoOn
  <1> SUFFICES ASSUME IInv, SomeoneIsBusy PROVE \E t \in Threads : CanGoOn(t)
    BY DEF SomeoneCanGoOn
  <1> USE DEF IInv, CanGoOn
  <1>1. ASSUME NEW t \in Threads, pc[t] = "getSpace" PROVE \E u \in Threads : CanGoOn(u)
    <2>1. CASE head # <<>> /\ useOwner[Head(head)] # NoOne
      <3>1. head \in Seq(Spaces) /\ NoneTwice(head)
        BY DEF TypeOK, HaveCountsTheList, NoneTwice
      <3>2. Head(head) \in ToSet(head)
        BY <2>1, <3>1, Pulled
      <3>3. Head(head) \in 1..made /\ Head(head) \in Spaces
        BY <3>2, SpacesAreNumbers DEF ToSet, ListHasTheFree, TypeOK
      <3>4. PICK u \in Threads : useOwner[Head(head)] = u
        BY <2>1, <3>3 DEF TypeOK
      <3>5. pc[u] = "lastTwist"
        BY <3>2, <3>3, <3>4 DEF LocksHaveOwners, ListHasTheFree
      <3> QED BY <3>5
    <2> QED BY <1>1, <2>1
  <1>2. CASE \E t \in Threads : pc[t] = "getSpace"
    BY <1>1, <1>2
  <1>3. CASE \A t \in Threads : pc[t] # "getSpace"
    <2>1. haveOwner = NoOne
      BY <1>3 DEF LocksHaveOwners, TypeOK
    <2>2. PICK t \in Threads : \/ pc[t] \notin {"idle", "getPossess"}
                               \/ pc[t] = "getPossess" /\ (limit # 0 \/ head # <<>>)
      BY DEF SomeoneIsBusy
    <2>3. CASE pc[t] = "getPossess" /\ (limit # 0 \/ head # <<>>)
      <3>1. limit = 0 => haveValue # 0
        BY <2>3, EmptySeq DEF HaveCountsTheList, TypeOK
      <3> QED BY <2>1, <2>3, <3>1
    <2>4. CASE pc[t] \notin {"idle", "getPossess"}
      BY <2>1, <2>4, <1>3 DEF TypeOK, NoAssertionFails
    <2> QED BY <2>2, <2>3, <2>4
  <1> QED BY <1>2, <1>3

\* The operations take the two locks in opposite orders and nobody waits in a
\* circle: this is NoLockCycle, with what Inside waits for written out.
THEOREM NobodyWaitsInACircle == Spec => []SomeoneCanGoOn
  BY InvariantHolds, InvariantLetsGoOn, PTL
-----------------------------------------------------------------------------
(* Each operation appears to happen at one instant.                        *)

\* The memory of the spaces, as SharedPool sees it.
Unwritten(n) == [s \in 1..n |-> Garbage]

LEMMA OneMoreUnwritten ==
    ASSUME NEW n \in Nat
    PROVE  /\ Len(Unwritten(n)) = n
           /\ Append(Unwritten(n), Garbage) = Unwritten(n + 1)
           /\ \A s \in 1..n : [Unwritten(n) EXCEPT ![s] = Garbage] = Unwritten(n)
  BY DEF Unwritten

poolBar == [limit |-> limit, free |-> ToSet(head), data |-> Unwritten(made)]
usersBar == [t \in Threads |-> IF space[t] = NoSpace \/ pc[t] = "lastTwist" THEN {} ELSE {space[t]}]

LEMMA InitIsInit == Init => Abstract!Init
  <1> SUFFICES ASSUME Init PROVE Abstract!Init
    OBVIOUS
  <1>1. ToSet(head) = {} /\ Unwritten(made) = <<>> /\ limit = Limit
    BY DEF Init, ToSet, Unwritten
  <1>2. poolBar = Abstract!EmptyPool(Limit)
    BY <1>1 DEF poolBar, Abstract!EmptyPool
  <1>3. usersBar = [t \in Threads |-> {}]
    BY DEF Init, usersBar
  <1> QED BY <1>2, <1>3 DEF Abstract!Init, poolBar, usersBar, Unwritten

\* The mapped state stays when the list and the spaces do, and nobody puts a space back.
LEMMA Stutters ==
    ASSUME UNCHANGED <<limit, made, head, space>>,
           \A t \in Threads : space[t] # NoSpace => (pc'[t] = "lastTwist" <=> pc[t] = "lastTwist")
    PROVE  UNCHANGED Abstract!vars
  <1>1. usersBar' = usersBar
    BY DEF usersBar
  <1>2. poolBar' = poolBar
    BY DEF poolBar, Unwritten
  <1> QED BY <1>1, <1>2 DEF Abstract!vars, poolBar, usersBar, Unwritten

\* The list is taken from as Abstract!Get takes it.
LEMMA GetPullGets ==
    ASSUME IInv, NEW t \in Threads, GetPull(t) PROVE Abstract!Get(t)
  <1>0. PICK s : s = Head(head)
    OBVIOUS
  <1>1. /\ pc[t] = "getSpace" /\ space[t] = NoSpace
        /\ head \in Seq(Spaces) /\ head # <<>> /\ NoneTwice(head) /\ useOwner[s] = NoOne
    BY <1>0 DEF IInv, GetPull, TypeOK, PlacesOK, HaveCountsTheList, NoneTwice
  <1>2. s \in ToSet(head) /\ ToSet(head') = ToSet(head) \ {s}
    BY <1>0, <1>1, Pulled DEF GetPull
  <1>3. s # NoSpace /\ s \in 1..made
    BY <1>1, <1>2, ListedIsUnused, SpacesAreNumbers
  <1>4. usersBar' = [usersBar EXCEPT ![t] = {s}]
    BY <1>0, <1>1, <1>3 DEF IInv, TypeOK, GetPull, Goto, usersBar
  <1>5. usersBar[t] = {}
    BY <1>1 DEF usersBar
  <1>6. poolBar' = Abstract!AfterGet(poolBar, s) /\ s \in Abstract!Available(poolBar)
    BY <1>2 DEF GetPull, poolBar, Abstract!AfterGet, Abstract!Available
  <1> QED BY <1>4, <1>5, <1>6 DEF Abstract!Get, poolBar, usersBar, Unwritten

LEMMA GetMakeGets ==
    ASSUME IInv, NEW t \in Threads, GetMake(t) PROVE Abstract!Get(t)
  <1>0. PICK s : s = made + 1
    OBVIOUS
  <1>1. /\ pc[t] = "getSpace" /\ space[t] = NoSpace /\ head = <<>> /\ limit # 0
        /\ made \in Nat /\ limit \in Int
    BY SpacesAreNumbers DEF IInv, GetMake, TypeOK, PlacesOK, LimitOK
  <1>2. s # NoSpace /\ ToSet(head) = {}
    BY <1>0, <1>1 DEF NoSpace, ToSet
  <1>3. /\ space' = [space EXCEPT ![t] = s] /\ pc' = [pc EXCEPT ![t] = "idle"] /\ made' = s
        /\ limit' = IF limit > 0 THEN limit - 1 ELSE limit
        /\ head' = head
    BY <1>0, <1>1 DEF GetMake, Goto
  <1>4. usersBar' = [usersBar EXCEPT ![t] = {s}]
    BY <1>1, <1>2, <1>3 DEF IInv, TypeOK, usersBar
  <1>5. usersBar[t] = {}
    BY <1>1 DEF usersBar
  <1>6. Len(Unwritten(made)) = made /\ Append(Unwritten(made), Garbage) = Unwritten(s)
    BY <1>0, <1>1, OneMoreUnwritten
  <1>7. s \in Abstract!Available(poolBar)
    BY <1>0, <1>1, <1>2, <1>6 DEF poolBar, Abstract!Available, Abstract!Made
  <1>8. poolBar' = Abstract!AfterGet(poolBar, s)
    <2>1. poolBar' = [limit |-> IF limit > 0 THEN limit - 1 ELSE limit, free |-> ToSet(head),
                      data |-> Unwritten(s)]
      BY <1>3 DEF poolBar, Unwritten
    <2> QED BY <2>1, <1>2, <1>6 DEF poolBar, Abstract!AfterGet
  <1> QED BY <1>4, <1>5, <1>7, <1>8 DEF Abstract!Get, poolBar, usersBar, Unwritten

LEMMA UseSpaceShares ==
    ASSUME IInv, NEW t \in Threads, NEW u \in Threads, UseSpace(t, u) PROVE Abstract!Share(t, u)
  <1>1. usersBar[t] = {space[t]} /\ usersBar[u] = {}
    BY DEF UseSpace, usersBar
  <1>2. usersBar' = [usersBar EXCEPT ![u] = usersBar[t]]
    BY <1>1 DEF IInv, TypeOK, UseSpace, usersBar
  <1>3. poolBar' = poolBar
    BY DEF UseSpace, poolBar, Unwritten
  <1> QED BY <1>1, <1>2, <1>3 DEF Abstract!Share, poolBar, usersBar, Unwritten

LEMMA AfterDropIs ==
    ASSUME NEW upTo, NEW free, NEW data, NEW s
    PROVE  Abstract!AfterDrop([limit |-> upTo, free |-> free, data |-> data], s)
             = [limit |-> upTo, free |-> free \cup {s}, data |-> [data EXCEPT ![s] = Garbage]]
  <1> DEFINE pool == [limit |-> upTo, free |-> free, data |-> data]
             filled == [pool EXCEPT !.data[s] = Garbage]
  <1>1. filled = [limit |-> upTo, free |-> free, data |-> [data EXCEPT ![s] = Garbage]]
    OBVIOUS
  <1>2. Abstract!AfterDrop(pool, s) = [filled EXCEPT !.free = free \cup {s}]
    BY DEF Abstract!AfterDrop
  <1> QED BY <1>1, <1>2

\* The space is free for the others when it is on the list.
LEMMA DropReturnDrops ==
    ASSUME IInv, NEW t \in Threads, DropReturn(t) PROVE Abstract!Drop(t)
  <1>0. PICK s : s = space[t]
    OBVIOUS
  <1>1. /\ pc[t] = "dropReturn" /\ s # NoSpace /\ s \in 1..made /\ made \in Nat
        /\ s \in Spaces /\ head \in Seq(Spaces) /\ NoneTwice(head) /\ s \notin ToSet(head)
    BY <1>0, SpacesAreNumbers
    DEF IInv, DropReturn, PlacesOK, HoldingUse, TypeOK, ListHasTheFree, HaveCountsTheList,
        NoneTwice, NoSpace
  <1>2. ToSet(head') = ToSet(head) \cup {s}
    BY <1>0, <1>1, Pushed DEF DropReturn
  <1>3. usersBar[t] = {s} /\ usersBar' = [usersBar EXCEPT ![t] = {}]
    BY <1>0, <1>1 DEF IInv, TypeOK, DropReturn, Goto, usersBar
  <1>4. ~ \E u \in Threads \ {t} : s \in usersBar[u]
    BY <1>0, <1>1, LastUserIsAlone DEF usersBar
  <1>5. poolBar' = Abstract!AfterDrop(poolBar, s)
    <2>1. [Unwritten(made) EXCEPT ![s] = Garbage] = Unwritten(made)
      BY <1>1, OneMoreUnwritten
    <2>2. poolBar' = [limit |-> limit, free |-> ToSet(head) \cup {s}, data |-> Unwritten(made)]
      BY <1>2 DEF DropReturn, poolBar, Unwritten
    <2>3. Abstract!AfterDrop(poolBar, s) =
             [limit |-> limit, free |-> ToSet(head) \cup {s},
              data |-> [Unwritten(made) EXCEPT ![s] = Garbage]]
      BY AfterDropIs DEF poolBar
    <2> QED BY <2>1, <2>2, <2>3
  <1> QED BY <1>3, <1>4, <1>5 DEF Abstract!Drop, poolBar, usersBar, Unwritten

\* Another user is left, or the space was free already.
LEMMA DropTwistDrops ==
    ASSUME IInv, NEW t \in Threads, DropTwist(t) PROVE Abstract!Drop(t) \/ UNCHANGED Abstract!vars
  <1>0. PICK s : s = space[t]
    OBVIOUS
  <1>1. poolBar' = poolBar
    BY DEF DropTwist, poolBar, Unwritten
  <1>2. CASE pc[t] = "lastTwist"
    <2>1. usersBar' = usersBar
      BY <1>2 DEF IInv, TypeOK, DropTwist, Goto, usersBar
    <2> QED BY <1>1, <2>1 DEF Abstract!vars, poolBar, usersBar, Unwritten
  <1>3. CASE pc[t] = "dropTwist"
    <2>1. s \in Spaces /\ s # NoSpace /\ useValue[s] > 1 /\ useOwner[s] = t
      BY <1>0, <1>3 DEF IInv, TypeOK, PlacesOK, LocksHaveOwners, HoldingUse
    <2>2. usersBar[t] = {s} /\ usersBar' = [usersBar EXCEPT ![t] = {}]
      BY <1>0, <1>3, <2>1 DEF IInv, TypeOK, DropTwist, Goto, usersBar
    <2>3. t \in UsersOf(s) /\ Cardinality(UsersOf(s)) > 1
      BY <1>0, <1>3, <2>1 DEF IInv, UseCountsTheUsers, UsersOf
    <2>4. PICK u \in UsersOf(s) : u # t
      <3>1. UsersOf(s) # {t}
        BY <2>3, FS_Singleton
      <3> QED BY <3>1, <2>3
    <2>5. u \in Threads /\ space[u] = s /\ pc[u] # "lastTwist"
      BY <2>1, <2>4 DEF IInv, LocksHaveOwners, HoldingUse, UsersOf
    <2>6. \E v \in Threads \ {t} : s \in usersBar[v]
      BY <2>1, <2>4, <2>5 DEF usersBar
    <2> QED BY <1>1, <2>2, <2>6 DEF Abstract!Drop, poolBar, usersBar, Unwritten
  <1> QED BY <1>2, <1>3 DEF DropTwist

LEMMA RecreateRecreates ==
    ASSUME IInv, Recreate PROVE Abstract!Recreate
  <1>1. \A t \in Threads : pc[t] = "idle" /\ space[t] = NoSpace /\ usersBar[t] = {}
    BY DEF Recreate, usersBar
  <1>2. limit' = Limit /\ made' = 0 /\ head' = <<>> /\ UNCHANGED <<pc, space>>
    <2>1. NoAssertionFails'
      BY RecreateKeepsIInv DEF IInv
    <2> QED BY <2>1 DEF Recreate, NoAssertionFails, Goto, IInv, TypeOK
  <1>3. usersBar' = usersBar
    BY <1>2 DEF usersBar
  <1>4. poolBar' = Abstract!EmptyPool(Limit)
    BY <1>2, SMTT(30) DEF poolBar, Abstract!EmptyPool, ToSet, Unwritten
  <1> QED BY <1>1, <1>3, <1>4 DEF Abstract!Recreate, poolBar, usersBar, Unwritten

LEMMA StepIsStep ==
    ASSUME IInv, [Next]_vars PROVE [Abstract!Next]_Abstract!vars
  <1>1. ASSUME NEW t \in Threads, CallGet(t) \/ GetPossess(t) \/ GetTwist(t) \/ DropPossess(t)
        PROVE  UNCHANGED Abstract!vars
    <2>1. \A u \in Threads : pc'[u] = "lastTwist" <=> pc[u] = "lastTwist"
      BY <1>1 DEF IInv, TypeOK, CallGet, GetPossess, GetTwist, DropPossess, Goto
    <2>2. UNCHANGED <<limit, made, head, space>>
      BY <1>1 DEF CallGet, GetPossess, GetTwist, DropPossess
    <2> QED BY <2>1, <2>2, Stutters
  <1>2. ASSUME NEW t \in Threads, GetPull(t) \/ GetMake(t) \/ DropReturn(t) \/ DropTwist(t)
        PROVE  [Abstract!Next]_Abstract!vars
    BY <1>2, GetPullGets, GetMakeGets, DropReturnDrops, DropTwistDrops DEF Abstract!Next
  <1>3. ASSUME NEW t \in Threads, NEW u \in Threads, UseSpace(t, u) PROVE Abstract!Next
    BY <1>3, UseSpaceShares DEF Abstract!Next
  <1>4. CASE Recreate
    BY <1>4, RecreateRecreates DEF Abstract!Next
  <1>5. CASE UNCHANGED vars
    BY <1>5, Stutters DEF vars
  <1> QED BY <1>1, <1>2, <1>3, <1>4, <1>5 DEF Next, Inside

\* Two locks and several steps make each operation, and yet to the threads that
\* share the pool getting, sharing and dropping a space each happen at one instant.
THEOREM Implements == Spec => ActsAtOnce
  <1>1. Init => Abstract!Init
    BY InitIsInit
  <1>2. IInv /\ [Next]_vars => [Abstract!Next]_Abstract!vars
    BY StepIsStep
  <1> QED BY <1>1, <1>2, InvariantHolds, PTL DEF Spec, ActsAtOnce, Abstract!Spec
-----------------------------------------------------------------------------
(* The lock of the ring buffer.  Here t, u are in Users.                   *)

\* How many levels of the mutex a thread has, wherever it is in its destructor:
\* at most one for each of its scopes, and then what Clear still gives back.
LevelsOK ==
    \A t \in Users :
      /\ lockPc[t] = "code" => (owner = t <=> depth[t] > 0 /\ ~ended[t])
      /\ lockPc[t] = "code" /\ owner = t => levels <= depth[t]
      /\ lockPc[t] # "code" => depth[t] > 0
      /\ lockPc[t] = "clear" => (owner = t <=> left[t] > 0) /\ (left[t] > 0 => levels = left[t])
      /\ lockPc[t] = "unlock" => owner = t /\ levels = left[t] + 2
      /\ lockPc[t] = "unlockLast" => owner = t /\ levels = left[t] + 1
      /\ lockPc[t] = "left" => owner # t

LockCounts == m_iLockCount = levels /\ (owner = Lock!NoOne <=> levels = 0)

RingIInv == Lock!RingLockTypeOK /\ LockCounts /\ LevelsOK

LEMMA RingInitHolds == Lock!Init => RingIInv
  BY LocksAssumption
  DEF Lock!Init, RingIInv, Lock!RingLockTypeOK, LockCounts, LevelsOK, Lock!RingLockAssumption

\* A thread that takes the mutex has it alone, and one level more than before.
LEMMA TakingCounts ==
    ASSUME RingIInv, NEW t \in Users, Lock!Lock(t)
    PROVE  /\ owner' = t /\ levels' = levels + 1 /\ m_iLockCount' = m_iLockCount + 1
           /\ levels' \in Nat \ {0} /\ LockCounts'
           /\ owner # t => owner = Lock!NoOne /\ levels = 0
  BY LocksAssumption
  DEF RingIInv, Lock!RingLockTypeOK, LockCounts, Lock!Lock, Lock!RingLockAssumption

\* A level that is given back.
LEMMA GivingCounts ==
    ASSUME RingIInv, NEW t \in Users, owner = t, Lock!GiveBack
    PROVE  /\ levels \in Nat \ {0} /\ levels' = levels - 1 /\ m_iLockCount' = levels'
           /\ owner' = IF levels = 1 THEN Lock!NoOne ELSE t
           /\ LockCounts'
  BY LocksAssumption
  DEF RingIInv, Lock!RingLockTypeOK, LockCounts, Lock!GiveBack, Lock!RingLockAssumption

LEMMA EnterScopeKeeps ==
    ASSUME RingIInv, NEW t \in Users, Lock!EnterScope(t) PROVE RingIInv'
  <1>1. /\ lockPc[t] = "code" /\ depth[t] < MaxDepth /\ Lock!Lock(t)
        /\ depth[t] \in 0..MaxDepth /\ MaxDepth \in Nat
        /\ depth' = [depth EXCEPT ![t] = depth[t] + 1] /\ ended' = [ended EXCEPT ![t] = FALSE]
        /\ UNCHANGED <<lockPc, left>>
    BY LocksAssumption DEF RingIInv, Lock!RingLockTypeOK, Lock!EnterScope, Lock!RingLockAssumption
  <1>2. /\ owner' = t /\ levels' = levels + 1 /\ levels' \in Nat \ {0} /\ LockCounts'
        /\ owner # t => owner = Lock!NoOne /\ levels = 0
    BY <1>1, TakingCounts
  <1>3. Lock!RingLockTypeOK'
    BY <1>1, <1>2 DEF RingIInv, Lock!RingLockTypeOK, LockCounts
  <1>4. LevelsOK'
    BY <1>1, <1>2, LocksAssumption
    DEF RingIInv, Lock!RingLockTypeOK, LevelsOK, Lock!RingLockAssumption
  <1> QED BY <1>2, <1>3, <1>4 DEF RingIInv

LEMMA LeaveScopeKeeps ==
    ASSUME RingIInv, NEW t \in Users, Lock!LeaveScope(t) PROVE RingIInv'
  <1>1. /\ lockPc[t] = "code" /\ depth[t] > 0 /\ depth[t] \in 0..MaxDepth /\ MaxDepth \in Nat
        /\ UNCHANGED <<depth, ended>>
    BY LocksAssumption DEF RingIInv, Lock!RingLockTypeOK, Lock!LeaveScope, Lock!RingLockAssumption
  <1>2. CASE owner \in {Lock!NoOne, t}
    <2>1. /\ Lock!Lock(t) /\ left' = [left EXCEPT ![t] = m_iLockCount']
          /\ lockPc' = [lockPc EXCEPT ![t] = "clear"]
      BY <1>2 DEF Lock!LeaveScope, Lock!Goto
    <2>2. /\ owner' = t /\ levels' = levels + 1 /\ levels' \in Nat \ {0} /\ LockCounts'
          /\ m_iLockCount' = levels'
          /\ owner # t => owner = Lock!NoOne /\ levels = 0
      BY <2>1, TakingCounts DEF LockCounts
    <2>3. levels' <= MaxDepth + 1
      BY <1>1, <2>2 DEF RingIInv, LevelsOK, Lock!RingLockTypeOK
    <2>4. Lock!RingLockTypeOK'
      BY <1>1, <2>1, <2>2, <2>3 DEF RingIInv, Lock!RingLockTypeOK
    <2>5. LevelsOK'
      BY <1>1, <2>1, <2>2, LocksAssumption
      DEF RingIInv, Lock!RingLockTypeOK, LevelsOK, Lock!RingLockAssumption
    <2> QED BY <2>2, <2>4, <2>5 DEF RingIInv
  <1>3. CASE owner \notin {Lock!NoOne, t}
    <2>1. lockPc' = [lockPc EXCEPT ![t] = "left"] /\ UNCHANGED <<owner, levels, m_iLockCount, left>>
      BY <1>3 DEF Lock!LeaveScope, Lock!Goto, Lock!mutex
    <2> QED BY <1>1, <1>3, <2>1 DEF RingIInv, Lock!RingLockTypeOK, LevelsOK, LockCounts
  <1> QED BY <1>2, <1>3

\* Unlock takes a level, so that it finds at least two, and gives two back.
LEMMA UnlockKeeps ==
    ASSUME RingIInv, NEW t \in Users, Lock!Unlock(t) PROVE RingIInv'
  <1>1. /\ lockPc[t] = "clear" /\ left[t] > 0 /\ left[t] \in Nat /\ Lock!Lock(t)
        /\ left' = [left EXCEPT ![t] = left[t] - 1] /\ lockPc' = [lockPc EXCEPT ![t] = "unlock"]
        /\ UNCHANGED <<depth, ended>> /\ MaxDepth \in Nat
    BY LocksAssumption
    DEF RingIInv, Lock!RingLockTypeOK, Lock!Unlock, Lock!Goto, Lock!RingLockAssumption
  <1>2. /\ owner' = t /\ levels' = levels + 1 /\ m_iLockCount' = m_iLockCount + 1
        /\ levels' \in Nat \ {0} /\ LockCounts'
    BY <1>1, TakingCounts
  <1>3. owner = t /\ levels = left[t]
    BY <1>1 DEF RingIInv, LevelsOK
  <1>4. Lock!RingLockTypeOK'
    BY <1>1, <1>2 DEF RingIInv, Lock!RingLockTypeOK
  <1>5. LevelsOK'
    BY <1>1, <1>2, <1>3 DEF RingIInv, Lock!RingLockTypeOK, LevelsOK
  <1> QED BY <1>2, <1>4, <1>5 DEF RingIInv

LEMMA UnlockOwnKeeps ==
    ASSUME RingIInv, NEW t \in Users, Lock!UnlockOwn(t) PROVE RingIInv'
  <1>1. /\ lockPc[t] = "unlock" /\ Lock!GiveBack /\ left[t] \in Nat
        /\ lockPc' = [lockPc EXCEPT ![t] = "unlockLast"] /\ UNCHANGED <<depth, left, ended>>
    BY LocksAssumption
    DEF RingIInv, Lock!RingLockTypeOK, Lock!UnlockOwn, Lock!Goto, Lock!RingLockAssumption
  <1>2. owner = t /\ levels = left[t] + 2
    BY <1>1 DEF RingIInv, LevelsOK
  <1>3. /\ levels' = left[t] + 1 /\ m_iLockCount' = levels' /\ owner' = t /\ LockCounts'
    BY <1>1, <1>2, GivingCounts
  <1>4. Lock!RingLockTypeOK'
    BY <1>1, <1>3 DEF RingIInv, Lock!RingLockTypeOK
  <1>5. LevelsOK'
    BY <1>1, <1>2, <1>3 DEF RingIInv, Lock!RingLockTypeOK, LevelsOK
  <1> QED BY <1>3, <1>4, <1>5 DEF RingIInv

LEMMA UnlockLastKeeps ==
    ASSUME RingIInv, NEW t \in Users, Lock!UnlockLast(t) PROVE RingIInv'
  <1>1. left[t] \in Nat /\ MaxDepth \in Nat
    BY LocksAssumption DEF RingIInv, Lock!RingLockTypeOK, Lock!RingLockAssumption
  <1>2. lockPc[t] = "unlockLast" /\ owner = t /\ levels = left[t] + 1
    BY <1>1 DEF RingIInv, LevelsOK, LockCounts, Lock!UnlockLast
  <1>3. /\ Lock!GiveBack /\ lockPc' = [lockPc EXCEPT ![t] = "clear"]
        /\ UNCHANGED <<depth, left, ended>>
    BY DEF Lock!UnlockLast, Lock!Goto
  <1>4. /\ levels' = left[t] /\ m_iLockCount' = levels' /\ LockCounts'
        /\ owner' = IF left[t] = 0 THEN Lock!NoOne ELSE t
    BY <1>1, <1>2, <1>3, GivingCounts
  <1>5. Lock!RingLockTypeOK'
    BY <1>1, <1>3, <1>4 DEF RingIInv, Lock!RingLockTypeOK
  <1>6. LevelsOK'
    BY <1>1, <1>2, <1>3, <1>4, LocksAssumption
    DEF RingIInv, Lock!RingLockTypeOK, LevelsOK, Lock!RingLockAssumption
  <1> QED BY <1>4, <1>5, <1>6 DEF RingIInv

LEMMA ClearedKeeps ==
    ASSUME RingIInv, NEW t \in Users, Lock!Cleared(t) PROVE RingIInv'
  BY DEF RingIInv, Lock!RingLockTypeOK, LevelsOK, LockCounts, Lock!Cleared, Lock!Goto, Lock!mutex

LEMMA OutsideKeeps ==
    ASSUME RingIInv, NEW t \in Users, Lock!Outside(t) PROVE RingIInv'
  <1>1. /\ lockPc[t] = "left" /\ depth[t] > 0 /\ depth[t] \in 0..MaxDepth /\ MaxDepth \in Nat
        /\ lockPc' = [lockPc EXCEPT ![t] = "code"] /\ depth' = [depth EXCEPT ![t] = depth[t] - 1]
        /\ ended' = [ended EXCEPT ![t] = depth[t] > 1]
        /\ UNCHANGED <<owner, levels, m_iLockCount, left>>
    BY LocksAssumption
    DEF RingIInv, Lock!RingLockTypeOK, LevelsOK, Lock!Outside, Lock!Goto, Lock!mutex,
        Lock!RingLockAssumption
  <1>2. owner # t
    BY <1>1 DEF RingIInv, LevelsOK
  <1>3. Lock!RingLockTypeOK' /\ LockCounts'
    BY <1>1 DEF RingIInv, Lock!RingLockTypeOK, LockCounts
  <1>4. ASSUME NEW u \in Users PROVE
          /\ lockPc'[u] = IF u = t THEN "code" ELSE lockPc[u]
          /\ depth'[u] = IF u = t THEN depth[t] - 1 ELSE depth[u]
          /\ u # t => ended'[u] = ended[u]
          /\ u = t => (ended'[u] <=> depth[t] > 1)
    BY <1>1 DEF RingIInv, Lock!RingLockTypeOK
  <1>5. LevelsOK'
    BY <1>1, <1>2, <1>4 DEF RingIInv, LevelsOK
  <1> QED BY <1>3, <1>5 DEF RingIInv

LEMMA RingStepKeeps == RingIInv /\ [Lock!Next]_lockVars => RingIInv'
  <1> SUFFICES ASSUME RingIInv, [Lock!Next]_lockVars PROVE RingIInv'
    OBVIOUS
  <1>1. CASE Lock!Next
    BY <1>1, EnterScopeKeeps, LeaveScopeKeeps, UnlockKeeps, UnlockOwnKeeps, UnlockLastKeeps,
       ClearedKeeps, OutsideKeeps DEF Lock!Next
  <1>2. CASE UNCHANGED lockVars
    BY <1>2 DEF lockVars, RingIInv, Lock!RingLockTypeOK, LockCounts, LevelsOK
  <1> QED BY <1>1, <1>2

LEMMA RingInvariantShows == RingIInv => ScopesHoldTheLock
  BY LocksAssumption
  DEF RingIInv, LockCounts, LevelsOK, ScopesHoldTheLock, Lock!ScopesHoldTheLock,
      Lock!RingLockTypeOK, Lock!RingLockAssumption

\* Of all the modules only the one that part names does a step.
LEMMA RingStep == [LocksNext]_locksVars => [Lock!Next]_lockVars
  BY DEF LocksNext, YarnStep, locksVars

\* A thread of the ring buffer has the mutex all through its scope unless a scope
\* inside it has ended since, Clear gives back what is the thread's own, and when
\* nobody is in a scope the mutex is free: for any number of threads and scopes.
THEOREM RingLockIsHeld == LocksSpec => []ScopesHoldTheLock
  <1>1. LocksInit => RingIInv
    BY RingInitHolds DEF LocksInit
  <1>2. RingIInv /\ [LocksNext]_locksVars => RingIInv'
    BY RingStep, RingStepKeeps
  <1> QED BY <1>1, <1>2, RingInvariantShows, PTL DEF LocksSpec
-----------------------------------------------------------------------------
(* The buffer pool, among the others.                                      *)

\* No assertion of buffer_pool.c fails, and the value of have counts the spaces on
\* the list.
THEOREM PoolAssertionsHold == LocksSpec => []NoAssertionEverFails
  <1>1. LocksInit => IInv
    BY InitHolds DEF LocksInit
  <1>2. IInv /\ [LocksNext]_locksVars => IInv'
    <2>1. [LocksNext]_locksVars => [Next]_vars
      BY DEF LocksNext, YarnStep, locksVars
    <2> QED BY <2>1, StepKeepsIInv
  <1>3. IInv => NoAssertionEverFails
    BY DEF IInv, NoAssertionEverFails
  <1> QED BY <1>1, <1>2, <1>3, PTL DEF LocksSpec
-----------------------------------------------------------------------------
(* Launching and joining threads.  Here c, d are Callers and w is a Worker.*)

YarnHolds == {"launched", "joinAll", "joinDone"}

\* Callers and workers are at places of their own; threads_lock is with the caller
\* that is at a place where it has it.
YarnPlacesOK ==
    /\ \A c \in Callers : yarnPc[c] \in {"idle", "launched", "join", "joined"} \cup Threading!JoiningAll
    /\ \A w \in Workers : yarnPc[w] \in {"unborn", "running", "reenter", "leaving", "exited", "joined"}
    /\ \A c \in Callers : yarnOwner = c <=> yarnPc[c] \in YarnHolds

\* Who was launched, by whom, and is not joined yet.
LaunchedOK ==
    /\ \A w \in Workers : launcher[w] = Threading!NoOne <=> yarnPc[w] \in {"unborn", "joined"}
    /\ \A c \in Callers : yarnPc[c] \in {"launched", "join", "joined"} =>
          ally[c] \in Workers /\ launcher[ally[c]] = c
    /\ \A c \in Callers : yarnPc[c] = "launched" => yarnPc[ally[c]] \in {"running", "reenter"}
    /\ \A c \in Callers : yarnPc[c] = "joined" => yarnPc[ally[c]] = "exited"
    /\ \A c \in Callers : yarnPc[c] = "joinDone" => ally[c] \in done

\* A join_all goes on alone.
JoinAllAlone ==
    \A c, d \in Callers : c # d /\ yarnPc[c] \in Threading!JoiningAll =>
        yarnPc[d] \notin Threading!JoiningAll \cup {"join", "joined"}

\* The list has the threads that were launched and not joined, but for the one that
\* is being launched; the marked ones are those that have been through reenter.
ListOK ==
    /\ NoneTwice(threads)
    /\ \A w \in Workers : w \in ToSet(threads) <=>
          launcher[w] # Threading!NoOne /\ \A c \in Callers : yarnPc[c] = "launched" => ally[c] # w
    /\ \A w \in Workers : w \in done <=> yarnPc[w] \in {"leaving", "exited"}
    /\ done \subseteq ToSet(threads)
    /\ yarnValue = Cardinality(done)

YarnIInv == Threading!YarnTypeOK /\ YarnPlacesOK /\ LaunchedOK /\ JoinAllAlone /\ ListOK

LEMMA MinIsLeast ==
    ASSUME NEW S \in SUBSET Nat, S # {}
    PROVE  Min(S) \in S /\ \A n \in S : Min(S) <= n
  <1> DEFINE Less == {pair \in Nat \X Nat : pair[1] < pair[2]}
  <1>1. OpToRel(<, Nat) = Less
    BY Zenon DEF OpToRel
  <1>2. IsWellFoundedOn(Less, Nat)
    BY <1>1, NatLessThanWellFounded, Zenon
  <1>3. PICK x \in S : \A y \in S : <<y, x>> \notin Less
    BY <1>2, WFMin, Zenon
  <1>4. ASSUME NEW y \in S PROVE x <= y
    <2>1. x \in Nat /\ y \in Nat /\ ~(<<y, x>> \in {pair \in Nat \X Nat : pair[1] < pair[2]})
      BY <1>3
    <2>2. ~(y < x)
      BY <2>1
    <2> QED BY <2>1, <2>2
  <1> QED BY <1>4 DEF Min

\* The first place on a list with what is looked for.
FirstPlaceOf(list, T) == Min({i \in 1..Len(list) : list[i] \in T})

LEMMA FirstPlace ==
    ASSUME NEW S, NEW list \in Seq(S), NEW T, \E x \in ToSet(list) : x \in T
    PROVE  /\ FirstPlaceOf(list, T) \in 1..Len(list) /\ list[FirstPlaceOf(list, T)] \in T
           /\ \E i \in 1..Len(list) : list[i] \in T
  <1> DEFINE places == {i \in 1..Len(list) : list[i] \in T}
  <1>1. Len(list) \in Nat /\ DOMAIN list = 1..Len(list)
    BY LenProperties
  <1>2. places \in SUBSET Nat /\ places # {}
    BY <1>1 DEF ToSet
  <1>3. Min(places) \in places
    BY <1>2, MinIsLeast
  <1> QED BY <1>3 DEF FirstPlaceOf

\* What is taken off a list.
LEMMA Removed ==
    ASSUME NEW S, NEW list \in Seq(S), NoneTwice(list), NEW w \in ToSet(list)
    PROVE  /\ RemoveFirst(list, w) \in Seq(S)
           /\ ToSet(RemoveFirst(list, w)) = ToSet(list) \ {w}
           /\ NoneTwice(RemoveFirst(list, w))
  <1> DEFINE rest == RemoveFirst(list, w)
  <1>1. Len(list) \in Nat /\ DOMAIN list = 1..Len(list) /\ \A i \in 1..Len(list) : list[i] \in S
    BY LenProperties, ElementOfSeq
  <1>2. PICK i \in 1..Len(list) : list[i] = w /\ rest = SubSeq(list, 1, i - 1) \o SubSeq(list, i + 1, Len(list))
    <2> DEFINE places == {i \in 1..Len(list) : list[i] = w}
    <2>1. places \in SUBSET Nat /\ places # {}
      BY <1>1 DEF ToSet
    <2>2. Min(places) \in places
      BY <2>1, MinIsLeast
    <2>3. SelectInSeq(list, LAMBDA x : x = w) = Min(places)
      BY <2>1 DEF SelectInSeq
    <2>4. rest = RemoveAt(list, Min(places))
      BY <2>1, <2>3 DEF RemoveFirst
    <2> QED BY <2>2, <2>4 DEF RemoveAt
  <1>3. /\ SubSeq(list, 1, i - 1) \in Seq(S) /\ Len(SubSeq(list, 1, i - 1)) = i - 1
        /\ \A k \in 1..i - 1 : SubSeq(list, 1, i - 1)[k] = list[k]
    BY <1>1, SubSeqProperties
  <1>4. /\ SubSeq(list, i + 1, Len(list)) \in Seq(S)
        /\ Len(SubSeq(list, i + 1, Len(list))) = Len(list) - i
        /\ \A k \in 1..Len(list) - i : SubSeq(list, i + 1, Len(list))[k] = list[i + k]
    <2>1. i + 1 \in Int /\ Len(list) \in Int /\ \A k \in i + 1..Len(list) : list[k] \in S
      BY <1>1
    <2>2. /\ SubSeq(list, i + 1, Len(list)) \in Seq(S)
          /\ Len(SubSeq(list, i + 1, Len(list))) =
                IF i + 1 <= Len(list) THEN Len(list) - (i + 1) + 1 ELSE 0
          /\ \A k \in 1..Len(list) - (i + 1) + 1 :
                SubSeq(list, i + 1, Len(list))[k] = list[(i + 1) + k - 1]
      BY <2>1, SubSeqProperties
    <2>3. \A k \in 1..Len(list) - i : k \in 1..Len(list) - (i + 1) + 1 /\ (i + 1) + k - 1 = i + k
      BY <1>1
    <2>4. (IF i + 1 <= Len(list) THEN Len(list) - (i + 1) + 1 ELSE 0) = Len(list) - i
      <3>1. \A n, m \in Int : m <= n => (IF m + 1 <= n THEN n - (m + 1) + 1 ELSE 0) = n - m
        OBVIOUS
      <3>2. i \in Int /\ i <= Len(list) /\ Len(list) \in Int
        BY <1>1
      <3> QED BY <3>1, <3>2
    <2> HIDE DEF rest
    <2> QED BY <2>2, <2>3, <2>4
  <1>5. /\ rest \in Seq(S) /\ Len(rest) = Len(list) - 1 /\ DOMAIN rest = 1..Len(list) - 1
        /\ \A k \in 1..Len(list) - 1 : rest[k] = IF k < i THEN list[k] ELSE list[k + 1]
    <2> DEFINE front == SubSeq(list, 1, i - 1)  back == SubSeq(list, i + 1, Len(list))
    <2> HIDE DEF front, back, rest
    <2>1. /\ front \in Seq(S) /\ Len(front) = i - 1 /\ \A k \in 1..i - 1 : front[k] = list[k]
          /\ back \in Seq(S) /\ Len(back) = Len(list) - i
          /\ \A k \in 1..Len(list) - i : back[k] = list[i + k]
      BY <1>3, <1>4 DEF front, back
    <2>2. rest = front \o back
      BY <1>2 DEF front, back
    <2>3. /\ rest \in Seq(S) /\ Len(rest) = Len(front) + Len(back)
          /\ \A k \in 1..Len(front) + Len(back) :
                rest[k] = IF k <= Len(front) THEN front[k] ELSE back[k - Len(front)]
      BY <2>1, <2>2, ConcatProperties
    <2>4. DOMAIN rest = 1..Len(rest)
      BY <2>3, LenProperties
    <2>5. Len(front) + Len(back) = Len(list) - 1
      BY <1>1, <2>1
    <2>6. ASSUME NEW k \in 1..Len(list) - 1
          PROVE  rest[k] = IF k < i THEN list[k] ELSE list[k + 1]
      <3>1. CASE k < i
        BY <3>1, <1>1, <2>1, <2>3, <2>5
      <3>2. CASE k >= i
        <4>1. rest[k] = back[k - (i - 1)] /\ k - (i - 1) \in 1..Len(list) - i
          <5>1. k \in 1..Len(front) + Len(back) /\ ~ (k <= Len(front)) /\ Len(front) = i - 1
            BY <3>2, <1>1, <2>1, <2>5
          <5> QED BY <5>1, <3>2, <1>1, <2>3
        <4>2. i + (k - (i - 1)) = k + 1
          BY <1>1
        <4> QED BY <4>1, <4>2, <3>2, <1>1, <2>1, SMTT(30)
      <3> QED BY <3>1, <3>2, <1>1
    <2> QED BY <2>3, <2>4, <2>5, <2>6
  <1> HIDE DEF rest
  <1>6. NoneTwice(rest)
    <2> DEFINE from(k) == IF k < i THEN k ELSE k + 1
    <2>1. \A j, k \in 1..Len(list) - 1 :
             /\ from(j) \in DOMAIN list /\ rest[j] = list[from(j)]
             /\ from(j) = from(k) => j = k
      BY <1>1, <1>5
    <2>2. \A j, k \in DOMAIN list : list[j] = list[k] => j = k
      BY <1>1 DEF NoneTwice
    <2> HIDE DEF from
    <2> QED BY ONLY <1>5, <2>1, <2>2 DEF NoneTwice
  <1>7. ASSUME NEW x \in ToSet(rest) PROVE x \in ToSet(list) \ {w}
    <2>1. PICK k \in 1..Len(list) - 1 : x = rest[k]
      BY <1>5 DEF ToSet
    <2>2. PICK j \in 1..Len(list) : j # i /\ x = list[j]
      BY <2>1, <1>1, <1>5
    <2> QED BY <2>2, <1>1, <1>2 DEF ToSet, NoneTwice
  <1>8. ASSUME NEW x \in ToSet(list) \ {w} PROVE x \in ToSet(rest)
    <2>1. PICK k \in 1..Len(list) : x = list[k]
      BY <1>1 DEF ToSet
    <2>2. k # i
      BY <2>1, <1>2
    <2>3. CASE k < i
      BY <2>1, <2>3, <1>1, <1>5 DEF ToSet
    <2>4. CASE k > i
      <3>1. k - 1 \in 1..Len(list) - 1 /\ rest[k - 1] = list[k]
        BY <2>4, <1>1, <1>5
      <3> QED BY <3>1, <2>1, <1>5 DEF ToSet
    <2> QED BY <2>2, <2>3, <2>4, <1>1
  <1>9. ToSet(rest) = ToSet(list) \ {w}
    BY <1>7, <1>8
  <1> QED BY <1>5, <1>6, <1>9 DEF rest

LEMMA Apart ==
    /\ \A c \in Callers, w \in Workers : c # w
    /\ \A t \in Callers \cup Workers : t # Threading!NoOne
  BY LocksAssumption DEF Threading!YarnAssumption

\* The operators on sequences are those that Yarn sees.
LEMMA SameOperators ==
    /\ \A list : Threading!ToSet(list) = ToSet(list) /\ (Threading!IsInjective(list) <=> NoneTwice(list))
    /\ \A list, w : Threading!RemoveFirst(list, w) = RemoveFirst(list, w)
    /\ \A S : Threading!Min(S) = Min(S) /\ Threading!Cardinality(S) = Cardinality(S)
  <1>1. \A list : Threading!ToSet(list) = ToSet(list)
    BY DEF Threading!ToSet, ToSet
  <1>2. \A list : Threading!IsInjective(list) <=> NoneTwice(list)
    BY DEF Threading!IsInjective, NoneTwice
  <1>3. \A S : Threading!Min(S) = Min(S)
    BY DEF Threading!Min, Min
  <1>4. \A list, w : Threading!RemoveFirst(list, w) = RemoveFirst(list, w)
    BY <1>3 DEF Threading!RemoveFirst, RemoveFirst, Threading!RemoveAt, RemoveAt, Threading!SelectInSeq, SelectInSeq
  <1>5. \A S : Threading!Cardinality(S) = Cardinality(S)
    BY DEF Threading!Cardinality, Cardinality
  <1> QED BY <1>1, <1>2, <1>3, <1>4, <1>5

LEMMA YarnInitHolds == Threading!Init => YarnIInv
  <1> SUFFICES ASSUME Threading!Init PROVE YarnIInv
    OBVIOUS
  <1> USE DEF Threading!Init
  <1>1. Threading!YarnTypeOK
    BY DEF Threading!YarnTypeOK
  <1>2. YarnPlacesOK /\ LaunchedOK /\ JoinAllAlone
    BY Apart DEF YarnPlacesOK, LaunchedOK, JoinAllAlone, YarnHolds, Threading!JoiningAll
  <1>3. ListOK
    BY Apart, FS_EmptySet DEF ListOK, NoneTwice, ToSet
  <1> QED BY <1>1, <1>2, <1>3 DEF YarnIInv

LEMMA LaunchCreateKeeps ==
    ASSUME YarnIInv, NEW c \in Callers, NEW w \in Workers, Threading!LaunchCreate(c, w)
    PROVE  YarnIInv'
  <1> USE DEF YarnIInv
  <1>1. /\ yarnPc[c] = "idle" /\ yarnPc[w] = "unborn" /\ yarnOwner = Threading!NoOne
        /\ yarnOwner' = c /\ launcher[w] = Threading!NoOne /\ w \notin ToSet(threads) /\ w \notin done
        /\ \A t \in Callers \cup Workers :
              yarnPc'[t] = IF t = c THEN "launched" ELSE IF t = w THEN "running" ELSE yarnPc[t]
        /\ \A d \in Callers : ally'[d] = IF d = c THEN w ELSE ally[d]
        /\ \A x \in Workers : launcher'[x] = IF x = w THEN c ELSE launcher[x]
        /\ UNCHANGED <<yarnValue, sleeping, threads, done>>
    BY Apart DEF Threading!LaunchCreate, Threading!YarnTypeOK, LaunchedOK, ListOK,
                 Threading!lock, Threading!list
  <1>2. Threading!YarnTypeOK'
    BY <1>1 DEF Threading!LaunchCreate, Threading!YarnTypeOK
  <1>3. \A d \in Callers : yarnPc[d] \notin YarnHolds
    BY <1>1, Apart DEF YarnPlacesOK
  <1>4. YarnPlacesOK'
    BY <1>1, <1>3, Apart DEF YarnPlacesOK, YarnHolds, Threading!JoiningAll
  <1>5. LaunchedOK'
    BY <1>1, <1>3, Apart DEF LaunchedOK, YarnHolds, Threading!YarnTypeOK
  <1>6. JoinAllAlone'
    BY <1>1, Apart DEF JoinAllAlone, Threading!JoiningAll
  <1>7. ListOK'
    BY <1>1, <1>3, Apart DEF ListOK, YarnHolds
  <1> QED BY <1>2, <1>4, <1>5, <1>6, <1>7

LEMMA LaunchInsertKeeps ==
    ASSUME YarnIInv, NEW c \in Callers, Threading!LaunchInsert(c) PROVE YarnIInv'
  <1> USE DEF YarnIInv
  <1>0. PICK w : w = ally[c]
    OBVIOUS
  <1>1. /\ yarnPc[c] = "launched" /\ yarnOwner = c /\ w \in Workers /\ launcher[w] = c
        /\ w \notin ToSet(threads) /\ threads \in Seq(Workers) /\ NoneTwice(threads)
    BY <1>0 DEF Threading!LaunchInsert, Threading!YarnTypeOK, LaunchedOK, ListOK, YarnPlacesOK, YarnHolds
  <1>2. /\ yarnOwner' = Threading!NoOne
        /\ \A t \in Callers \cup Workers : yarnPc'[t] = IF t = c THEN "idle" ELSE yarnPc[t]
        /\ \A d \in Callers : ally'[d] = IF d = c THEN Threading!NoOne ELSE ally[d]
        /\ UNCHANGED <<yarnValue, sleeping, done, launcher>>
    BY DEF Threading!LaunchInsert, Threading!YarnTypeOK, Threading!Goto
  <1>3. /\ threads' \in Seq(Workers) /\ NoneTwice(threads')
        /\ ToSet(threads') = ToSet(threads) \cup {w}
    BY <1>0, <1>1, Pushed DEF Threading!LaunchInsert
  <1>4. Threading!YarnTypeOK'
    BY <1>2, <1>3 DEF Threading!LaunchInsert, Threading!YarnTypeOK, Threading!Goto
  <1>5. YarnPlacesOK'
    BY <1>1, <1>2, Apart DEF YarnPlacesOK, YarnHolds, Threading!JoiningAll
  <1>6. LaunchedOK'
    BY <1>1, <1>2, Apart DEF LaunchedOK, Threading!YarnTypeOK
  <1>7. JoinAllAlone'
    BY <1>1, <1>2, Apart DEF JoinAllAlone, Threading!JoiningAll
  <1>8. ListOK'
    <2>1. ASSUME NEW x \in Workers
          PROVE  x \in ToSet(threads') <=>
                    /\ launcher[x] # Threading!NoOne
                    /\ \A d \in Callers : yarnPc'[d] = "launched" => ally'[d] # x
      <3>1. CASE x = w
        <4>1. \A d \in Callers : d # c /\ yarnPc[d] = "launched" => ally[d] # w
          BY <1>0, <1>1 DEF LaunchedOK
        <4> QED BY <3>1, <4>1, <1>1, <1>2, <1>3, Apart
      <3>2. CASE x # w
        BY <3>2, <1>0, <1>1, <1>2, <1>3 DEF ListOK
      <3> QED BY <3>1, <3>2
    <2> QED BY <2>1, <1>1, <1>2, <1>3, Apart DEF ListOK
  <1> QED BY <1>4, <1>5, <1>6, <1>7, <1>8

\* A worker that only goes on to its next place.
LEMMA WorkerGoesOn ==
    ASSUME YarnIInv, NEW w \in Workers, NEW place,
           <<yarnPc[w], place>> \in {<<"running", "reenter">>, <<"leaving", "exited">>},
           yarnPc' = [yarnPc EXCEPT ![w] = place],
           UNCHANGED <<yarnOwner, yarnValue, sleeping, threads, done, ally, launcher>>
    PROVE  YarnIInv'
  <1> USE DEF YarnIInv
  <1>1. \/ yarnPc[w] = "running" /\ place = "reenter"
        \/ yarnPc[w] = "leaving" /\ place = "exited"
    OBVIOUS
  <1>2. \A t \in Callers \cup Workers : yarnPc'[t] = IF t = w THEN place ELSE yarnPc[t]
    BY DEF Threading!YarnTypeOK
  <1>3. Threading!YarnTypeOK'
    BY <1>1 DEF Threading!YarnTypeOK
  <1>4. YarnPlacesOK'
    BY <1>1, <1>2, Apart DEF YarnPlacesOK, YarnHolds, Threading!JoiningAll
  <1>5. LaunchedOK'
    BY <1>1, <1>2, Apart DEF LaunchedOK
  <1>6. JoinAllAlone' /\ ListOK'
    BY <1>1, <1>2, Apart DEF JoinAllAlone, ListOK
  <1> QED BY <1>3, <1>4, <1>5, <1>6

LEMMA ReturnAndExitKeep ==
    ASSUME YarnIInv, NEW w \in Workers, Threading!Return(w) \/ Threading!Exit(w) PROVE YarnIInv'
  BY WorkerGoesOn
  DEF Threading!Return, Threading!Exit, Threading!Goto, Threading!lock, Threading!list

LEMMA DoneIsFinite ==
    ASSUME YarnIInv PROVE IsFiniteSet(done) /\ Cardinality(done) \in Nat
  <1>1. /\ Len(threads) \in Nat /\ DOMAIN threads = 1..Len(threads)
        /\ threads \in [1..Len(threads) -> Workers]
    BY LenProperties DEF YarnIInv, Threading!YarnTypeOK
  <1>2. threads \in Surjection(1..Len(threads), ToSet(threads))
    BY <1>1 DEF Surjection, ToSet
  <1>3. IsFiniteSet(1..Len(threads))
    BY <1>1, FS_Interval
  <1>4. IsFiniteSet(ToSet(threads))
    BY <1>2, <1>3, FS_Surjection
  <1>5. done \in SUBSET ToSet(threads)
    BY DEF YarnIInv, ListOK
  <1> QED BY <1>4, <1>5, FS_Subset, FS_CardinalityType

LEMMA ReenterKeeps ==
    ASSUME YarnIInv, NEW w \in Workers, Threading!Reenter(w) PROVE YarnIInv'
  <1> USE DEF YarnIInv
  <1>1. /\ yarnPc[w] = "reenter" /\ yarnOwner = Threading!NoOne /\ launcher[w] # Threading!NoOne
        /\ threads \in Seq(Workers) /\ NoneTwice(threads)
    BY DEF Threading!Reenter, LaunchedOK, ListOK, Threading!YarnTypeOK
  <1>2. \A c \in Callers : yarnPc[c] \notin YarnHolds
    BY <1>1, Apart DEF YarnPlacesOK
  <1>3. w \in ToSet(threads) /\ w \notin done
    BY <1>1, <1>2 DEF ListOK, YarnHolds
  <1>4. /\ \A t \in Callers \cup Workers : yarnPc'[t] = IF t = w THEN "leaving" ELSE yarnPc[t]
        /\ done' = done \cup {w} /\ yarnValue' = yarnValue + 1 /\ sleeping' = {}
        /\ threads' = <<w>> \o RemoveFirst(threads, w)
        /\ UNCHANGED <<yarnOwner, ally, launcher>>
    <2>1. /\ yarnPc' = [yarnPc EXCEPT ![w] = "leaving"]
          /\ threads' = <<w>> \o RemoveFirst(threads, w)
          /\ done' = done \cup {w} /\ yarnValue' = yarnValue + 1 /\ sleeping' = {}
          /\ UNCHANGED <<yarnOwner, ally, launcher>>
      BY <1>3, SameOperators DEF Threading!Reenter, Threading!Goto, Threading!Without
    <2> QED BY <2>1 DEF Threading!YarnTypeOK
  <1>5. /\ RemoveFirst(threads, w) \in Seq(Workers) /\ NoneTwice(RemoveFirst(threads, w))
        /\ ToSet(RemoveFirst(threads, w)) = ToSet(threads) \ {w}
    BY <1>1, <1>3, Removed
  <1>6. threads' \in Seq(Workers) /\ NoneTwice(threads') /\ ToSet(threads') = ToSet(threads)
    <2> HIDE DEF YarnIInv
    <2>0. PICK rest : rest = RemoveFirst(threads, w)
      OBVIOUS
    <2>1. w \notin ToSet(rest) /\ ToSet(rest) \cup {w} = ToSet(threads)
      BY <2>0, <1>3, <1>5
    <2>2. rest \in Seq(Workers) /\ NoneTwice(rest) /\ threads' = <<w>> \o rest
      BY <2>0, <1>4, <1>5
    <2>3. /\ <<w>> \o rest \in Seq(Workers) /\ NoneTwice(<<w>> \o rest)
          /\ ToSet(<<w>> \o rest) = ToSet(rest) \cup {w}
      BY <2>1, <2>2, Pushed
    <2> QED BY <2>1, <2>2, <2>3
  <1>7. Threading!YarnTypeOK'
    BY <1>3, <1>4, <1>6 DEF Threading!Reenter, Threading!Goto, Threading!YarnTypeOK
  <1>8. YarnPlacesOK'
    BY <1>4, Apart DEF YarnPlacesOK, YarnHolds, Threading!JoiningAll
  <1>9. LaunchedOK'
    BY <1>1, <1>2, <1>4, Apart DEF LaunchedOK, YarnHolds
  <1>10. JoinAllAlone'
    BY <1>4, Apart DEF JoinAllAlone
  <1>11. ListOK'
    <2>1. yarnValue' = Cardinality(done')
      BY <1>3, <1>4, DoneIsFinite, FS_AddElement DEF ListOK
    <2>2. \A x \in Workers : x \in done' <=> yarnPc'[x] \in {"leaving", "exited"}
      BY <1>4 DEF ListOK
    <2>3. \A c \in Callers : yarnPc'[c] = yarnPc[c]
      BY <1>4, Apart
    <2> QED BY <2>1, <2>2, <2>3, <1>3, <1>4, <1>6 DEF ListOK
  <1> QED BY <1>7, <1>8, <1>9, <1>10, <1>11

\* A caller that goes on to a place where it neither launches nor has found anybody,
\* with or without threads_lock.
CallerGoes(c, place) ==
    /\ place \in {"idle", "joined"} \cup Threading!JoiningAll
    /\ yarnPc[c] # "launched" /\ yarnPc' = [yarnPc EXCEPT ![c] = place]
    /\ \A d \in Callers : yarnOwner' = d <=>
           IF d = c THEN place \in YarnHolds ELSE yarnPc[d] \in YarnHolds
    /\ yarnOwner' \in Callers \cup {Threading!NoOne} /\ sleeping' \subseteq Callers
    /\ place = "joined" => yarnPc[c] = "join" /\ yarnPc[ally[c]] = "exited"
    /\ place = "joinDone" => ally'[c] \in done
    /\ ally' \in [Callers -> Workers \cup {Threading!NoOne}]
    /\ \A d \in Callers : d # c \/ place = "joined" => ally'[d] = ally[d]
    /\ place \in Threading!JoiningAll =>
           \A d \in Callers : d # c => yarnPc[d] \notin Threading!JoiningAll \cup {"join", "joined"}
    /\ UNCHANGED <<yarnValue, threads, done, launcher>>

LEMMA CallerGoesOn == ASSUME YarnIInv, NEW c \in Callers, NEW place, CallerGoes(c, place) PROVE YarnIInv'
  <1> USE DEF YarnIInv, CallerGoes
  <1>1. \A t \in Callers \cup Workers : yarnPc'[t] = IF t = c THEN place ELSE yarnPc[t]
    BY DEF Threading!YarnTypeOK
  <1>2. Threading!YarnTypeOK'
    BY DEF Threading!YarnTypeOK, Threading!JoiningAll
  <1>3. YarnPlacesOK'
    BY <1>1, Apart DEF YarnPlacesOK
  <1>4. LaunchedOK'
    BY <1>1, Apart DEF LaunchedOK, Threading!JoiningAll
  <1>5. JoinAllAlone'
    BY <1>1, Apart DEF JoinAllAlone, Threading!JoiningAll
  <1>6. ListOK'
    BY <1>1, Apart DEF ListOK, Threading!JoiningAll
  <1> QED BY <1>2, <1>3, <1>4, <1>5, <1>6

LEMMA CallersGoOn ==
    ASSUME YarnIInv, NEW c \in Callers,
           \/ Threading!JoinWait(c) \/ Threading!CallJoinAll(c) \/ Threading!JoinAllEnd(c)
           \/ Threading!JoinAllSleep(c) \/ Threading!JoinAllWake(c)
    PROVE  YarnIInv'
  <1>1. /\ \A d \in Callers : yarnOwner = d <=> yarnPc[d] \in YarnHolds
        /\ yarnOwner \in Callers \cup {Threading!NoOne} /\ sleeping \subseteq Callers
        /\ ally \in [Callers -> Workers \cup {Threading!NoOne}]
    BY DEF YarnIInv, YarnPlacesOK, Threading!YarnTypeOK
  <1>2. CASE Threading!JoinWait(c)
    <2>1. CallerGoes(c, "joined")
      BY <1>1, <1>2
      DEF CallerGoes, Threading!JoinWait, Threading!Goto, Threading!lock, Threading!list, YarnHolds, Threading!JoiningAll
    <2> QED BY <2>1, CallerGoesOn
  <1>3. CASE Threading!CallJoinAll(c)
    <2>1. CallerGoes(c, "joinAll")
      BY <1>1, <1>3, Apart
      DEF CallerGoes, Threading!CallJoinAll, Threading!Goto, Threading!list, YarnHolds, Threading!JoiningAll
    <2> QED BY <2>1, CallerGoesOn
  <1>4. CASE Threading!JoinAllEnd(c)
    <2>1. CallerGoes(c, "idle")
      BY <1>1, <1>4, Apart
      DEF CallerGoes, Threading!JoinAllEnd, Threading!Goto, Threading!list, YarnHolds, Threading!JoiningAll
    <2> QED BY <2>1, CallerGoesOn
  <1>5. ASSUME yarnPc[c] \in Threading!JoiningAll
        PROVE  \A d \in Callers : d # c => yarnPc[d] \notin Threading!JoiningAll \cup {"join", "joined"}
    BY <1>5 DEF YarnIInv, JoinAllAlone
  <1>6. CASE Threading!JoinAllSleep(c)
    <2>1. CallerGoes(c, "asleep")
      BY <1>1, <1>5, <1>6, Apart
      DEF CallerGoes, Threading!JoinAllSleep, Threading!Goto, Threading!list, YarnHolds, Threading!JoiningAll
    <2> QED BY <2>1, CallerGoesOn
  <1>7. CASE Threading!JoinAllWake(c)
    <2>1. CallerGoes(c, "joinAll")
      BY <1>1, <1>5, <1>7, Apart
      DEF CallerGoes, Threading!JoinAllWake, Threading!Goto, Threading!list, YarnHolds, Threading!JoiningAll
    <2> QED BY <2>1, CallerGoesOn
  <1> QED BY <1>2, <1>3, <1>4, <1>6, <1>7

\* join_all finds whom to join whenever the value is not 0.
LEMMA JoinAllFindKeeps ==
    ASSUME YarnIInv, NEW c \in Callers, Threading!JoinAllFind(c) PROVE YarnIInv'
  <1>1. /\ \A d \in Callers : yarnOwner = d <=> yarnPc[d] \in YarnHolds
        /\ yarnOwner \in Callers \cup {Threading!NoOne} /\ sleeping \subseteq Callers
        /\ ally \in [Callers -> Workers \cup {Threading!NoOne}] /\ threads \in Seq(Workers)
        /\ done \subseteq ToSet(threads) /\ yarnValue = Cardinality(done) /\ yarnPc[c] = "joinAll"
    BY DEF YarnIInv, YarnPlacesOK, Threading!YarnTypeOK, ListOK, Threading!JoinAllFind
  <1>2. done # {}
    BY <1>1, FS_EmptySet DEF Threading!JoinAllFind
  <1>3. PICK i : i = FirstPlaceOf(threads, done)
    OBVIOUS
  <1>4. threads[i] \in done /\ threads[i] \in Workers
    <2>1. \E x \in ToSet(threads) : x \in done
      BY <1>1, <1>2
    <2>2. i \in 1..Len(threads) /\ threads[i] \in done
      BY <1>1, <1>3, <2>1, FirstPlace
    <2> QED BY <2>2, <1>1, ElementOfSeq, LenProperties
  <1>5. /\ ally' = [ally EXCEPT ![c] = threads[i]] /\ yarnPc' = [yarnPc EXCEPT ![c] = "joinDone"]
        /\ UNCHANGED <<yarnOwner, yarnValue, sleeping, threads, done, launcher>>
    <2>1. \E w \in Threading!ToSet(threads) : w \in done
      BY <1>1, <1>2, SameOperators
    <2>2. Threading!SelectInSeq(threads, LAMBDA w : w \in done) = i
      <3>1. \E x \in ToSet(threads) : x \in done
        BY <1>1, <1>2
      <3>2. \E j \in 1..Len(threads) : threads[j] \in done
        BY <3>1, <1>1, FirstPlace
      <3>3. Threading!Min({j \in 1..Len(threads) : threads[j] \in done}) = i
        BY <1>3, SameOperators DEF FirstPlaceOf
      <3> QED BY <3>2, <3>3 DEF Threading!SelectInSeq
    <2> QED BY <2>1, <2>2 DEF Threading!JoinAllFind, Threading!Goto, Threading!lock, Threading!list
  <1>6. \A d \in Callers : d # c => yarnPc[d] \notin Threading!JoiningAll \cup {"join", "joined"}
    BY <1>1 DEF YarnIInv, JoinAllAlone, Threading!JoiningAll
  <1> HIDE DEF YarnIInv
  <1>7. /\ ally'[c] \in done /\ ally' \in [Callers -> Workers \cup {Threading!NoOne}]
        /\ \A d \in Callers : d # c => ally'[d] = ally[d]
    BY <1>1, <1>4, <1>5
  <1>8. CallerGoes(c, "joinDone")
    BY <1>1, <1>5, <1>6, <1>7 DEF CallerGoes, YarnHolds, Threading!JoiningAll
  <1> QED BY <1>8, CallerGoesOn

LEMMA CallJoinKeeps ==
    ASSUME YarnIInv, NEW c \in Callers, NEW w \in Workers, Threading!CallJoin(c, w) PROVE YarnIInv'
  <1> USE DEF YarnIInv
  <1>1. /\ yarnPc[c] = "idle" /\ launcher[w] = c
        /\ \A d \in Callers : yarnPc[d] \notin Threading!JoiningAll
        /\ \A t \in Callers \cup Workers : yarnPc'[t] = IF t = c THEN "join" ELSE yarnPc[t]
        /\ \A d \in Callers : ally'[d] = IF d = c THEN w ELSE ally[d]
        /\ UNCHANGED <<yarnOwner, yarnValue, sleeping, threads, done, launcher>>
    BY DEF Threading!CallJoin, Threading!YarnTypeOK, Threading!Goto, Threading!lock, Threading!list
  <1>2. Threading!YarnTypeOK'
    BY <1>1 DEF Threading!CallJoin, Threading!YarnTypeOK, Threading!Goto
  <1>3. YarnPlacesOK'
    BY <1>1, Apart DEF YarnPlacesOK, YarnHolds
  <1>4. LaunchedOK'
    BY <1>1, Apart DEF LaunchedOK
  <1>5. JoinAllAlone'
    BY <1>1, Apart DEF JoinAllAlone, Threading!JoiningAll
  <1>6. ListOK'
    BY <1>1, Apart DEF ListOK
  <1> QED BY <1>2, <1>3, <1>4, <1>5, <1>6

\* A thread that has ended is taken off the list by the one caller that joins it.
IsJoined(c, w, place) ==
    /\ <<yarnPc[c], place>> \in {<<"joined", "idle">>, <<"joinDone", "joinAll">>}
    /\ yarnPc[w] = "exited" /\ Threading!Forget(w) /\ yarnValue' = yarnValue - 1
    /\ \A d \in Callers :
          d # c /\ yarnPc[d] \in {"launched", "join", "joined", "joinDone"} => ally[d] # w
    /\ yarnPc' = [yarnPc EXCEPT ![c] = place, ![w] = "joined"]
    /\ ally' = [ally EXCEPT ![c] = Threading!NoOne]
    /\ UNCHANGED <<yarnOwner, sleeping>>

LEMMA ForgetKeeps ==
    ASSUME YarnIInv, NEW c \in Callers, NEW w \in Workers, NEW place, IsJoined(c, w, place)
    PROVE  YarnIInv'
  <1> USE DEF YarnIInv
  <1>1. \/ yarnPc[c] = "joined" /\ place = "idle"
        \/ yarnPc[c] = "joinDone" /\ place = "joinAll"
    BY DEF IsJoined
  <1>2. /\ \A t \in Callers \cup Workers :
              yarnPc'[t] = IF t = w THEN "joined" ELSE IF t = c THEN place ELSE yarnPc[t]
        /\ \A d \in Callers : ally'[d] = IF d = c THEN Threading!NoOne ELSE ally[d]
        /\ \A x \in Workers : launcher'[x] = IF x = w THEN Threading!NoOne ELSE launcher[x]
        /\ done' = done \ {w}
        /\ yarnPc[w] = "exited" /\ UNCHANGED <<yarnOwner, sleeping>>
        /\ \A d \in Callers :
              d # c /\ yarnPc[d] \in {"launched", "join", "joined", "joinDone"} => ally[d] # w
    BY DEF IsJoined, Threading!YarnTypeOK, Threading!Forget
  <1>3. w \in done /\ w \in ToSet(threads)
    BY <1>2 DEF ListOK
  <1>4. /\ threads' \in Seq(Workers) /\ NoneTwice(threads')
        /\ ToSet(threads') = ToSet(threads) \ {w}
    <2>1. threads' = RemoveFirst(threads, w)
      BY SameOperators DEF IsJoined, Threading!Forget, Threading!Without
    <2>2. threads \in Seq(Workers) /\ NoneTwice(threads)
      BY DEF Threading!YarnTypeOK, ListOK
    <2> QED BY <1>3, <2>1, <2>2, Removed
  <1>5. yarnValue' = Cardinality(done') /\ yarnValue' \in Nat
    BY <1>2, <1>3, DoneIsFinite, FS_RemoveElement, FS_CardinalityType, FS_Subset DEF IsJoined, ListOK
  <1>6. Threading!YarnTypeOK'
    BY <1>1, <1>2, <1>4, <1>5 DEF IsJoined, Threading!Forget, Threading!YarnTypeOK
  <1>7. YarnPlacesOK'
    BY <1>1, <1>2, Apart DEF YarnPlacesOK, YarnHolds, Threading!JoiningAll
  <1>8. LaunchedOK'
    BY <1>1, <1>2, <1>3, Apart DEF LaunchedOK, Threading!YarnTypeOK
  <1>9. JoinAllAlone'
    BY <1>1, <1>2, Apart DEF JoinAllAlone, Threading!JoiningAll
  <1>10. ListOK'
    BY <1>1, <1>2, <1>3, <1>4, <1>5, Apart DEF ListOK
  <1> QED BY <1>6, <1>7, <1>8, <1>9, <1>10

LEMMA JoinRemoveKeeps ==
    ASSUME YarnIInv, NEW c \in Callers, Threading!JoinRemove(c) PROVE YarnIInv'
  <1>0. PICK w : w = ally[c]
    OBVIOUS
  <1>1. /\ yarnPc[c] = "joined" /\ w \in Workers /\ launcher[w] = c /\ yarnPc[w] = "exited"
        /\ w \in done /\ w \in ToSet(threads)
    BY <1>0 DEF Threading!JoinRemove, YarnIInv, LaunchedOK, ListOK
  <1>2. \A d \in Callers : d # c /\ yarnPc[d] \in {"launched", "join", "joined", "joinDone"} => ally[d] # w
    BY <1>1, Apart DEF YarnIInv, LaunchedOK, JoinAllAlone, Threading!JoiningAll
  <1>3. /\ Threading!Forget(w) /\ yarnValue' = yarnValue - 1
        /\ yarnPc' = [yarnPc EXCEPT ![c] = "idle", ![w] = "joined"]
        /\ ally' = [ally EXCEPT ![c] = Threading!NoOne] /\ UNCHANGED <<yarnOwner, sleeping>>
    BY <1>0, <1>1, SameOperators DEF Threading!JoinRemove
  <1>4. IsJoined(c, w, "idle")
    BY <1>1, <1>2, <1>3 DEF IsJoined
  <1> QED BY <1>1, <1>4, ForgetKeeps

LEMMA JoinAllRemoveKeeps ==
    ASSUME YarnIInv, NEW c \in Callers, Threading!JoinAllRemove(c) PROVE YarnIInv'
  <1>0. PICK w : w = ally[c]
    OBVIOUS
  <1>1. /\ yarnPc[c] = "joinDone" /\ w \in Workers /\ yarnPc[w] = "exited"
    BY <1>0 DEF Threading!JoinAllRemove, YarnIInv, LaunchedOK, Threading!YarnTypeOK
  <1>2. \A d \in Callers : d # c => yarnPc[d] \notin {"launched", "join", "joined", "joinDone"}
    BY <1>1, Apart DEF YarnIInv, YarnPlacesOK, YarnHolds, JoinAllAlone, Threading!JoiningAll
  <1>3. /\ Threading!Forget(w) /\ yarnValue' = yarnValue - 1
        /\ yarnPc' = [yarnPc EXCEPT ![c] = "joinAll", ![w] = "joined"]
        /\ ally' = [ally EXCEPT ![c] = Threading!NoOne] /\ UNCHANGED <<yarnOwner, sleeping>>
    BY <1>0 DEF Threading!JoinAllRemove
  <1>4. IsJoined(c, w, "joinAll")
    BY <1>1, <1>2, <1>3 DEF IsJoined
  <1> QED BY <1>1, <1>4, ForgetKeeps

LEMMA AgainKeeps == ASSUME YarnIInv, Threading!Again PROVE YarnIInv'
  <1> USE DEF YarnIInv
  <1>1. /\ threads = <<>> /\ \A c \in Callers : yarnPc[c] = "idle"
        /\ \A t \in Callers \cup Workers : yarnPc'[t] = IF t \in Callers THEN "idle" ELSE "unborn"
        /\ UNCHANGED <<yarnOwner, yarnValue, sleeping, threads, done, ally, launcher>>
    BY DEF Threading!Again, Threading!lock, Threading!list
  <1>2. /\ ToSet(threads) = {} /\ done = {} /\ \A w \in Workers : launcher[w] = Threading!NoOne
    BY <1>1 DEF ListOK, ToSet
  <1>3. Threading!YarnTypeOK'
    BY <1>1 DEF Threading!YarnTypeOK, Threading!Again
  <1>4. YarnPlacesOK' /\ LaunchedOK' /\ JoinAllAlone' /\ ListOK'
    BY <1>1, <1>2, Apart
    DEF YarnPlacesOK, YarnHolds, LaunchedOK, JoinAllAlone, ListOK, Threading!JoiningAll
  <1> QED BY <1>3, <1>4

LEMMA YarnStepKeeps == ASSUME YarnIInv, Threading!Next PROVE YarnIInv'
  <1>1. ASSUME NEW c \in Callers, NEW w \in Workers, Threading!LaunchCreate(c, w) \/ Threading!CallJoin(c, w)
        PROVE  YarnIInv'
    BY <1>1, LaunchCreateKeeps, CallJoinKeeps
  <1>2. ASSUME NEW c \in Callers, Threading!CallJoinAll(c) \/ Threading!Inside(c)
        PROVE  YarnIInv'
    BY <1>2, LaunchInsertKeeps, JoinRemoveKeeps, CallersGoOn, JoinAllFindKeeps, JoinAllRemoveKeeps
    DEF Threading!Inside
  <1>3. ASSUME NEW w \in Workers, Threading!Work(w) PROVE YarnIInv'
    BY <1>3, ReturnAndExitKeep, ReenterKeeps DEF Threading!Work
  <1> QED BY <1>1, <1>2, <1>3, AgainKeeps DEF Threading!Next

LEMMA YarnInvariantShows == YarnIInv => ListTellsTheThreads
  <1> SUFFICES ASSUME YarnIInv PROVE ListTellsTheThreads
    OBVIOUS
  <1> USE DEF YarnIInv
  <1>1. \A t \in Callers \cup Workers : yarnPc[t] # "failed"
    BY DEF YarnPlacesOK, Threading!JoiningAll
  <1>2. ASSUME yarnOwner = Threading!NoOne
        PROVE  Threading!ToSet(threads) = {w \in Workers : launcher[w] # Threading!NoOne}
    <2>1. \A c \in Callers : yarnPc[c] # "launched"
      BY <1>2, Apart DEF YarnPlacesOK, YarnHolds
    <2>2. ToSet(threads) \subseteq Workers
      BY ElementOfSeq, LenProperties DEF Threading!YarnTypeOK, ToSet
    <2> QED BY <2>1, <2>2, SameOperators DEF ListOK
  <1>3. Threading!IsInjective(threads) /\ yarnValue = Cardinality(done) /\ done \subseteq Threading!ToSet(threads)
    BY SameOperators, Zenon DEF ListOK
  <1>4. Threading!ListTellsTheThreads
    <2> HIDE DEF YarnIInv
    <2>1. yarnOwner = Threading!NoOne => Threading!ToSet(threads) = {w \in Workers : launcher[w] # Threading!NoOne}
      BY <1>2
    <2> QED BY <1>1, <2>1, <1>3, SameOperators DEF Threading!ListTellsTheThreads
  <1> QED BY <1>4 DEF ListTellsTheThreads

\* Whoever takes threads_lock finds on the list, once each, the threads that were
\* launched and not joined, and as its value how many of them have ended; reenter,
\* join and join_all find on it whom they look for, whoever launches, joins and ends
\* meanwhile: for any number of callers and threads.
THEOREM ListIsRight == LocksSpec => []ListTellsTheThreads
  <1>1. LocksInit => YarnIInv
    BY YarnInitHolds DEF LocksInit
  <1>2. YarnIInv /\ [LocksNext]_locksVars => YarnIInv'
    <2> SUFFICES ASSUME YarnIInv, [LocksNext]_locksVars PROVE YarnIInv'
      OBVIOUS
    <2>1. CASE YarnStep(Threading!Next)
      BY <2>1, YarnStepKeeps DEF YarnStep
    <2>2. CASE UNCHANGED yarnVars
      BY <2>2 DEF yarnVars, YarnIInv, Threading!YarnTypeOK, YarnPlacesOK, YarnHolds, LaunchedOK, JoinAllAlone, ListOK
    <2> QED BY <2>1, <2>2 DEF LocksNext, locksVars
  <1> QED BY <1>1, <1>2, YarnInvariantShows, PTL DEF LocksSpec
==============================================================================
