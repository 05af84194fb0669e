--------------------------- MODULE RegistryProofs ---------------------------
(***************************************************************************)
(* Proofs about what the registry is asked and what its answers are worth. *)
(* IndexCache: a key is fetched once, and every answered lookup of a key   *)
(* gets the same answer.  ChartCheck: the answer about a chart is sound.   *)
(* ImageCheck: of the listed tags the best is offered, and the search      *)
(* misses none in silence, unless its version is below 1.                  *)
(***************************************************************************)
EXTENDS IndexCache, ImageCheck, ChartCheck, FiniteSetTheorems, SequenceTheorems, TLAPS

(* Nothing is looked up, memoized or led at first. *)
LEMMA InitInv == Init => IInv
<1> SUFFICES ASSUME Init PROVE IInv
  OBVIOUS
<1> USE CallsAssumption, NoneAssumption
<1>1. TypeOK
  BY DEF Init, TypeOK
<1>2. LeaderOK /\ MissOK /\ AnswerOK
  BY DEF Init, LeaderOK, MissOK, AnswerOK, Leading
<1>3. CountOK
  BY DEF Init, CountOK, UnderWay
<1> QED BY <1>1, <1>2, <1>3 DEF IInv

(* A call begins. *)
LEMMA StartInv == ASSUME IInv, NEW c \in Calls, Start(c) PROVE IInv'
<1> USE CallsAssumption, NoneAssumption DEF IInv
<1>1. TypeOK'
  BY DEF TypeOK, Start, Leading
<1>2. LeaderOK'
  BY DEF TypeOK, LeaderOK, Start, Leading
<1>3. MissOK'
  BY DEF TypeOK, MissOK, Start
<1>4. AnswerOK'
  BY DEF TypeOK, AnswerOK, Start
<1>5. CountOK'
  BY DEF TypeOK, CountOK, UnderWay, Start
<1> QED BY <1>1, <1>2, <1>3, <1>4, <1>5

(* A call finds the memoized answer, or goes on to singleflight. *)
LEMMA LookInv == ASSUME IInv, NEW c \in Calls, Look(c) PROVE IInv'
<1> USE CallsAssumption, NoneAssumption DEF IInv
<1>1. TypeOK'
  BY DEF TypeOK, Look, Leading
<1>2. LeaderOK'
  BY DEF TypeOK, LeaderOK, Look, Leading
<1>3. MissOK'
  BY DEF TypeOK, MissOK, Look
<1>4. AnswerOK'
  BY DEF TypeOK, AnswerOK, Look
<1>5. CountOK'
  BY DEF TypeOK, CountOK, UnderWay, Look
<1> QED BY <1>1, <1>2, <1>3, <1>4, <1>5

(* A call leads its key or joins the flight. *)
LEMMA DoInv == ASSUME IInv, NEW c \in Calls, Do(c) PROVE IInv'
<1> USE CallsAssumption, NoneAssumption DEF IInv
<1>1. TypeOK'
  BY DEF TypeOK, Do, Leading
<1>2. LeaderOK'
  BY DEF TypeOK, LeaderOK, Do, Leading
<1>3. MissOK'
  BY DEF TypeOK, MissOK, Do
<1>4. AnswerOK'
  BY DEF TypeOK, AnswerOK, Do
<1>5. CountOK'
  BY DEF TypeOK, CountOK, UnderWay, Do
<1> QED BY <1>1, <1>2, <1>3, <1>4, <1>5

(* While the leader looks again or waits for a slot, no fetch of its key is under way. *)
LEMMA NotUnderWay ==
  ASSUME IInv, NEW c \in Calls, pc[c] \in {"recheck", "slot"}
  PROVE  ~UnderWay(KeyOf[c])
<1> SUFFICES ASSUME NEW d \in Calls, KeyOf[d] = KeyOf[c], pc[d] \in {"fetch", "store"}
             PROVE  FALSE
  BY DEF UnderWay
<1>1. flight[KeyOf[c]] = c /\ flight[KeyOf[d]] = d
  BY DEF IInv, LeaderOK, Leading
<1> QED BY <1>1

(* The leader finds an answer after all, or starts. *)
LEMMA RecheckInv == ASSUME IInv, NEW c \in Calls, Recheck(c) PROVE IInv'
<1> USE CallsAssumption, NoneAssumption DEF IInv
<1>1. TypeOK'
  BY DEF TypeOK, Recheck, Ask, Leading
<1>2. LeaderOK'
  BY DEF TypeOK, LeaderOK, Recheck, Leading
<1>3. MissOK'
  BY DEF TypeOK, MissOK, Recheck
<1>4. AnswerOK'
  BY DEF TypeOK, AnswerOK, Recheck
<1>5. CountOK'
  <2> SUFFICES ASSUME NEW k \in Keys
               PROVE  asked'[k] = unkept'[k] + (IF memo'[k] # None \/ UnderWay(k)' THEN 1 ELSE 0)
    BY DEF CountOK
  <2>1. ~UnderWay(KeyOf[c])
    BY NotUnderWay DEF Recheck
  <2>2. CASE pc'[c] # "fetch"
    <3>1. UnderWay(k)' <=> UnderWay(k)
      BY <2>2 DEF TypeOK, UnderWay, Recheck
    <3> QED BY <2>2, <3>1 DEF TypeOK, CountOK, Recheck
  <2>3. CASE pc'[c] = "fetch"
    <3>1. memo[KeyOf[c]] = None /\ asked' = [asked EXCEPT ![KeyOf[c]] = @ + 1]
      BY <2>3 DEF TypeOK, Recheck, Ask
    <3>2. UnderWay(KeyOf[c])'
      BY <2>3 DEF UnderWay
    <3>3. k # KeyOf[c] => (UnderWay(k)' <=> UnderWay(k))
      BY <2>3 DEF TypeOK, UnderWay, Recheck
    <3> QED BY <2>1, <3>1, <3>2, <3>3 DEF TypeOK, CountOK, Recheck
  <2> QED BY <2>2, <2>3
<1> QED BY <1>1, <1>2, <1>3, <1>4, <1>5

(* The leader gets a slot, or gives up waiting for one. *)
LEMMA TakeSlotInv == ASSUME IInv, NEW c \in Calls, TakeSlot(c) PROVE IInv'
<1> USE CallsAssumption, NoneAssumption DEF IInv
<1>1. TypeOK'
  BY DEF TypeOK, TakeSlot, Ask, Leading, Answers
<1>2. LeaderOK'
  BY DEF TypeOK, LeaderOK, TakeSlot, Leading
<1>3. MissOK'
  BY DEF TypeOK, MissOK, TakeSlot
<1>4. AnswerOK'
  BY DEF TypeOK, AnswerOK, TakeSlot, Answers
<1>5. CountOK'
  <2> SUFFICES ASSUME NEW k \in Keys
               PROVE  asked'[k] = unkept'[k] + (IF memo'[k] # None \/ UnderWay(k)' THEN 1 ELSE 0)
    BY DEF CountOK
  <2>1. ~UnderWay(KeyOf[c]) /\ memo[KeyOf[c]] = None
    BY NotUnderWay DEF TakeSlot, MissOK
  <2>2. CASE pc'[c] # "fetch"
    <3>1. UnderWay(k)' <=> UnderWay(k)
      BY <2>2 DEF TypeOK, UnderWay, TakeSlot
    <3> QED BY <2>2, <3>1 DEF TypeOK, CountOK, TakeSlot
  <2>3. CASE pc'[c] = "fetch"
    <3>1. asked' = [asked EXCEPT ![KeyOf[c]] = @ + 1]
      BY <2>3 DEF TypeOK, TakeSlot, Ask
    <3>2. UnderWay(KeyOf[c])'
      BY <2>3 DEF UnderWay
    <3>3. k # KeyOf[c] => (UnderWay(k)' <=> UnderWay(k))
      BY <2>3 DEF TypeOK, UnderWay, TakeSlot
    <3> QED BY <2>1, <2>3, <3>1, <3>2, <3>3 DEF TypeOK, CountOK, TakeSlot
  <2> QED BY <2>2, <2>3
<1> QED BY <1>1, <1>2, <1>3, <1>4, <1>5

(* The registry answered, or a context ended. *)
LEMMA FetchInv == ASSUME IInv, NEW c \in Calls, Fetch(c) PROVE IInv'
<1> USE CallsAssumption, NoneAssumption DEF IInv
<1>0. PICK kind \in {"value", "error", "ended"} :
        /\ ans' = [ans EXCEPT ![c] = [kind |-> kind, n |-> asked[KeyOf[c]]]]
        /\ unkept' = IF kind = "ended" THEN [unkept EXCEPT ![KeyOf[c]] = @ + 1] ELSE unkept
  BY DEF Fetch
<1>1. TypeOK'
  <2>1. [kind |-> kind, n |-> asked[KeyOf[c]]] \in Answers
    BY DEF TypeOK, Answers
  <2>2. ans' \in [Calls -> Answers \cup {None}] /\ (\A d \in Calls : pc'[d] = "back" => ans'[d] # None)
    BY <1>0, <2>1 DEF TypeOK, Fetch
  <2>3. unkept' \in [Keys -> Nat]
    BY <1>0 DEF TypeOK
  <2>4. pc' \in [Calls -> Leading \cup {"idle", "look", "do", "wait", "back"}]
    BY DEF TypeOK, Fetch, Leading
  <2> QED BY <2>2, <2>3, <2>4 DEF TypeOK, Fetch
<1>2. LeaderOK'
  BY DEF TypeOK, LeaderOK, Fetch, Leading
<1>3. MissOK'
  BY DEF TypeOK, MissOK, Fetch
<1>4. AnswerOK'
  BY <1>0, <1>1 DEF TypeOK, AnswerOK, Fetch, Answers
<1>5. CountOK'
  <2> SUFFICES ASSUME NEW k \in Keys
               PROVE  asked'[k] = unkept'[k] + (IF memo'[k] # None \/ UnderWay(k)' THEN 1 ELSE 0)
    BY DEF CountOK
  <2>1. UnderWay(KeyOf[c]) /\ memo[KeyOf[c]] = None
    BY DEF UnderWay, MissOK, Fetch
  <2>2. \A d \in Calls \ {c} : KeyOf[d] = KeyOf[c] => pc[d] \notin {"fetch", "store"}
    BY DEF LeaderOK, Leading, Fetch
  <2>3. UnderWay(KeyOf[c])' <=> kind # "ended"
    BY <1>0, <2>2 DEF TypeOK, UnderWay, Fetch
  <2>4. k # KeyOf[c] => (UnderWay(k)' <=> UnderWay(k))
    BY <1>0 DEF TypeOK, UnderWay, Fetch
  <2> QED BY <1>0, <2>1, <2>3, <2>4 DEF TypeOK, CountOK, Fetch
<1> QED BY <1>1, <1>2, <1>3, <1>4, <1>5

(* The outcome is memoized. *)
LEMMA StoreInv == ASSUME IInv, NEW c \in Calls, Store(c) PROVE IInv'
<1> USE CallsAssumption, NoneAssumption DEF IInv
<1>1. TypeOK'
  BY DEF TypeOK, AnswerOK, Store, Keeps, Leading
<1>2. LeaderOK'
  BY DEF TypeOK, LeaderOK, Store, Leading
<1>3. \A d \in Calls \ {c} : KeyOf[d] = KeyOf[c] => pc[d] \notin Leading
  BY DEF LeaderOK, Leading, Store
<1>4. MissOK'
  BY <1>3 DEF TypeOK, MissOK, Store, Leading
<1>5. AnswerOK'
  <2> SUFFICES ASSUME NEW d \in Calls, pc'[d] \in {"store", "leave", "back"}
               PROVE  ans'[d] # None /\ (pc'[d] # "store" /\ ans'[d].kind # "ended" => memo'[KeyOf[d]] = ans'[d])
    BY DEF AnswerOK
  <2>1. /\ pc[c] = "store" /\ ans' = ans /\ pc' = [pc EXCEPT ![c] = "leave"]
        /\ memo' = IF ans[c].kind # "ended" THEN [memo EXCEPT ![KeyOf[c]] = ans[c]] ELSE memo
    BY DEF Store, Keeps
  <2>2. DOMAIN pc = Calls /\ KeyOf[c] \in DOMAIN memo /\ memo[KeyOf[c]] = None
    <3>1. DOMAIN pc = Calls /\ DOMAIN memo = Keys /\ KeyOf[c] \in Keys
      BY DEF TypeOK
    <3> QED BY <2>1, <3>1 DEF MissOK
  <2>3. CASE d = c
    BY <2>1, <2>2, <2>3 DEF AnswerOK
  <2>4. CASE d # c
    <3>1. pc[d] = pc'[d]
      BY <2>1, <2>2, <2>4
    <3>2. ans[d] # None /\ (pc[d] # "store" /\ ans[d].kind # "ended" => memo[KeyOf[d]] = ans[d])
      BY <3>1 DEF AnswerOK
    <3>3. pc[d] # "store" /\ ans[d].kind # "ended" => KeyOf[d] # KeyOf[c]
      BY <2>2, <3>2
    <3> QED BY <2>1, <3>1, <3>2, <3>3
  <2> QED BY <2>3, <2>4
<1>6. CountOK'
  <2> SUFFICES ASSUME NEW k \in Keys
               PROVE  asked'[k] = unkept'[k] + (IF memo'[k] # None \/ UnderWay(k)' THEN 1 ELSE 0)
    BY DEF CountOK
  <2>1. memo[KeyOf[c]] = None /\ ans[c] # None
    BY DEF MissOK, AnswerOK, Store
  <2>2. UnderWay(KeyOf[c]) <=> ans[c].kind # "ended"
    BY <1>3 DEF UnderWay, Store, Leading
  <2>3. ~UnderWay(KeyOf[c])'
    BY <1>3 DEF TypeOK, UnderWay, Store, Leading
  <2>4. memo'[KeyOf[c]] # None <=> ans[c].kind # "ended"
    BY <2>1 DEF TypeOK, Store, Keeps
  <2>5. k # KeyOf[c] => (UnderWay(k)' <=> UnderWay(k)) /\ memo'[k] = memo[k]
    BY DEF TypeOK, UnderWay, Store
  <2> QED BY <2>1, <2>2, <2>3, <2>4, <2>5 DEF TypeOK, CountOK, Store
<1> QED BY <1>1, <1>2, <1>4, <1>5, <1>6

(* The flight ends and everybody who waited for it has its answer. *)
LEMMA LeaveInv == ASSUME IInv, NEW c \in Calls, Leave(c) PROVE IInv'
<1> USE CallsAssumption, NoneAssumption DEF IInv
<1>0. /\ ans[c] # None
      /\ \A d \in Calls : d \in Served(c) => KeyOf[d] = KeyOf[c] /\ pc[d] \in {"wait", "leave"}
      /\ c \in Served(c)
  BY DEF AnswerOK, Served, Leave
<1>1. TypeOK'
  BY <1>0 DEF TypeOK, Leave, AnswersOf, Leading
<1>2. LeaderOK'
  <2> SUFFICES ASSUME NEW d \in Calls PROVE pc'[d] \in Leading <=> flight'[KeyOf[d]] = d
    BY DEF LeaderOK
  <2>1. flight[KeyOf[c]] = c /\ (pc[d] \in Leading <=> flight[KeyOf[d]] = d)
    BY DEF LeaderOK, Leading, Leave
  <2>2. CASE KeyOf[d] = KeyOf[c]
    BY <1>0, <2>1, <2>2 DEF TypeOK, Leave, Leading
  <2>3. CASE KeyOf[d] # KeyOf[c]
    BY <1>0, <2>1, <2>3 DEF TypeOK, Leave
  <2> QED BY <2>2, <2>3
<1>3. MissOK'
  BY DEF TypeOK, MissOK, Leave
<1>4. AnswerOK'
  BY <1>0 DEF TypeOK, AnswerOK, Leave, AnswersOf
<1>5. CountOK'
  <2>1. \A d \in Calls : /\ pc'[d] \in {"fetch", "store"} <=> pc[d] \in {"fetch", "store"}
                         /\ pc[d] \in {"fetch", "store"} => pc'[d] = pc[d] /\ ans'[d] = ans[d]
    BY <1>0 DEF TypeOK, Leave
  <2>2. \A k \in Keys : UnderWay(k)' <=> UnderWay(k)
    BY <2>1 DEF UnderWay
  <2> QED BY <2>2 DEF CountOK, Leave
<1> QED BY <1>1, <1>2, <1>3, <1>4, <1>5

(* The inductive invariant is preserved by every step. *)
LEMMA StepInv == IInv /\ [Next]_vars => IInv'
<1> SUFFICES ASSUME IInv, [Next]_vars PROVE IInv'
  OBVIOUS
<1>1. CASE UNCHANGED vars
  BY <1>1 DEF IInv, TypeOK, LeaderOK, MissOK, AnswerOK, CountOK, UnderWay, vars
<1>2. CASE Cancel
  BY <1>2 DEF IInv, TypeOK, LeaderOK, MissOK, AnswerOK, CountOK, UnderWay, Cancel
<1>3. ASSUME NEW c \in Calls, Start(c) PROVE IInv'
  BY <1>3, StartInv
<1>4. ASSUME NEW c \in Calls, Step(c) PROVE IInv'
  BY <1>4, LookInv, DoInv, RecheckInv, TakeSlotInv, FetchInv, StoreInv, LeaveInv DEF Step
<1> QED BY <1>1, <1>2, <1>3, <1>4 DEF Next

LEMMA Inv == Spec => []IInv
BY InitInv, StepInv, PTL DEF Spec

(***************************************************************************)
(* The state keeps its type, and a call that returned has an answer, for   *)
(* any checks, keys and slots.                                             *)
(***************************************************************************)
THEOREM CacheTypeCorrect == Spec => []TypeOK
<1>1. IInv => TypeOK
  BY DEF IInv
<1> QED BY Inv, <1>1, PTL

(***************************************************************************)
(* However many lookups of a key there are and however they interleave, it *)
(* is fetched once, plus once per fetch an ended context cut short.        *)
(***************************************************************************)
THEOREM KeyAskedOnce == Spec => []AskedOnce
<1>1. IInv => AskedOnce
  BY DEF IInv, TypeOK, CountOK, AskedOnce
<1> QED BY Inv, <1>1, PTL

(***************************************************************************)
(* Any two answered lookups of a key got the same answer.                  *)
(***************************************************************************)
THEOREM KeySameAnswer == Spec => []SameAnswer
<1>1. IInv => SameAnswer
  BY CallsAssumption DEF IInv, AnswerOK, SameAnswer
<1> QED BY Inv, <1>1, PTL

----------------------------------------------------------------------------
(* Finite sets that are ordered: the greatest of one. *)

(* A non-empty set of numbers has a least one. *)
LEMMA LeastNumber ==
  ASSUME NEW S \in SUBSET Nat, S # {}
  PROVE  \E m \in S : \A n \in S : m <= n
<1>1. PICK m \in S : \A n \in S : ~ (<<n, m>> \in OpToRel(<, Nat))
  BY NatLessThanWellFounded, WFMin
<1>2. ASSUME NEW n \in S PROVE m <= n
  <2>1. m \in Nat /\ n \in Nat
    OBVIOUS
  <2>2. ~ (n < m)
    BY <1>1, <2>1 DEF OpToRel
  <2> HIDE <1>1
  <2> QED BY <2>1, <2>2
<1> QED BY <1>2

(* The pairs of an irreflexive, transitive order are in After. *)
LEMMA MaximumExists ==
  ASSUME NEW S, IsFiniteSet(S), S # {}, NEW After,
         \A a \in S : <<a, a>> \notin After,
         \A a, b, c \in S : <<a, b>> \in After /\ <<b, c>> \in After => <<a, c>> \in After
  PROVE  \E m \in S : \A a \in S : <<a, m>> \notin After
<1> DEFINE above == [m \in S |-> {a \in S : <<a, m>> \in After}]
           rank == [m \in S |-> Cardinality(above[m])]
           ranks == {rank[m] : m \in S}
<1>1. \A m \in S : above[m] \in SUBSET S /\ \A a \in S : a \in above[m] <=> <<a, m>> \in After
  OBVIOUS
<1> HIDE DEF above
<1>2. \A m \in S : IsFiniteSet(above[m]) /\ Cardinality(above[m]) \in Nat
  BY <1>1, FS_Subset, FS_CardinalityType
<1>3. \A m \in S : rank[m] = Cardinality(above[m]) /\ rank[m] \in Nat
  BY <1>2
<1> HIDE DEF rank
<1>4. ranks \in SUBSET Nat /\ ranks # {}
  BY <1>3
<1>5. PICK k \in ranks : \A n \in ranks : k <= n
  <2> HIDE DEF ranks
  <2> QED BY <1>4, LeastNumber
<1>6. PICK m \in S : k = rank[m]
  OBVIOUS
<1>7. ASSUME NEW a \in S, <<a, m>> \in After PROVE FALSE
  <2>1. above[a] \in SUBSET above[m] /\ a \in above[m] /\ a \notin above[a]
    BY <1>1, <1>7
  <2>2. rank[m] <= rank[a]
    BY <1>5, <1>6
  <2>3. rank[a] <= rank[m]
    BY <1>2, <1>3, <2>1, FS_Subset
  <2>4. above[a] = above[m]
    BY <1>2, <1>3, <2>1, <2>2, <2>3, FS_Subset
  <2> QED BY <2>1, <2>4
<1> QED BY <1>7

----------------------------------------------------------------------------
(***************************************************************************)
(* Charts: versions of any three numbers, pre-releases of any rank.        *)
(***************************************************************************)
Versions == [core : [1 .. 3 -> Nat], pre : Nat]
Constraints == [op : {"ge", "caret", "tilde"}, low : Versions]

LEMMA SameUpToIs ==
  ASSUME NEW v \in Versions, NEW w \in Versions
  PROVE  /\ SameUpTo(0, v, w)
         /\ SameUpTo(1, v, w) <=> v.core[1] = w.core[1]
         /\ SameUpTo(2, v, w) <=> v.core[1] = w.core[1] /\ v.core[2] = w.core[2]
         /\ SameUpTo(3, v, w) <=> v.core[1] = w.core[1] /\ v.core[2] = w.core[2] /\ v.core[3] = w.core[3]
<1>1. 1 .. 0 = {} /\ 1 .. 1 = {1} /\ 1 .. 2 = {1, 2} /\ 1 .. 3 = {1, 2, 3}
  OBVIOUS
<1> QED BY <1>1 DEF SameUpTo

LEMMA GreaterThanIs ==
  ASSUME NEW v \in Versions, NEW w \in Versions
  PROVE  GreaterThan(v, w) <=>
           \/ v.core[1] > w.core[1]
           \/ v.core[1] = w.core[1] /\ v.core[2] > w.core[2]
           \/ v.core[1] = w.core[1] /\ v.core[2] = w.core[2] /\ v.core[3] > w.core[3]
           \/ /\ v.core[1] = w.core[1] /\ v.core[2] = w.core[2] /\ v.core[3] = w.core[3]
              /\ w.pre # 0 /\ (v.pre = 0 \/ v.pre > w.pre)
<1>1. \A i \in 1 .. 3 : i = 1 \/ i = 2 \/ i = 3
  OBVIOUS
<1>2. (\E i \in 1 .. 3 : v.core[i] > w.core[i] /\ SameUpTo(i - 1, v, w)) <=>
           \/ v.core[1] > w.core[1]
           \/ v.core[1] = w.core[1] /\ v.core[2] > w.core[2]
           \/ v.core[1] = w.core[1] /\ v.core[2] = w.core[2] /\ v.core[3] > w.core[3]
  <2>1. 1 \in 1 .. 3 /\ 2 \in 1 .. 3 /\ 3 \in 1 .. 3 /\ 1 - 1 = 0 /\ 2 - 1 = 1 /\ 3 - 1 = 2
    OBVIOUS
  <2> QED BY <1>1, <2>1, SameUpToIs
<1> QED BY <1>2, SameUpToIs DEF GreaterThan

LEMMA NumbersOf ==
  ASSUME NEW v \in Versions
  PROVE  v.core[1] \in Nat /\ v.core[2] \in Nat /\ v.core[3] \in Nat /\ v.pre \in Nat
BY DEF Versions

LEMMA VersionsOrdered ==
  /\ \A v \in Versions : ~GreaterThan(v, v)
  /\ \A u, v, w \in Versions : GreaterThan(u, v) /\ GreaterThan(v, w) => GreaterThan(u, w)
<1>1. ASSUME NEW v \in Versions PROVE ~GreaterThan(v, v)
  BY GreaterThanIs, NumbersOf
<1>2. ASSUME NEW u \in Versions, NEW v \in Versions, NEW w \in Versions, GreaterThan(u, v), GreaterThan(v, w)
      PROVE  GreaterThan(u, w)
  <2>1. /\ u.core[1] \in Nat /\ u.core[2] \in Nat /\ u.core[3] \in Nat /\ u.pre \in Nat
        /\ v.core[1] \in Nat /\ v.core[2] \in Nat /\ v.core[3] \in Nat /\ v.pre \in Nat
        /\ w.core[1] \in Nat /\ w.core[2] \in Nat /\ w.core[3] \in Nat /\ w.pre \in Nat
    BY NumbersOf
  <2>2. \/ u.core[1] > v.core[1]
        \/ u.core[1] = v.core[1] /\ u.core[2] > v.core[2]
        \/ u.core[1] = v.core[1] /\ u.core[2] = v.core[2] /\ u.core[3] > v.core[3]
        \/ /\ u.core[1] = v.core[1] /\ u.core[2] = v.core[2] /\ u.core[3] = v.core[3]
           /\ v.pre # 0 /\ (u.pre = 0 \/ u.pre > v.pre)
    BY <1>2, GreaterThanIs
  <2>3. \/ v.core[1] > w.core[1]
        \/ v.core[1] = w.core[1] /\ v.core[2] > w.core[2]
        \/ v.core[1] = w.core[1] /\ v.core[2] = w.core[2] /\ v.core[3] > w.core[3]
        \/ /\ v.core[1] = w.core[1] /\ v.core[2] = w.core[2] /\ v.core[3] = w.core[3]
           /\ w.pre # 0 /\ (v.pre = 0 \/ v.pre > w.pre)
    BY <1>2, GreaterThanIs
  <2>4. \/ u.core[1] > w.core[1]
        \/ u.core[1] = w.core[1] /\ u.core[2] > w.core[2]
        \/ u.core[1] = w.core[1] /\ u.core[2] = w.core[2] /\ u.core[3] > w.core[3]
        \/ /\ u.core[1] = w.core[1] /\ u.core[2] = w.core[2] /\ u.core[3] = w.core[3]
           /\ w.pre # 0 /\ (u.pre = 0 \/ u.pre > w.pre)
    BY ONLY <2>1, <2>2, <2>3
  <2> QED BY <2>4, GreaterThanIs
<1> QED BY <1>1, <1>2

(* Of finitely many versions one is the greatest. *)
LEMMA GreatestIs ==
  ASSUME NEW vs \in SUBSET Versions, IsFiniteSet(vs), vs # {}
  PROVE  Greatest(vs) \in vs /\ \A w \in vs : NotBelow(Greatest(vs), w)
<1> DEFINE After == {p \in vs \X vs : GreaterThan(p[1], p[2])}
<1>1. \A a, b \in vs : <<a, b>> \in After <=> GreaterThan(a, b)
  OBVIOUS
<1>2. /\ \A a \in vs : <<a, a>> \notin After
      /\ \A a, b, c \in vs : <<a, b>> \in After /\ <<b, c>> \in After => <<a, c>> \in After
  <2> HIDE DEF After
  <2> QED BY <1>1, VersionsOrdered
<1> HIDE DEF After
<1>3. \E m \in vs : \A a \in vs : <<a, m>> \notin After
  BY <1>2, MaximumExists
<1>4. \E m \in vs : \A w \in vs : NotBelow(m, w)
  BY <1>1, <1>3 DEF NotBelow
<1> QED BY <1>4 DEF Greatest

(* What is no version is none, and errors as the registry clients make them: *)
(* one that holds a status holds nothing else but a kind.                    *)
TextsAreNoVersions == NoVersion \notin Versions \cup Constraints /\ Junk \notin Versions \cup Constraints

Chains ==
  {f \in [known : STRING, status : {0} \cup 100 .. 599, badName : BOOLEAN, deadline : BOOLEAN,
          net : {"", "refused", "timeout"}] :
     f.status # 0 => ~f.badName /\ ~f.deadline /\ f.net = ""}

ChartRequests ==
  [proto : {"http", "https", "oci", "git"}, repo : BOOLEAN,
   decl : Versions \cup Constraints \cup {NoVersion, Junk},
   scope : {"all", "major", "minor", "patch"},
   failed : {{}} \cup {{f} : f \in Chains},
   tags : SUBSET (Versions \cup {Junk}), listed : BOOLEAN]

(* The kind of a failure is its cause. *)
LEMMA ClassifiedByCause ==
  ASSUME NEW f \in Chains
  PROVE  Classify(f).known = Cause(f) /\ Cause(f) # ""
<1>1. /\ f \in [known : STRING, status : {0} \cup 100 .. 599, badName : BOOLEAN, deadline : BOOLEAN,
                net : {"", "refused", "timeout"}]
      /\ f.status # 0 => ~f.badName /\ ~f.deadline /\ f.net = ""
  BY DEF Chains
<1>2. \A kind : Wrap(kind, f).known = IF f.known # "" THEN f.known ELSE kind
  BY <1>1 DEF Wrap
<1> DEFINE Auth == f.status \in {401, 403}
           Absent == f.status = 404
           Limited == f.status = 429
           Broken == f.status \in 500 .. 599
           Late == f.deadline \/ f.net = "timeout"
           Other == IF f.badName THEN "unsupported" ELSE IF Late THEN "timeout"
                    ELSE IF f.net = "refused" THEN "unreachable" ELSE "other"
<1>a. Cause(f) = IF f.known # "" THEN f.known ELSE IF Auth THEN "auth" ELSE IF Absent THEN "not_found"
                 ELSE IF Limited THEN "rate_limited" ELSE IF Broken THEN "server_error" ELSE Other
  BY DEF Cause
<1>b. f.status = 0 => ~Auth /\ ~Absent /\ ~Limited /\ ~Broken
  OBVIOUS
<1>3. CASE f.known # ""
  <2>1. Classify(f).known = f.known
    BY <1>2, <1>3 DEF Classify
  <2> HIDE DEF Auth, Absent, Limited, Broken, Late, Other
  <2> QED BY <1>3, <1>a, <2>1
<1>4. CASE f.known = "" /\ f.status # 0
  <2>1. Classify(f).known = FromHTTPStatus(f.status)
    BY <1>2, <1>4 DEF Classify
  <2>2. f.badName = FALSE /\ f.deadline = FALSE /\ f.net = ""
    BY <1>1, <1>4
  <2>3. Cause(f) = IF Auth THEN "auth" ELSE IF Absent THEN "not_found" ELSE IF Limited THEN "rate_limited"
                   ELSE IF Broken THEN "server_error" ELSE "other"
    <3>1. ~f.badName /\ ~Late /\ f.net # "refused" /\ ~(f.known # "")
      BY <1>4, <2>2
    <3> HIDE DEF Auth, Absent, Limited, Broken, Late
    <3>2. Other = "other"
      BY <3>1
    <3> HIDE DEF Other
    <3> QED BY <1>a, <3>1, <3>2
  <2>4. f.status >= 500 <=> Broken
    <3>1. f.status \in 100 .. 599
      BY <1>1, <1>4
    <3> QED BY <3>1
  <2>5. FromHTTPStatus(f.status) =
          IF Auth THEN "auth" ELSE IF Absent THEN "not_found" ELSE IF Limited THEN "rate_limited"
          ELSE IF f.status >= 500 THEN "server_error" ELSE "other"
    BY DEF FromHTTPStatus
  <2> HIDE DEF Auth, Absent, Limited, Broken
  <2>6. FromHTTPStatus(f.status) = Cause(f) /\ Cause(f) # ""
    BY <2>3, <2>4, <2>5
  <2> QED BY <2>1, <2>6
<1>c. f.known = "" /\ f.status = 0 => Cause(f) = Other
  <2> HIDE DEF Auth, Absent, Limited, Broken, Late, Other
  <2> QED BY <1>a, <1>b
<1>5. CASE f.known = "" /\ f.status = 0 /\ f.badName
  <2>1. Classify(f).known = "unsupported"
    BY <1>2, <1>5 DEF Classify
  <2>2. Cause(f) = "unsupported"
    BY <1>5, <1>c
  <2> QED BY <2>1, <2>2
<1>6. CASE f.known = "" /\ f.status = 0 /\ ~f.badName
  <2>1. Classify(f).known = Of(f)
    BY <1>2, <1>6 DEF Classify
  <2>a. Cause(f) = IF f.deadline \/ f.net = "timeout" THEN "timeout"
                   ELSE IF f.net = "refused" THEN "unreachable" ELSE "other"
    BY <1>6, <1>c
  <2>b. Of(f) = IF f.deadline \/ f.net = "timeout" THEN "timeout"
                ELSE IF f.net # "" THEN "unreachable" ELSE "other"
    BY <1>6 DEF Of
  <2>c. f.net # "" /\ f.net # "timeout" <=> f.net = "refused"
    BY <1>1
  <2>2. Of(f) = Cause(f) /\ Of(f) # ""
    BY ONLY <2>a, <2>b, <2>c
  <2> QED BY <2>1, <2>2
<1> QED BY <1>3, <1>4, <1>5, <1>6

LEMMA TellsVersions ==
  ASSUME TextsAreNoVersions
  PROVE  /\ \A d \in Versions \cup Constraints \cup {NoVersion, Junk} :
              (IsVersion(d) <=> d \in Versions) /\ (IsConstraint(d) <=> d \in Constraints)
         /\ Versions \cap Constraints = {}
<1>1. \A d \in Versions : DOMAIN d = {"core", "pre"}
  BY DEF Versions
<1>2. \A d \in Constraints : DOMAIN d = {"op", "low"}
  BY DEF Constraints
<1>3. Versions \cap Constraints = {}
  <2> SUFFICES ASSUME NEW d \in Versions, d \in Constraints PROVE FALSE
    OBVIOUS
  <2>1. "op" \in {"core", "pre"}
    BY <1>1, <1>2
  <2> QED BY <2>1
<1>4. ASSUME NEW d \in Versions \cup Constraints \cup {NoVersion, Junk}
      PROVE  (IsVersion(d) <=> d \in Versions) /\ (IsConstraint(d) <=> d \in Constraints)
  <2>1. CASE d \in Versions
    BY <1>1, <1>3, <2>1 DEF IsVersion, IsConstraint, TextsAreNoVersions
  <2>2. CASE d \in Constraints
    BY <1>2, <1>3, <2>2 DEF IsVersion, IsConstraint, TextsAreNoVersions
  <2>3. CASE d \in {NoVersion, Junk}
    BY <2>3 DEF IsVersion, IsConstraint, TextsAreNoVersions
  <2> QED BY <2>1, <2>2, <2>3
<1> QED BY <1>3, <1>4

(* The versions Helm may install for what is declared. *)
Installable(decl, tags) ==
  IF IsVersion(decl) THEN {decl}
  ELSE IF IsConstraint(decl) THEN {t \in tags : Stable(t) /\ Satisfies(t, decl)} ELSE {}

LEMMA CurrentIs ==
  ASSUME TextsAreNoVersions, NEW decl \in Versions \cup Constraints \cup {NoVersion, Junk},
         NEW tags \in SUBSET (Versions \cup {Junk}), IsFiniteSet(tags)
  PROVE  /\ ResolveCurrent(decl, tags) = NoVersion <=> Installable(decl, tags) = {}
         /\ Installable(decl, tags) # {} =>
              /\ ResolveCurrent(decl, tags) = Greatest(Installable(decl, tags))
              /\ ResolveCurrent(decl, tags) \in Versions
         /\ IsVersion(decl) => ResolveCurrent(decl, tags) = decl
<1>1. NoVersion \notin Versions
  BY DEF TextsAreNoVersions
<1>2. CASE IsVersion(decl)
  <2>1. ResolveCurrent(decl, tags) = decl /\ decl \in Versions /\ Installable(decl, tags) = {decl}
    BY <1>2, TellsVersions DEF ResolveCurrent, Installable
  <2>2. Greatest({decl}) \in {decl}
    <3>1. IsFiniteSet({decl}) /\ {decl} \subseteq Versions /\ {decl} # {}
      BY <2>1, FS_Singleton
    <3> QED BY <3>1, GreatestIs
  <2> QED BY <1>1, <2>1, <2>2
<1>3. CASE ~IsVersion(decl) /\ IsConstraint(decl)
  <2> DEFINE fits == Matches(decl, tags)
  <2>1. Installable(decl, tags) = fits
    BY <1>3 DEF Installable, Matches
  <2>2. fits \in SUBSET Versions /\ fits \in SUBSET tags
    BY TellsVersions DEF Matches, Stable
  <2>3. ResolveCurrent(decl, tags) = IF fits = {} THEN NoVersion ELSE Greatest(fits)
    BY <1>3 DEF ResolveCurrent
  <2> HIDE DEF fits
  <2>4. fits # {} => Greatest(fits) \in Versions
    BY <2>2, FS_Subset, GreatestIs
  <2> QED BY <1>1, <1>3, <2>1, <2>3, <2>4
<1>4. CASE ~IsVersion(decl) /\ ~IsConstraint(decl)
  BY <1>4 DEF ResolveCurrent, Installable
<1> QED BY <1>2, <1>3, <1>4

(* The offer: the greatest eligible version, or none if there is none. *)
Offers(current, tags, scope) == {t \in tags : Eligible(t, current, scope)}

LEMMA LatestIs ==
  ASSUME TextsAreNoVersions, NEW current \in Versions, NEW scope,
         NEW tags \in SUBSET (Versions \cup {Junk}), IsFiniteSet(tags)
  PROVE  /\ Offers(current, tags, scope) \in SUBSET Versions
         /\ Offers(current, tags, scope) = {} => LatestFromTags(current, tags, scope) = NoVersion
         /\ Offers(current, tags, scope) # {} =>
              /\ LatestFromTags(current, tags, scope) \in Offers(current, tags, scope)
              /\ \A t \in Offers(current, tags, scope) : NotBelow(LatestFromTags(current, tags, scope), t)
<1> DEFINE offers == Offers(current, tags, scope)
<1>1. offers \in SUBSET Versions /\ offers \in SUBSET tags
  BY TellsVersions DEF Offers, Eligible, Stable
<1>2. LatestFromTags(current, tags, scope) = IF offers = {} THEN NoVersion ELSE Greatest(offers)
  BY DEF LatestFromTags, Offers
<1> HIDE DEF offers
<1>3. offers # {} => Greatest(offers) \in offers /\ \A t \in offers : NotBelow(Greatest(offers), t)
  BY <1>1, FS_Subset, GreatestIs
<1> QED BY <1>1, <1>2, <1>3 DEF offers

(* The answer of the registry, case by case. *)
Answerable(q) == Asked(q) /\ q.failed = {} /\ (q.listed \/ q.proto = "oci") /\ Installable(q.decl, q.tags) # {}

LEMMA RequestHas ==
  ASSUME NEW q \in ChartRequests
  PROVE  /\ q.proto \in {"http", "https", "oci", "git"} /\ q.repo \in BOOLEAN /\ q.listed \in BOOLEAN
         /\ q.decl \in Versions \cup Constraints \cup {NoVersion, Junk}
         /\ q.scope \in {"all", "major", "minor", "patch"}
         /\ q.failed \in {{}} \cup {{f} : f \in Chains}
         /\ q.tags \in SUBSET (Versions \cup {Junk})
BY DEF ChartRequests

LEMMA LatestChartIs ==
  ASSUME TextsAreNoVersions, NEW q \in ChartRequests, IsFiniteSet(q.tags)
  PROVE  /\ Answerable(q) => /\ LatestChart(q).kind = ""
                             /\ LatestChart(q).latest =
                                  LatestFromTags(Greatest(Installable(q.decl, q.tags)), q.tags, q.scope)
         /\ ~Answerable(q) => LatestChart(q).kind # "" /\ LatestChart(q).latest = NoVersion
         /\ \A f \in q.failed : Asked(q) => LatestChart(q).kind = Cause(f)
<1> DEFINE current == ResolveCurrent(q.decl, q.tags)
           kinds == {Classify(f).known : f \in q.failed}
<1>1. \A kind : Refused(kind).kind = kind /\ Refused(kind).latest = NoVersion
  BY DEF Refused
<1>2. Asked(q) <=> q.repo /\ q.decl # NoVersion /\ q.proto \in {"http", "https", "oci"}
  BY RequestHas DEF Asked
<1>3. current = NoVersion <=> Installable(q.decl, q.tags) = {}
  BY RequestHas, CurrentIs
<1>4. Installable(q.decl, q.tags) # {} => current = Greatest(Installable(q.decl, q.tags))
  BY RequestHas, CurrentIs
<1> HIDE DEF current
<1>5. CASE ~Asked(q)
  <2>1. LatestChart(q) \in {Refused("unsupported"), Refused("invalid_version")}
    BY <1>2, <1>5 DEF LatestChart
  <2>2. /\ Refused("unsupported").kind = "unsupported" /\ Refused("unsupported").latest = NoVersion
        /\ Refused("invalid_version").kind = "invalid_version" /\ Refused("invalid_version").latest = NoVersion
    BY <1>1
  <2>3. LatestChart(q).kind # "" /\ LatestChart(q).latest = NoVersion
    BY ONLY <2>1, <2>2
  <2> QED BY <1>5, <2>3 DEF Answerable
<1>6. CASE Asked(q) /\ q.failed # {}
  <2>1. PICK f \in Chains : q.failed = {f}
    BY <1>6, RequestHas
  <2>2. kinds = {Cause(f)} /\ Cause(f) # ""
    BY <2>1, ClassifiedByCause
  <2>3. LatestChart(q) = Refused((CHOOSE k \in kinds : TRUE))
    BY <1>2, <1>6 DEF LatestChart
  <2> HIDE DEF kinds
  <2>4. LatestChart(q) = Refused(Cause(f))
    BY <2>2, <2>3
  <2>5. LatestChart(q).kind = Cause(f) /\ LatestChart(q).latest = NoVersion
    BY <1>1, <2>4
  <2>6. ~Answerable(q)
    BY <1>6 DEF Answerable
  <2> QED BY <2>1, <2>2, <2>5, <2>6
<1>7. CASE Asked(q) /\ q.failed = {} /\ ~(q.listed \/ q.proto = "oci")
  <2>1. LatestChart(q) = Refused("not_found")
    BY <1>2, <1>7 DEF LatestChart
  <2> QED BY <1>1, <1>7, <2>1 DEF Answerable
<1>8. CASE Asked(q) /\ q.failed = {} /\ (q.listed \/ q.proto = "oci")
  <2>1. LatestChart(q) = IF current = NoVersion THEN Refused("invalid_version")
                         ELSE [latest |-> LatestFromTags(current, q.tags, q.scope), kind |-> ""]
    BY <1>2, <1>8 DEF LatestChart, current
  <2>2. CASE current = NoVersion
    <3>1. ~Answerable(q)
      BY <1>3, <2>2 DEF Answerable
    <3> QED BY <1>1, <1>8, <2>1, <2>2, <3>1
  <2>3. CASE current # NoVersion
    <3>1. Answerable(q)
      BY <1>3, <1>8, <2>3 DEF Answerable
    <3>2. LatestChart(q).kind = "" /\ LatestChart(q).latest = LatestFromTags(current, q.tags, q.scope)
      <4> DEFINE offer == LatestFromTags(current, q.tags, q.scope)
      <4> HIDE DEF offer
      <4>1. LatestChart(q) = [latest |-> offer, kind |-> ""]
        BY <2>1, <2>3 DEF offer
      <4>2. [latest |-> offer, kind |-> ""].kind = "" /\ [latest |-> offer, kind |-> ""].latest = offer
        OBVIOUS
      <4> QED BY <4>1, <4>2 DEF offer
    <3> QED BY <1>3, <1>4, <1>8, <2>3, <3>1, <3>2
  <2> QED BY <2>2, <2>3
<1> QED BY <1>5, <1>6, <1>7, <1>8

(* The bump is one the scope admits. *)
LEMMA BumpAllowed ==
  ASSUME NEW v \in Versions, NEW w \in Versions, NEW scope \in {"all", "major", "minor", "patch"},
         Eligible(v, w, scope)
  PROVE  BumpOf(v, w) \in Allowed(scope) /\ BumpOf(v, w) # "unknown"
<1>1. scope = "patch" => BumpOf(v, w) = "patch"
  BY SameUpToIs DEF Eligible, BumpOf
<1>2. scope = "minor" => BumpOf(v, w) \in {"minor", "patch"}
  BY DEF Eligible, BumpOf
<1>3. BumpOf(v, w) \in {"major", "minor", "patch"}
  BY DEF BumpOf
<1> QED BY <1>1, <1>2, <1>3 DEF Allowed

(* What a version beats in a scope is beaten by all that beats the version there. *)
LEMMA EligibleTransitive ==
  ASSUME TextsAreNoVersions, NEW u \in Versions, NEW v \in Versions, NEW w \in Versions, NEW scope,
         Eligible(u, v, scope), Eligible(v, w, scope)
  PROVE  Eligible(u, w, scope)
<1>1. Stable(u) /\ GreaterThan(u, w)
  BY VersionsOrdered DEF Eligible
<1>2. scope = "patch" => SameUpTo(2, u, w)
  BY SameUpToIs DEF Eligible
<1>3. scope = "minor" => SameUpTo(1, u, w)
  BY SameUpToIs DEF Eligible
<1> QED BY <1>1, <1>2, <1>3 DEF Eligible

(* A wider scope leaves in what a narrower one does. *)
LEMMA EligibleWider ==
  ASSUME NEW v \in Versions, NEW w \in Versions, NEW scope \in {"all", "major", "minor", "patch"},
         NEW s \in {"minor", "all"}, scope = "patch" \/ s = "all", Eligible(v, w, scope)
  PROVE  Eligible(v, w, s)
<1>1. s = "minor" => SameUpTo(1, v, w)
  BY SameUpToIs DEF Eligible
<1> QED BY <1>1 DEF Eligible

LEMMA ChartSound ==
  ASSUME TextsAreNoVersions, NEW q \in ChartRequests, IsFiniteSet(q.tags)
  PROVE  ChartAnswerSound(q)
<1> DEFINE r == CheckChart(q)
           a == LatestChart(q)
           installable == Installable(q.decl, q.tags)
           installed == Greatest(installable)
           offers == Offers(installed, q.tags, q.scope)
<1>1. /\ r.latest = a.latest /\ r.error = a.kind
      /\ r.scope = ChartScope(q.decl, a.latest) /\ r.available = IsNewerChart(a.latest, q.decl)
  BY DEF CheckChart
<1>2. r.error = "" <=> Answerable(q)
  BY <1>1, LatestChartIs
<1>3. r.error # "" => ~r.available /\ r.latest = NoVersion
  BY <1>1, <1>2, LatestChartIs DEF IsNewerChart
<1>4. \A f \in q.failed : Asked(q) => r.error = Cause(f)
  BY <1>1, LatestChartIs
<1>5. ASSUME Answerable(q)
      PROVE  /\ r.available <=> \E t \in q.tags : Eligible(t, installed, q.scope)
             /\ r.available =>
                  /\ Eligible(r.latest, installed, q.scope)
                  /\ \A t \in q.tags : Eligible(t, installed, q.scope) => NotBelow(r.latest, t)
                  /\ r.scope \in Allowed(q.scope)
                  /\ r.scope = "unknown" <=> IsConstraint(q.decl)
                  /\ ~CheckChart([q EXCEPT !.decl = r.latest]).available
                  /\ \A s \in {"minor", "all"} : q.scope = "patch" \/ s = "all" =>
                        NotBelow(CheckChart([q EXCEPT !.scope = s]).latest, r.latest)
  <2>1. a.latest = LatestFromTags(installed, q.tags, q.scope)
    BY <1>5, LatestChartIs
  <2>2. installed = ResolveCurrent(q.decl, q.tags) /\ installed \in Versions
    <3>1. installable # {}
      BY <1>5 DEF Answerable
    <3> QED BY <3>1, RequestHas, CurrentIs
  <2>3. IsVersion(q.decl) => installed = q.decl
    BY <2>2, RequestHas, CurrentIs
  <2>4. (IsVersion(q.decl) <=> q.decl \in Versions) /\ (IsConstraint(q.decl) <=> q.decl \in Constraints)
        /\ Versions \cap Constraints = {} /\ NoVersion \notin Versions
    BY RequestHas, TellsVersions DEF TextsAreNoVersions
  <2>5. ~IsVersion(q.decl) <=> IsConstraint(q.decl)
    <3>1. IsVersion(q.decl) \/ IsConstraint(q.decl)
      BY <1>5 DEF Answerable, Installable
    <3> QED BY <2>4, <3>1
  <2> HIDE DEF r, a, installed, installable
  <2>6. \A t : t \in offers <=> t \in q.tags /\ Eligible(t, installed, q.scope)
    BY DEF Offers
  <2>7. /\ offers \in SUBSET Versions
        /\ offers = {} => a.latest = NoVersion
        /\ offers # {} => a.latest \in offers /\ \A t \in offers : NotBelow(a.latest, t)
    BY <2>1, <2>2, RequestHas, LatestIs
  <2> HIDE DEF offers
  <2>8. r.available <=> offers # {}
    <3>1. CASE offers = {}
      BY <1>1, <2>7, <3>1 DEF IsNewerChart
    <3>2. CASE offers # {} /\ IsVersion(q.decl)
      <4>1. a.latest \in Versions /\ Eligible(a.latest, q.decl, q.scope)
        BY <2>3, <2>6, <2>7, <3>2
      <4>2. GreaterThan(a.latest, q.decl) /\ a.latest # NoVersion
        BY <2>4, <4>1 DEF Eligible
      <4> QED BY <1>1, <3>2, <4>2 DEF IsNewerChart
    <3>3. CASE offers # {} /\ ~IsVersion(q.decl)
      <4>1. a.latest # q.decl /\ a.latest # NoVersion
        BY <2>4, <2>7, <3>3, <2>5
      <4> QED BY <1>1, <3>3, <4>1 DEF IsNewerChart
    <3> QED BY <3>1, <3>2, <3>3
  <2>9. ASSUME r.available
        PROVE  /\ r.latest \in Versions /\ r.latest \in q.tags
               /\ Eligible(r.latest, installed, q.scope)
               /\ \A t \in q.tags : Eligible(t, installed, q.scope) => NotBelow(r.latest, t)
    BY <1>1, <2>6, <2>7, <2>8, <2>9
  <2>10. ASSUME r.available
         PROVE  r.scope \in Allowed(q.scope) /\ (r.scope = "unknown" <=> IsConstraint(q.decl))
    <3>1. r.scope = ChartScope(q.decl, r.latest)
      BY <1>1
    <3>2. CASE IsVersion(q.decl)
      <4>1. GreaterThan(r.latest, q.decl) /\ r.latest # q.decl /\ r.latest # NoVersion
        BY <2>3, <2>4, <2>9, <2>10, <3>2, VersionsOrdered DEF Eligible
      <4>2. r.scope = BumpOf(r.latest, q.decl)
        BY <3>1, <3>2, <4>1 DEF ChartScope
      <4>3. BumpOf(r.latest, q.decl) \in Allowed(q.scope) /\ BumpOf(r.latest, q.decl) # "unknown"
        BY <2>2, <2>3, <2>9, <2>10, <3>2, RequestHas, BumpAllowed
      <4> QED BY <2>5, <3>2, <4>2, <4>3
    <3>3. CASE ~IsVersion(q.decl)
      <4>1. r.latest # q.decl /\ r.latest # NoVersion
        BY <2>4, <2>5, <2>9, <2>10, <3>3
      <4>2. r.scope = "unknown"
        BY <3>1, <3>3, <4>1 DEF ChartScope
      <4>3. "unknown" \in Allowed(q.scope)
        BY RequestHas DEF Allowed
      <4> QED BY <2>5, <3>3, <4>2, <4>3
    <3> QED BY <3>2, <3>3
  <2>11. ASSUME r.available
         PROVE  ~CheckChart([q EXCEPT !.decl = r.latest]).available
    <3> DEFINE taken == [q EXCEPT !.decl = r.latest]
               next == LatestChart(taken).latest
    <3>1. /\ taken \in ChartRequests /\ taken.decl = r.latest /\ taken.tags = q.tags
          /\ taken.scope = q.scope
      BY <2>9, <2>11 DEF ChartRequests
    <3> HIDE DEF taken
    <3>2. IsVersion(r.latest)
      BY <2>9, <2>11, TellsVersions
    <3>3. CheckChart(taken).available <=> next # NoVersion /\ GreaterThan(next, r.latest)
      BY <3>1, <3>2 DEF CheckChart, IsNewerChart
    <3>4. SUFFICES ASSUME next # NoVersion, GreaterThan(next, r.latest) PROVE FALSE
      BY <3>3 DEF taken
    <3>5. Answerable(taken)
      BY <3>1, <3>4, LatestChartIs
    <3>6. Installable(r.latest, q.tags) = {r.latest}
      BY <3>2 DEF Installable
    <3>7. Greatest({r.latest}) = r.latest
      <4>1. {r.latest} \in SUBSET Versions /\ {r.latest} # {} /\ IsFiniteSet({r.latest})
        BY <2>9, <2>11, FS_Singleton
      <4>2. Greatest({r.latest}) \in {r.latest}
        BY <4>1, GreatestIs
      <4> QED BY <4>2
    <3>8. next = LatestFromTags(r.latest, q.tags, q.scope)
      BY <3>1, <3>5, <3>6, <3>7, LatestChartIs
    <3> HIDE DEF next
    <3>9. next \in Offers(r.latest, q.tags, q.scope) /\ next \in Versions
      BY <2>9, <2>11, <3>4, <3>8, RequestHas, LatestIs
    <3>10. next \in q.tags /\ Eligible(next, r.latest, q.scope)
      BY <3>9 DEF Offers
    <3>11. Eligible(next, installed, q.scope)
      BY <2>2, <2>9, <2>11, <3>9, <3>10, EligibleTransitive
    <3>12. NotBelow(r.latest, next)
      BY <2>9, <2>11, <3>10, <3>11
    <3> QED BY <3>4, <3>12 DEF NotBelow
  <2>12. ASSUME r.available, NEW s \in {"minor", "all"}, q.scope = "patch" \/ s = "all"
         PROVE  NotBelow(CheckChart([q EXCEPT !.scope = s]).latest, r.latest)
    <3> DEFINE wider == [q EXCEPT !.scope = s]
    <3>1. /\ wider \in ChartRequests /\ wider.decl = q.decl /\ wider.tags = q.tags
          /\ wider.scope = s /\ (Asked(wider) <=> Asked(q)) /\ wider.failed = q.failed
          /\ wider.listed = q.listed /\ wider.proto = q.proto
      BY DEF ChartRequests, Asked
    <3> HIDE DEF wider
    <3>2. Answerable(wider)
      BY <1>5, <3>1 DEF Answerable
    <3>3. CheckChart(wider).latest = LatestFromTags(installed, q.tags, s)
      <4>1. LatestChart(wider).latest = LatestFromTags(installed, q.tags, s)
        BY <3>1, <3>2, LatestChartIs DEF installed, installable
      <4> QED BY <4>1 DEF CheckChart
    <3>4. Eligible(r.latest, installed, s)
      BY <2>2, <2>9, <2>12, RequestHas, EligibleWider
    <3>5. r.latest \in Offers(installed, q.tags, s)
      BY <2>9, <2>12, <3>4 DEF Offers
    <3>6. NotBelow(LatestFromTags(installed, q.tags, s), r.latest)
      BY <2>2, <3>5, RequestHas, LatestIs
    <3> QED BY <3>3, <3>6 DEF wider
  <2>13. (\E t \in q.tags : Eligible(t, installed, q.scope)) <=> offers # {}
    BY <2>6
  <2> QED BY <2>8, <2>9, <2>10, <2>11, <2>12, <2>13
<1>6. installable = IF IsVersion(q.decl) THEN {q.decl}
                    ELSE IF IsConstraint(q.decl) THEN {t \in q.tags : Stable(t) /\ Satisfies(t, q.decl)}
                    ELSE {}
  BY DEF Installable
<1>7. Answerable(q) <=> Asked(q) /\ q.failed = {} /\ (q.listed \/ q.proto = "oci") /\ installable # {}
  BY DEF Answerable
<1> HIDE DEF installable, r
<1>8. r.error = "" <=> Asked(q) /\ q.failed = {} /\ (q.listed \/ q.proto = "oci") /\ installable # {}
  BY <1>2, <1>7
<1>9. r.error = "" => Answerable(q)
  BY <1>2
<1> QED BY <1>3, <1>4, <1>5, <1>6, <1>8, <1>9 DEF ChartAnswerSound, r

(* Whatever chart is asked about, of whatever versions, and whatever the      *)
(* registry lists or fails with: the answer is sound (charts.go:94,           *)
(* scope.go:14, errkind.go:56).                                               *)
THEOREM ChartAnswersSound ==
  ASSUME TextsAreNoVersions, chart # NoChart => chart \in ChartRequests /\ IsFiniteSet(chart.tags)
  PROVE  EveryChartAnswerSound
BY ChartSound DEF EveryChartAnswerSound

----------------------------------------------------------------------------
(***************************************************************************)
(* Images: versions as sequences of numbers, padded with zeros.            *)
(***************************************************************************)
Places == Nat \ {0}

LEMMA GroupIs ==
  ASSUME NEW a \in Seq(Nat), NEW i \in Places
  PROVE  /\ Group(a, i) \in Nat
         /\ i \in 1 .. Len(a) => Group(a, i) = a[i]
         /\ i \notin 1 .. Len(a) => Group(a, i) = 0
<1>1. DOMAIN a = 1 .. Len(a) /\ \A n \in 1 .. Len(a) : a[n] \in Nat
  OBVIOUS
<1> QED BY <1>1 DEF Group, Places

SameVersion(a, b) == \A i \in Places : Group(a, i) = Group(b, i)

LEMMA CoreGreaterIs ==
  ASSUME NEW a \in Seq(Nat), NEW b \in Seq(Nat)
  PROVE  CoreGreater(a, b) <=> \E i \in Places : /\ Group(a, i) > Group(b, i)
                                                 /\ \A j \in 1 .. (i - 1) : Group(a, j) = Group(b, j)
<1>1. \A i \in 1 .. Len(a) : i \in Places
  BY DEF Places
<1>2. ASSUME NEW i \in Places, Group(a, i) > Group(b, i)
      PROVE  i \in 1 .. Len(a)
  BY <1>2, GroupIs
<1> QED BY <1>1, <1>2 DEF CoreGreater

LEMMA CoreOrder ==
  ASSUME NEW a \in Seq(Nat), NEW b \in Seq(Nat)
  PROVE  /\ CoreGreater(a, b) \/ CoreGreater(b, a) \/ SameVersion(a, b)
         /\ ~(CoreGreater(a, b) /\ CoreGreater(b, a))
         /\ ~(CoreGreater(a, b) /\ SameVersion(a, b))
<1>0. \A i \in Places : Group(a, i) \in Nat /\ Group(b, i) \in Nat
  BY GroupIs
<1>1. CoreGreater(a, b) \/ CoreGreater(b, a) \/ SameVersion(a, b)
  <2> DEFINE differ == {i \in Places : Group(a, i) # Group(b, i)}
  <2>1. CASE differ = {}
    BY <2>1 DEF SameVersion
  <2>2. CASE differ # {}
    <3>1. differ \in SUBSET Nat
      BY DEF Places
    <3>2. PICK i \in differ : \A n \in differ : i <= n
      <4> HIDE DEF differ
      <4> QED BY <2>2, <3>1, LeastNumber
    <3>3. \A j \in 1 .. (i - 1) : j \in Places /\ j < i
      BY <3>1 DEF Places
    <3>4. \A j \in 1 .. (i - 1) : Group(a, j) = Group(b, j)
      BY <3>2, <3>3 DEF Places
    <3>5. Group(a, i) > Group(b, i) \/ Group(b, i) > Group(a, i)
      BY <1>0
    <3> QED BY <3>4, <3>5, CoreGreaterIs
  <2> QED BY <2>1, <2>2
<1>2. ~(CoreGreater(a, b) /\ CoreGreater(b, a))
  <2> SUFFICES ASSUME CoreGreater(a, b), CoreGreater(b, a) PROVE FALSE
    OBVIOUS
  <2>1. PICK i \in Places : Group(a, i) > Group(b, i) /\ \A j \in 1 .. (i - 1) : Group(a, j) = Group(b, j)
    BY CoreGreaterIs
  <2>2. PICK k \in Places : Group(b, k) > Group(a, k) /\ \A j \in 1 .. (k - 1) : Group(b, j) = Group(a, j)
    BY CoreGreaterIs
  <2>3. i \in 1 .. (k - 1) \/ k \in 1 .. (i - 1) \/ i = k
    BY DEF Places
  <2> QED BY <1>0, <2>1, <2>2, <2>3
<1>3. ~(CoreGreater(a, b) /\ SameVersion(a, b))
  BY <1>0, CoreGreaterIs DEF SameVersion
<1> QED BY <1>1, <1>2, <1>3

LEMMA CoreTransitive ==
  ASSUME NEW a \in Seq(Nat), NEW b \in Seq(Nat), NEW c \in Seq(Nat)
  PROVE  /\ CoreGreater(a, b) /\ CoreGreater(b, c) => CoreGreater(a, c)
         /\ CoreGreater(a, b) /\ SameVersion(b, c) => CoreGreater(a, c)
         /\ SameVersion(a, b) /\ CoreGreater(b, c) => CoreGreater(a, c)
         /\ SameVersion(a, b) /\ SameVersion(b, c) => SameVersion(a, c)
<1>0. \A i \in Places : Group(a, i) \in Nat /\ Group(b, i) \in Nat /\ Group(c, i) \in Nat
  BY GroupIs
<1>1. ASSUME CoreGreater(a, b), CoreGreater(b, c) PROVE CoreGreater(a, c)
  <2>1. PICK i \in Places : Group(a, i) > Group(b, i) /\ \A j \in 1 .. (i - 1) : Group(a, j) = Group(b, j)
    BY <1>1, CoreGreaterIs
  <2>2. PICK k \in Places : Group(b, k) > Group(c, k) /\ \A j \in 1 .. (k - 1) : Group(b, j) = Group(c, j)
    BY <1>1, CoreGreaterIs
  <2>3. CASE i < k
    <3>1. i \in 1 .. (k - 1) /\ \A j \in 1 .. (i - 1) : j \in 1 .. (k - 1)
      BY <2>3 DEF Places
    <3>2. Group(a, i) > Group(c, i) /\ \A j \in 1 .. (i - 1) : Group(a, j) = Group(c, j)
      BY <2>1, <2>2, <3>1
    <3> QED BY <3>2, CoreGreaterIs
  <2>4. CASE k < i
    <3>1. k \in 1 .. (i - 1) /\ \A j \in 1 .. (k - 1) : j \in 1 .. (i - 1)
      BY <2>4 DEF Places
    <3>2. Group(a, k) > Group(c, k) /\ \A j \in 1 .. (k - 1) : Group(a, j) = Group(c, j)
      BY <2>1, <2>2, <3>1
    <3> QED BY <3>2, CoreGreaterIs
  <2>5. CASE i = k
    <3>1. Group(a, i) > Group(c, i)
      BY <1>0, <2>1, <2>2, <2>5
    <3>2. \A j \in 1 .. (i - 1) : Group(a, j) = Group(c, j)
      BY <2>1, <2>2, <2>5
    <3> QED BY <3>1, <3>2, CoreGreaterIs
  <2> QED BY <2>3, <2>4, <2>5 DEF Places
<1>a. \A i \in Places : \A j \in 1 .. (i - 1) : j \in Places
  BY DEF Places
<1>2. ASSUME CoreGreater(a, b), SameVersion(b, c) PROVE CoreGreater(a, c)
  BY <1>2, <1>a, CoreGreaterIs DEF SameVersion
<1>3. ASSUME SameVersion(a, b), CoreGreater(b, c) PROVE CoreGreater(a, c)
  BY <1>3, <1>a, CoreGreaterIs DEF SameVersion
<1>4. ASSUME SameVersion(a, b), SameVersion(b, c) PROVE SameVersion(a, c)
  BY <1>4 DEF SameVersion
<1> QED BY <1>1, <1>2, <1>3, <1>4

LEMMA ShapeHas ==
  ASSUME NEW t \in Shapes
  PROVE  /\ t.core \in Seq(Numbers) /\ t.core \in Seq(Nat) /\ Len(t.core) \in Nat
         /\ t.pre \in Seq(Int) /\ t.post \in Seq(Int)
         /\ t = [kind |-> t.kind, pre |-> t.pre, core |-> t.core, post |-> t.post]
<1>1. t.core \in Seq(Numbers) /\ t.pre \in Seq(Int) /\ t.post \in Seq(Int)
      /\ t = [kind |-> t.kind, pre |-> t.pre, core |-> t.core, post |-> t.post]
  BY DEF Shapes
<1>2. t.core \in Seq(Nat)
  <2>1. Numbers \in SUBSET Nat
    BY DEF Numbers
  <2> QED BY <1>1, <2>1
<1> QED BY <1>1, <1>2

LEMMA RanksBeforeIs ==
  ASSUME NEW t \in Shapes, NEW u \in Shapes
  PROVE  RanksBefore(t, u) <=>
           CoreGreater(t.core, u.core) \/ (SameVersion(t.core, u.core) /\ Len(t.core) > Len(u.core))
<1>1. t.core \in Seq(Nat) /\ u.core \in Seq(Nat)
  BY ShapeHas
<1>2. SameVersion(t.core, u.core) <=> SameVersion(u.core, t.core)
  BY DEF SameVersion
<1>3. ~(SameVersion(t.core, u.core) /\ CoreGreater(u.core, t.core))
  BY <1>1, <1>2, CoreOrder
<1>4. CoreGreater(t.core, u.core) \/ CoreGreater(u.core, t.core) \/ SameVersion(t.core, u.core)
  BY <1>1, CoreOrder
<1>5. RanksBefore(t, u) <=>
        CoreGreater(t.core, u.core) \/ (~CoreGreater(u.core, t.core) /\ Len(t.core) > Len(u.core))
  <2>1. Len(t.core) \in Nat /\ Len(u.core) \in Nat
    BY ShapeHas
  <2> QED BY <2>1 DEF RanksBefore
<1> QED BY Zenon, <1>3, <1>4, <1>5

LEMMA RanksOrder ==
  /\ \A t \in Shapes : ~RanksBefore(t, t)
  /\ \A t, u \in Shapes : ~(RanksBefore(t, u) /\ RanksBefore(u, t))
  /\ \A t, u, v \in Shapes : RanksBefore(t, u) /\ RanksBefore(u, v) => RanksBefore(t, v)
  /\ \A t, u \in Shapes : t # u /\ t.kind = u.kind /\ t.pre = u.pre /\ t.post = u.post =>
       RanksBefore(t, u) \/ RanksBefore(u, t)
<1>1. ASSUME NEW t \in Shapes, NEW u \in Shapes PROVE ~(RanksBefore(t, u) /\ RanksBefore(u, t))
  <2>1. t.core \in Seq(Nat) /\ u.core \in Seq(Nat) /\ Len(t.core) \in Nat /\ Len(u.core) \in Nat
    BY ShapeHas
  <2>2. SameVersion(t.core, u.core) <=> SameVersion(u.core, t.core)
    BY DEF SameVersion
  <2>3. ~(Len(t.core) > Len(u.core) /\ Len(u.core) > Len(t.core))
    BY <2>1
  <2> QED BY <2>1, <2>2, <2>3, RanksBeforeIs, CoreOrder
<1>2. ASSUME NEW t \in Shapes, NEW u \in Shapes, NEW v \in Shapes, RanksBefore(t, u), RanksBefore(u, v)
      PROVE  RanksBefore(t, v)
  <2>1. /\ t.core \in Seq(Nat) /\ u.core \in Seq(Nat) /\ v.core \in Seq(Nat)
        /\ Len(t.core) \in Nat /\ Len(u.core) \in Nat /\ Len(v.core) \in Nat
    BY ShapeHas
  <2>2. Len(t.core) > Len(u.core) /\ Len(u.core) > Len(v.core) => Len(t.core) > Len(v.core)
    BY <2>1
  <2>3. CoreGreater(t.core, u.core) \/ (SameVersion(t.core, u.core) /\ Len(t.core) > Len(u.core))
    BY <1>2, RanksBeforeIs
  <2>4. CoreGreater(u.core, v.core) \/ (SameVersion(u.core, v.core) /\ Len(u.core) > Len(v.core))
    BY <1>2, RanksBeforeIs
  <2>5. CoreGreater(t.core, v.core) \/ (SameVersion(t.core, v.core) /\ Len(t.core) > Len(v.core))
    BY <2>1, <2>2, <2>3, <2>4, CoreTransitive
  <2> QED BY <2>5, RanksBeforeIs
<1>3. ASSUME NEW t \in Shapes, NEW u \in Shapes, t # u, t.kind = u.kind, t.pre = u.pre, t.post = u.post
      PROVE  RanksBefore(t, u) \/ RanksBefore(u, t)
  <2>1. t.core \in Seq(Nat) /\ u.core \in Seq(Nat) /\ Len(t.core) \in Nat /\ Len(u.core) \in Nat
    BY ShapeHas
  <2>2. t.core # u.core
    BY <1>3, ShapeHas
  <2>3. SameVersion(t.core, u.core) => Len(t.core) # Len(u.core)
    <3> SUFFICES ASSUME SameVersion(t.core, u.core), Len(t.core) = Len(u.core) PROVE FALSE
      OBVIOUS
    <3>1. \A i \in 1 .. Len(t.core) : t.core[i] = u.core[i]
      <4> SUFFICES ASSUME NEW i \in 1 .. Len(t.core) PROVE t.core[i] = u.core[i]
        OBVIOUS
      <4>1. i \in Places /\ i \in 1 .. Len(u.core)
        BY DEF Places
      <4>2. Group(t.core, i) = t.core[i] /\ Group(u.core, i) = u.core[i]
        BY <2>1, <4>1, GroupIs
      <4> QED BY <4>1, <4>2 DEF SameVersion
    <3> QED BY <2>1, <2>2, <3>1
  <2>4. SameVersion(t.core, u.core) <=> SameVersion(u.core, t.core)
    BY DEF SameVersion
  <2>5. Len(t.core) # Len(u.core) => Len(t.core) > Len(u.core) \/ Len(u.core) > Len(t.core)
    BY <2>1
  <2>6. CoreGreater(t.core, u.core) \/ CoreGreater(u.core, t.core) \/ SameVersion(t.core, u.core)
    BY <2>1, CoreOrder
  <2>7. RanksBefore(t, u) <=>
          CoreGreater(t.core, u.core) \/ (SameVersion(t.core, u.core) /\ Len(t.core) > Len(u.core))
    BY RanksBeforeIs
  <2>8. RanksBefore(u, t) <=>
          CoreGreater(u.core, t.core) \/ (SameVersion(u.core, t.core) /\ Len(u.core) > Len(t.core))
    BY RanksBeforeIs
  <2>9. Len(t.core) \in Nat /\ Len(u.core) \in Nat
    BY ShapeHas
  <2> QED BY ONLY <2>3, <2>4, <2>5, <2>6, <2>7, <2>8, <2>9
<1>4. \A t \in Shapes : ~RanksBefore(t, t)
  BY <1>1
<1> QED BY <1>1, <1>2, <1>3, <1>4

(* The candidate that is verified first ranks before all others. *)
LEMMA FirstIs ==
  ASSUME NEW S \in SUBSET Shapes, IsFiniteSet(S), S # {},
         \A t, u \in S : t.kind = u.kind /\ t.pre = u.pre /\ t.post = u.post
  PROVE  First(S) \in S /\ \A u \in S \ {First(S)} : RanksBefore(First(S), u)
<1> DEFINE After == {p \in S \X S : RanksBefore(p[1], p[2])}
<1>1. \A a, b \in S : <<a, b>> \in After <=> RanksBefore(a, b)
  OBVIOUS
<1>2. /\ \A a \in S : <<a, a>> \notin After
      /\ \A a, b, c \in S : <<a, b>> \in After /\ <<b, c>> \in After => <<a, c>> \in After
  <2> HIDE DEF After
  <2> QED BY <1>1, RanksOrder
<1> HIDE DEF After
<1>3. PICK m \in S : \A a \in S : <<a, m>> \notin After
  BY <1>2, MaximumExists
<1>4. \A a \in S \ {m} : RanksBefore(m, a)
  BY <1>1, <1>3, RanksOrder
<1> QED BY <1>4 DEF First

----------------------------------------------------------------------------
(* A lookup offers the greatest candidate that was not rejected.           *)
Rest == Candidates \ skipped

(* Nothing is rejected before the verification, nothing offered before the end. *)
Fresh ==
  /\ stage \notin {"verify", "done"} => skipped = {}
  /\ stage # "done" => latest = NoTag

Chosen ==
  Compared => IF latest = NoTag THEN Rest = {} \/ "stopped" \in note
              ELSE latest \in Rest /\ \A u \in Rest \ {latest} : RanksBefore(latest, u)

ImageInv == ImageTypeOK /\ IsFiniteSet(reg) /\ Fresh /\ Chosen

LEMMA ImageHas ==
  ASSUME ImageTypeOK, IsFiniteSet(reg)
  PROVE  /\ reg \in SUBSET Shapes /\ base \in Shapes /\ NoTag \notin Tags /\ NoTag \notin reg
         /\ Rest \in SUBSET seen /\ Rest \in SUBSET Shapes /\ IsFiniteSet(Rest)
         /\ \A t \in Rest : t.kind = base.kind /\ t.pre = base.pre /\ t.post = base.post
         /\ Rest # {} => First(Rest) \in Rest /\ \A u \in Rest \ {First(Rest)} : RanksBefore(First(Rest), u)
<1>1. reg \in SUBSET Shapes /\ base \in Shapes /\ NoTag \notin Tags /\ NoTag \notin reg
  BY TagsAssumption DEF ImageTypeOK
<1>2. Rest \in SUBSET seen /\ seen \in SUBSET reg
  BY DEF Rest, Candidates, RankedCandidates, ImageTypeOK
<1>3. Rest \in SUBSET Shapes /\ IsFiniteSet(Rest)
  BY <1>1, <1>2, FS_Subset
<1>4. \A t \in Rest : t.kind = base.kind /\ t.pre = base.pre /\ t.post = base.post
  BY DEF Rest, Candidates, RankedCandidates, Outranks, ComparableShapes
<1>5. Rest # {} => First(Rest) \in Rest /\ \A u \in Rest \ {First(Rest)} : RanksBefore(First(Rest), u)
  BY <1>3, <1>4, FirstIs
<1> QED BY <1>1, <1>2, <1>3, <1>4, <1>5

LEMMA PageHas ==
  ASSUME IsFiniteSet(reg), NEW from
  PROVE  /\ TagsPage(from).tags \in SUBSET reg
         /\ IsFiniteSet(TagsPage(from).tags) /\ Cardinality(TagsPage(from).tags) \in Nat
<1>1. TagsPage(from).tags \in SUBSET reg
  BY DEF TagsPage, FirstTags
<1> QED BY <1>1, FS_Subset, FS_CardinalityType

(* What a page of a walk leaves. *)
PageGoesOn(answered) ==
  /\ Cardinality(answered.tags) <= PageSize /\ answered.cursor
  /\ page' = page + 1
  /\ after' = Spell(LastOf(answered.tags))
  /\ UNCHANGED <<anchors, exhaustive, stage>>

PageEnds(answered) ==
  \/ Cardinality(answered.tags) > PageSize /\ WalkEnds(TRUE)
  \/ /\ Cardinality(answered.tags) <= PageSize /\ ~answered.cursor
     /\ WalkEnds(Cardinality(answered.tags) < PageSize)
  \/ WalkEnds(FALSE)

LEMMA PageIs ==
  ASSUME IsFiniteSet(reg), Page
  PROVE  /\ stage = "walk" /\ MayAsk /\ budget' = budget - 1
         /\ seen' = seen \cup TagsPage(after).tags
         /\ PageEnds(TagsPage(after)) \/ PageGoesOn(TagsPage(after))
         /\ UNCHANGED <<input, base, resolved, failed, skipped, answer>>
<1> DEFINE answered == TagsPage(after)
           n == Cardinality(answered.tags)
<1>0. n \in Nat /\ PageSize \in Nat
  BY PageHas, LimitsAssumption
<1>1. /\ stage = "walk" /\ MayAsk /\ budget' = budget - 1
      /\ seen' = seen \cup answered.tags
      /\ UNCHANGED <<input, base, resolved, failed, skipped, answer>>
  BY DEF Page
<1>2. (CASE n > PageSize -> WalkEnds(TRUE)
         [] n <= PageSize /\ ~answered.cursor -> WalkEnds(n < PageSize)
         [] n <= PageSize /\ answered.cursor /\ ~SameFamily(answered.tags, Head(anchors)) -> WalkEnds(FALSE)
         [] OTHER -> /\ page' = page + 1
                     /\ after' = Spell(LastOf(answered.tags))
                     /\ UNCHANGED <<anchors, exhaustive, stage>>)
  BY DEF Page
<1> HIDE DEF answered
<1>3. CASE n > PageSize
  <2>1. ~(n <= PageSize)
    BY <1>0, <1>3
  <2>2. WalkEnds(TRUE)
    BY <1>2, <1>3, <2>1
  <2> QED BY <1>1, <1>3, <2>2 DEF PageEnds, answered
<1>4. CASE n <= PageSize /\ ~answered.cursor
  <2>1. ~(n > PageSize)
    BY <1>0, <1>4
  <2>2. WalkEnds(n < PageSize)
    BY <1>2, <1>4, <2>1
  <2> QED BY <1>1, <1>4, <2>2 DEF PageEnds, answered
<1>5. CASE n <= PageSize /\ answered.cursor /\ ~SameFamily(answered.tags, Head(anchors))
  <2>1. ~(n > PageSize)
    BY <1>0, <1>5
  <2>2. WalkEnds(FALSE)
    BY <1>2, <1>5, <2>1
  <2> QED BY <1>1, <1>5, <2>2 DEF PageEnds, answered
<1>6. CASE n <= PageSize /\ answered.cursor /\ SameFamily(answered.tags, Head(anchors))
  <2>1. ~(n > PageSize)
    BY <1>0, <1>6
  <2>2. page' = page + 1 /\ after' = Spell(LastOf(answered.tags)) /\ UNCHANGED <<anchors, exhaustive, stage>>
    BY <1>2, <1>6, <2>1
  <2>3. PageGoesOn(answered)
    BY <1>6, <2>2 DEF PageGoesOn
  <2> QED BY <1>1, <2>3 DEF answered
<1>7. n > PageSize \/ n <= PageSize
  BY <1>0
<1> QED BY <1>3, <1>4, <1>5, <1>6, <1>7

LEMMA ImageInitInv == ASSUME ImageInit PROVE ImageInv
<1>1. reg \in SUBSET Tags /\ IsFiniteSet(reg)
  BY DEF ImageInit
<1>2. ImageTypeOK
  <2>1. MaxPages \in Nat /\ PageBudget \in Nat /\ 0 \in 0 .. MaxPages /\ PageBudget \in 0 .. PageBudget
    BY LimitsAssumption
  <2>2. stage \in {"list", "resolve"}
    BY DEF ImageInit
  <2> QED BY <2>1, <2>2, <1>1 DEF ImageInit, ImageTypeOK
<1>3. stage \in {"list", "resolve"} /\ skipped = {} /\ latest = NoTag
  BY DEF ImageInit
<1>4. Fresh /\ Chosen
  BY <1>3 DEF Fresh, Chosen, Compared
<1> QED BY <1>1, <1>2, <1>4 DEF ImageInv

LEMMA ImageStepInv == ASSUME ImageInv, [ImageNext]_imageVars PROVE ImageInv'
<1> USE DEF ImageInv
<1>0. /\ ImageTypeOK /\ IsFiniteSet(reg) /\ Fresh /\ Chosen
      /\ MaxPages \in Nat /\ PageBudget \in Nat
      /\ req \in Requests /\ req.tag \in {r.tag : r \in Requests}
  BY LimitsAssumption DEF ImageTypeOK
<1>1. ASSUME Fail, stage # "walk" PROVE ImageInv'
  <2>1. ImageTypeOK' /\ IsFiniteSet(reg)'
    BY <1>0, <1>1 DEF Fail, ImageTypeOK, input, window
  <2>2. Fresh' /\ Chosen'
    BY <1>1 DEF Fail, Fresh, Chosen, Compared
  <2> QED BY <2>1, <2>2
<1>2. ASSUME NEW tag \in reg \cup {NoTag}, NEW caveat, stage = "resolve", Resolved(tag, caveat) PROVE ImageInv'
  <2>1. stage' \in {"digest", "list", "dates"}
    BY <1>2 DEF Resolved, Compare
  <2>2. base' \in Tags \cup {r.tag : r \in Requests} /\ resolved' \in Tags \cup {NoTag}
    BY <1>0, <1>2 DEF Resolved, ImageTypeOK
  <2>3. UNCHANGED <<input, window, skipped, latest, err>>
    BY <1>2 DEF Resolved
  <2>4. ImageTypeOK' /\ IsFiniteSet(reg)'
    BY <1>0, <1>2, <2>1, <2>2, <2>3 DEF ImageTypeOK, input, window
  <2>5. Fresh' /\ Chosen'
    BY <1>0, <1>2, <2>1, <2>3 DEF Fresh, Chosen, Compared
  <2> QED BY <2>4, <2>5
<1>3. ASSUME ResolveMeta PROVE ImageInv'
  <2>1. stage = "resolve"
    BY <1>3 DEF ResolveMeta
  <2>2. \/ Fail \/ Resolved(NoTag, {}) \/ Resolved(NoTag, {"no such tag"})
        \/ \E t \in reg : Resolved(t, {})
    BY <1>3 DEF ResolveMeta
  <2> QED BY <1>1, <1>2, <2>1, <2>2
<1>4. ASSUME TagDigest PROVE ImageInv'
  <2>1. /\ stage = "digest" /\ stage' \in {"list", "dates"}
        /\ UNCHANGED <<input, base, resolved, window, skipped, latest, err>>
    BY <1>4 DEF TagDigest, Compare
  <2>2. ImageTypeOK' /\ IsFiniteSet(reg)'
    BY <1>0, <2>1 DEF ImageTypeOK, input, window
  <2>3. Fresh' /\ Chosen'
    BY <1>0, <2>1 DEF Fresh, Chosen, Compared
  <2> QED BY <2>2, <2>3
<1>5. ASSUME CompareDates PROVE ImageInv'
  <2>1. /\ stage = "dates" /\ stage' = "done" /\ latest' \in reg \cup {NoTag} /\ "dated" \in note'
        /\ UNCHANGED <<input, base, resolved, window, skipped, err>>
    BY <1>5 DEF CompareDates
  <2>2. ImageTypeOK' /\ IsFiniteSet(reg)'
    BY <1>0, <2>1 DEF ImageTypeOK, input, window
  <2>3. Fresh' /\ Chosen'
    BY <2>1 DEF Fresh, Chosen, Compared
  <2> QED BY <2>2, <2>3
<1>6. ASSUME List PROVE ImageInv'
  <2>1. /\ stage = "list" /\ Enter(Anchors(req.tag, base))
        /\ UNCHANGED <<input, base, resolved, budget, seen, exhaustive, failed, skipped, answer>>
    BY <1>6 DEF List
  <2>2. stage' \in {"rank", "walk"} /\ (stage' = "walk" <=> anchors' # <<>>) /\ page' = 0
    BY <2>1 DEF Enter
  <2>3. ImageTypeOK' /\ IsFiniteSet(reg)'
    BY <1>0, <2>1, <2>2 DEF ImageTypeOK, input, answer
  <2>4. Fresh' /\ Chosen'
    BY <1>0, <2>1, <2>2 DEF Fresh, Chosen, Compared, answer
  <2> QED BY <2>3, <2>4
<1>7. ASSUME NEW complete \in BOOLEAN, WalkEnds(complete), stage = "walk", seen' \in SUBSET reg, seen \in SUBSET seen',
             budget' \in 0 .. PageBudget, failed' \in BOOLEAN,
             UNCHANGED <<input, base, resolved, skipped, answer>>
      PROVE  ImageInv'
  <2>1. stage' \in {"rank", "walk"} /\ (stage' = "walk" <=> anchors' # <<>>) /\ page' = 0
    BY <1>7 DEF WalkEnds, Enter
  <2>2. exhaustive' \in BOOLEAN
    BY <1>0, <1>7 DEF WalkEnds, ImageTypeOK
  <2>3. ImageTypeOK' /\ IsFiniteSet(reg)'
    BY <1>0, <1>7, <2>1, <2>2 DEF ImageTypeOK, input, answer
  <2>4. Fresh' /\ Chosen'
    BY <1>0, <1>7, <2>1 DEF Fresh, Chosen, Compared, answer
  <2> QED BY <2>3, <2>4
<1>8. MayAsk /\ budget' = budget - 1 => budget' \in 0 .. PageBudget
  BY <1>0 DEF MayAsk, ImageTypeOK
<1>9. ASSUME Page PROVE ImageInv'
  <2>1. /\ stage = "walk" /\ MayAsk /\ budget' = budget - 1
        /\ seen' = seen \cup TagsPage(after).tags
        /\ UNCHANGED <<input, base, resolved, failed, skipped, answer>>
    BY <1>0, <1>9, PageIs
  <2>2. PageEnds(TagsPage(after)) \/ PageGoesOn(TagsPage(after))
    BY <1>0, <1>9, PageIs
  <2>3. seen' \in SUBSET reg /\ seen \in SUBSET seen' /\ failed' \in BOOLEAN
    BY <1>0, <2>1, PageHas DEF ImageTypeOK
  <2>4. CASE PageEnds(TagsPage(after))
    <3>1. PICK complete \in BOOLEAN : WalkEnds(complete)
      <4> DEFINE full == Cardinality(TagsPage(after).tags) < PageSize
      <4>1. full \in BOOLEAN
        OBVIOUS
      <4>2. WalkEnds(TRUE) \/ WalkEnds(full) \/ WalkEnds(FALSE)
        BY <2>4 DEF PageEnds
      <4> HIDE DEF full
      <4> QED BY Zenon, <4>1, <4>2
    <3> QED BY <1>7, <1>8, <2>1, <2>3, <3>1
  <2>5. CASE PageGoesOn(TagsPage(after))
    <3>1. page' \in 0 .. MaxPages /\ UNCHANGED <<anchors, exhaustive, stage>>
      BY <1>0, <2>1, <2>5 DEF PageGoesOn, MayAsk, ImageTypeOK
    <3>2. ImageTypeOK' /\ IsFiniteSet(reg)'
      BY <1>0, <1>8, <2>1, <2>3, <3>1 DEF ImageTypeOK, input, answer
    <3>3. Fresh' /\ Chosen'
      BY <1>0, <2>1, <3>1 DEF Fresh, Chosen, Compared, answer
    <3> QED BY <3>2, <3>3
  <2> QED BY <2>2, <2>4, <2>5
<1>10. ASSUME PageFails PROVE ImageInv'
  <2>1. /\ stage = "walk" /\ MayAsk /\ budget' = budget - 1 /\ failed' = TRUE /\ WalkEnds(FALSE)
        /\ UNCHANGED <<input, base, resolved, seen, skipped, answer>>
    BY <1>10 DEF PageFails
  <2>2. seen' \in SUBSET reg /\ seen \in SUBSET seen'
    BY <1>0, <2>1 DEF ImageTypeOK
  <2> QED BY <1>7, <1>8, <2>1, <2>2
<1>11. ASSUME OutOfPages PROVE ImageInv'
  <2>1. /\ stage = "walk" /\ WalkEnds(FALSE)
        /\ UNCHANGED <<input, base, resolved, budget, seen, failed, skipped, answer>>
    BY <1>11 DEF OutOfPages
  <2>2. seen' \in SUBSET reg /\ seen \in SUBSET seen' /\ budget' \in 0 .. PageBudget /\ failed' \in BOOLEAN
    BY <1>0, <2>1 DEF ImageTypeOK
  <2> QED BY <1>7, <2>1, <2>2
<1>12. ASSUME Unreachable PROVE ImageInv'
  BY <1>1, <1>12 DEF Unreachable
<1>13. ASSUME Rank PROVE ImageInv'
  <2>1. /\ stage = "rank" /\ stage' \in {"done", "verify"} /\ skipped = {}
        /\ UNCHANGED <<input, base, resolved, window, skipped, err>>
    BY <1>0, <1>13 DEF Rank, Fresh
  <2>2. /\ Rest = Candidates /\ Rest' = Rest
        /\ Rest # {} => First(Rest) \in Rest /\ \A u \in Rest \ {First(Rest)} : RanksBefore(First(Rest), u)
        /\ Rest \in SUBSET reg /\ NoTag \notin reg
    <3>1. Rest = Candidates /\ Rest' = Rest
      BY <2>1 DEF Rest, Candidates, input, window
    <3>2. Rest # {} => First(Rest) \in Rest /\ \A u \in Rest \ {First(Rest)} : RanksBefore(First(Rest), u)
      BY <1>0, ImageHas
    <3>3. Rest \in SUBSET reg /\ NoTag \notin reg
      BY <1>0, ImageHas DEF ImageTypeOK
    <3> QED BY <3>1, <3>2, <3>3
  <2>3. \/ Rest = {} /\ latest' = NoTag /\ stage' = "done"
        \/ Rest # {} /\ latest' = First(Rest) /\ stage' = "done"
        \/ stage' = "verify" /\ latest' = NoTag
    BY <1>0, <1>13, <2>1, <2>2 DEF Rank, Fresh
  <2>4. latest' \in reg \cup {NoTag}
    BY <2>2, <2>3
  <2>5. ImageTypeOK' /\ IsFiniteSet(reg)'
    BY <1>0, <2>1, <2>4 DEF ImageTypeOK, input, window
  <2>6. Fresh'
    BY <2>1, <2>3 DEF Fresh
  <2>7. Chosen'
    BY <2>2, <2>3 DEF Chosen, Compared
  <2> QED BY <2>5, <2>6, <2>7
<1>14. ASSUME Verify PROVE ImageInv'
  <2>1. /\ stage = "verify" /\ Rest # {}
        /\ UNCHANGED <<input, base, resolved, window, err>>
        /\ \/ skipped' = skipped \cup {First(Rest)} /\ UNCHANGED <<stage, latest>>
           \/ latest' = First(Rest) /\ stage' = "done" /\ skipped' = skipped
    BY <1>14 DEF Verify, Survives, Rest, answer
  <2>2. /\ First(Rest) \in Rest /\ \A u \in Rest \ {First(Rest)} : RanksBefore(First(Rest), u)
        /\ First(Rest) \in seen /\ First(Rest) \in reg /\ NoTag \notin reg
    <3>1. First(Rest) \in Rest /\ \A u \in Rest \ {First(Rest)} : RanksBefore(First(Rest), u)
      BY <1>0, <2>1, ImageHas
    <3>2. Rest \in SUBSET seen /\ seen \in SUBSET reg /\ NoTag \notin reg
      BY <1>0, ImageHas DEF ImageTypeOK
    <3> QED BY <3>1, <3>2
  <2>3. ImageTypeOK' /\ IsFiniteSet(reg)'
    BY <1>0, <2>1, <2>2 DEF ImageTypeOK, input, window
  <2>4. Fresh'
    BY <1>0, <2>1 DEF Fresh
  <2>5. Chosen'
    <3>1. CASE stage' = stage
      BY <2>1, <3>1 DEF Chosen, Compared
    <3>2. CASE latest' = First(Rest) /\ stage' = "done" /\ skipped' = skipped
      <4>1. Rest' = Rest
        BY <2>1, <3>2 DEF Rest, Candidates, input, window
      <4> QED BY <2>2, <3>2, <4>1 DEF Chosen
    <3> QED BY <2>1, <3>1, <3>2
  <2> QED BY <2>3, <2>4, <2>5
<1>15. ASSUME NoneSurvived PROVE ImageInv'
  <2>1. /\ stage = "verify" /\ stage' = "done" /\ latest = NoTag
        /\ Rest = {} \/ "stopped" \in note'
        /\ UNCHANGED <<input, base, resolved, window, skipped, latest, err>>
    BY <1>0, <1>15 DEF NoneSurvived, Rest, Fresh
  <2>2. ImageTypeOK' /\ IsFiniteSet(reg)'
    BY <1>0, <2>1 DEF ImageTypeOK, input, window
  <2>3. Rest' = Rest
    BY <2>1 DEF Rest, Candidates, input, window
  <2>4. Fresh' /\ Chosen'
    BY <2>1, <2>3 DEF Fresh, Chosen
  <2> QED BY <2>2, <2>4
<1>16. ASSUME UNCHANGED imageVars PROVE ImageInv'
  <2>1. UNCHANGED <<reg, req, stage, base, resolved, anchors, after, page, budget, seen,
                    exhaustive, failed, skipped, latest, note, err>>
    BY <1>16 DEF imageVars
  <2>2. ImageTypeOK' /\ IsFiniteSet(reg)'
    BY <1>0, <2>1 DEF ImageTypeOK
  <2>3. Fresh' /\ Chosen'
    BY <1>0, <2>1 DEF Fresh, Chosen, Compared, Rest, Candidates
  <2> QED BY <2>2, <2>3
<1> QED BY <1>3, <1>4, <1>5, <1>6, <1>9, <1>10, <1>11, <1>12, <1>13, <1>14, <1>15, <1>16 DEF ImageNext

LEMMA ImageInvHolds == ImageSpec => []ImageInv
<1>1. ImageInit => ImageInv
  BY ImageInitInv
<1>2. ImageInv /\ [ImageNext]_imageVars => ImageInv'
  BY ImageStepInv
<1> QED BY <1>1, <1>2, PTL DEF ImageSpec

(* The state of a lookup has its type, whatever the registry lists. *)
THEOREM ImageTypeCorrect == ImageSpec => []ImageTypeOK
<1>1. ImageInv => ImageTypeOK
  BY DEF ImageInv
<1> QED BY <1>1, ImageInvHolds, PTL

LEMMA BestIsOffered == ASSUME ImageInv PROVE BestOffered
<1> USE DEF ImageInv
<1>1. ASSUME Compared, NEW t \in seen \ skipped, Better(t)
      PROVE  latest = NoTag /\ "stopped" \in note
  <2>1. t \in Rest
    BY <1>1 DEF Better, Rest, Candidates, RankedCandidates
  <2>2. CASE latest = NoTag
    BY <1>1, <2>1, <2>2 DEF Chosen
  <2>3. CASE latest # NoTag
    <3>1. latest \in Rest /\ RanksBefore(t, latest) /\ (t # latest => RanksBefore(latest, t))
      BY <1>1, <2>1, <2>3 DEF Chosen, Better
    <3>2. t \in Shapes /\ latest \in Shapes
      BY <2>1, <3>1, ImageHas
    <3> QED BY <3>1, <3>2, RanksOrder
  <2> QED BY <2>2, <2>3
<1>2. ASSUME Compared, latest # NoTag
      PROVE  /\ req.scope = "patch" => ImageScope(base, latest) \notin {"minor", "major"}
             /\ req.scope = "minor" => ImageScope(base, latest) # "major"
  <2>1. TagScopeOK(base, latest, req.scope)
    BY <1>2 DEF Chosen, Rest, Candidates, RankedCandidates, Outranks
  <2>2. base.core \in Seq(Nat) /\ Len(base.core) \in Nat
    BY ImageHas, ShapeHas
  <2>3. CASE Len(base.core) < 2
    BY <2>3 DEF ImageScope
  <2>4. CASE ~(Len(base.core) < 2)
    <3>1. req.scope \in {"patch", "minor"} => Group(latest.core, 1) = Group(base.core, 1)
      BY <2>1, <2>4 DEF TagScopeOK
    <3>2. req.scope = "patch" => Group(latest.core, 2) = Group(base.core, 2)
      BY <2>1, <2>4 DEF TagScopeOK
    <3> QED BY <3>1, <3>2 DEF ImageScope
  <2> QED BY <2>3, <2>4
<1> QED BY <1>1, <1>2 DEF BestOffered

(* Of the tags that were listed no better one is passed over, and the bump is *)
(* one the scope allows (imageverify.go:55, scope.go:37, runner.go:386).      *)
THEOREM ImageOffersBest == ImageSpec => []BestOffered
<1>1. ImageInv => BestOffered
  BY BestIsOffered
<1> QED BY <1>1, ImageInvHolds, PTL

----------------------------------------------------------------------------
(***************************************************************************)
(* Listings: texts in their order, pages, and what the walks behind the    *)
(* anchors have seen.                                                      *)
(***************************************************************************)
Texts == Seq(Int)

LEMMA PrecedesOrder ==
  /\ \A a \in Texts : ~Precedes(a, a)
  /\ \A a, b, c \in Texts : Precedes(a, b) /\ Precedes(b, c) => Precedes(a, c)
  /\ \A a, b \in Texts : a # b => Precedes(a, b) \/ Precedes(b, a)
<1>0. \A a \in Texts : Len(a) \in Nat /\ \A i \in 1 .. Len(a) : a[i] \in Int
  BY DEF Texts
<1>1. ASSUME NEW a \in Texts PROVE ~Precedes(a, a)
  BY <1>0 DEF Precedes
<1>2. ASSUME NEW a \in Texts, NEW b \in Texts, NEW c \in Texts, Precedes(a, b), Precedes(b, c)
      PROVE  Precedes(a, c)
  <2>1. PICK i \in 1 .. Len(b) : /\ i <= Len(a) + 1 /\ \A j \in 1 .. (i - 1) : a[j] = b[j]
                                 /\ i <= Len(a) => a[i] < b[i]
    BY <1>2 DEF Precedes
  <2>2. PICK k \in 1 .. Len(c) : /\ k <= Len(b) + 1 /\ \A j \in 1 .. (k - 1) : b[j] = c[j]
                                 /\ k <= Len(b) => b[k] < c[k]
    BY <1>2 DEF Precedes
  <2>0. Len(a) \in Nat /\ Len(b) \in Nat /\ Len(c) \in Nat /\ i \in Nat /\ k \in Nat
    BY <1>0
  <2>3. CASE i < k
    <3>1. i \in 1 .. Len(c) /\ i \in 1 .. (k - 1) /\ \A j \in 1 .. (i - 1) : j \in 1 .. (k - 1)
      BY <2>0, <2>3
    <3>2. \A j \in 1 .. (i - 1) : a[j] = c[j]
      BY <2>1, <2>2, <3>1
    <3>3. i <= Len(a) => a[i] < c[i]
      BY <2>1, <2>2, <3>1
    <3> QED BY <2>1, <3>1, <3>2, <3>3 DEF Precedes
  <2>4. CASE i = k
    <3>1. \A j \in 1 .. (i - 1) : a[j] = c[j]
      BY <2>1, <2>2, <2>4
    <3>2. i <= Len(a) => a[i] < c[i]
      <4>1. SUFFICES ASSUME i <= Len(a) PROVE a[i] < c[i]
        OBVIOUS
      <4>2. i \in 1 .. Len(a) /\ i \in 1 .. Len(b) /\ i \in 1 .. Len(c)
        BY <2>0, <2>4, <4>1
      <4>3. a[i] \in Int /\ b[i] \in Int /\ c[i] \in Int
        BY <1>0, <4>2
      <4>4. a[i] < b[i] /\ b[i] < c[i]
        BY <2>0, <2>1, <2>2, <2>4, <4>1, <4>2
      <4> QED BY <4>3, <4>4
    <3> QED BY <2>1, <2>4, <3>1, <3>2 DEF Precedes
  <2>5. CASE k < i
    <3>1. /\ k \in 1 .. (i - 1) /\ k <= Len(a) /\ k <= Len(b)
          /\ \A j \in 1 .. (k - 1) : j \in 1 .. (i - 1)
      BY <2>0, <2>1, <2>5
    <3>2. \A j \in 1 .. (k - 1) : a[j] = c[j]
      BY <2>1, <2>2, <3>1
    <3>3. a[k] < c[k]
      BY <2>1, <2>2, <3>1
    <3>4. k <= Len(a) + 1
      BY <2>0, <3>1
    <3> QED BY <3>2, <3>3, <3>4 DEF Precedes
  <2> QED BY <2>0, <2>3, <2>4, <2>5
<1>3. ASSUME NEW a \in Texts, NEW b \in Texts, a # b PROVE Precedes(a, b) \/ Precedes(b, a)
  <2> DEFINE differ == {i \in Nat : i >= 1 /\ i <= Len(a) + 1 /\ i <= Len(b) + 1 /\
                                    (i <= Len(a) /\ i <= Len(b) => a[i] # b[i]) /\
                                    (i <= Len(a) \/ i <= Len(b))}
  <2>0. Len(a) \in Nat /\ Len(b) \in Nat
    BY <1>0
  <2>1. differ # {}
    <3> SUFFICES ASSUME \A i \in Nat : i \notin differ PROVE FALSE
      OBVIOUS
    <3>1. CASE Len(a) = Len(b)
      <4>1. \A i \in 1 .. Len(a) : a[i] = b[i]
        BY <2>0, <3>1
      <4> QED BY <1>3, <3>1, <4>1 DEF Texts
    <3>2. CASE Len(a) < Len(b)
      <4>1. Len(a) + 1 \in differ
        BY <2>0, <3>2
      <4> QED BY <2>0, <4>1
    <3>3. CASE Len(b) < Len(a)
      <4>1. Len(b) + 1 \in differ
        BY <2>0, <3>3
      <4> QED BY <2>0, <4>1
    <3> QED BY <2>0, <3>1, <3>2, <3>3
  <2>2. PICK i \in differ : \A n \in differ : i <= n
    <3>1. differ \in SUBSET Nat
      OBVIOUS
    <3> HIDE DEF differ
    <3> QED BY <2>1, <3>1, LeastNumber
  <2>3. /\ i \in Nat /\ i >= 1 /\ i <= Len(a) + 1 /\ i <= Len(b) + 1
        /\ i <= Len(a) /\ i <= Len(b) => a[i] # b[i]
        /\ i <= Len(a) \/ i <= Len(b)
    OBVIOUS
  <2>4. ASSUME NEW j \in 1 .. (i - 1) PROVE a[j] = b[j]
    <3>1. j \in Nat /\ j >= 1 /\ j < i /\ j <= Len(a) /\ j <= Len(b)
      BY <2>0, <2>3
    <3>2. j \notin differ
      <4> HIDE DEF differ
      <4> QED BY <2>2, <2>3, <3>1
    <3> QED BY <2>0, <3>1, <3>2
  <2> HIDE DEF differ
  <2>5. CASE i <= Len(a) /\ i <= Len(b)
    <3>1. a[i] \in Int /\ b[i] \in Int /\ a[i] # b[i]
      BY <1>0, <2>3, <2>5
    <3>2. a[i] < b[i] \/ b[i] < a[i]
      BY <3>1
    <3>3. i \in 1 .. Len(a) /\ i \in 1 .. Len(b)
      BY <2>0, <2>3, <2>5
    <3> QED BY <2>3, <2>4, <3>2, <3>3 DEF Precedes
  <2>6. CASE ~(i <= Len(a))
    <3>1. i \in 1 .. Len(b)
      BY <2>0, <2>3, <2>6
    <3> QED BY <2>3, <2>4, <2>6, <3>1 DEF Precedes
  <2>7. CASE ~(i <= Len(b))
    <3>1. i \in 1 .. Len(a)
      BY <2>0, <2>3, <2>7
    <3> QED BY <2>3, <2>4, <2>7, <3>1 DEF Precedes
  <2> QED BY <2>3, <2>5, <2>6, <2>7
<1> QED BY <1>1, <1>2, <1>3

(* A flattened sequence of texts begins with the first, and holds the second. *)
Flattens(f, s, n) == f = [i \in 1 .. n |-> IF i = 1 THEN s[i] ELSE f[i - 1] \o s[i]]

LEMMA FlattensExists ==
  ASSUME NEW s, NEW n \in Nat
  PROVE  \E f : Flattens(f, s, n)
<1> DEFINE without == {m \in Nat : ~ \E f : Flattens(f, s, m)}
<1>1. SUFFICES ASSUME without # {} PROVE FALSE
  OBVIOUS
<1>2. PICK m \in without : \A k \in without : m <= k
  <2>1. without \in SUBSET Nat
    OBVIOUS
  <2> HIDE DEF without
  <2> QED BY <1>1, <2>1, LeastNumber
<1>3. CASE m = 0
  <2> DEFINE f == [i \in 1 .. 0 |-> s]
  <2>1. f = [i \in 1 .. 0 |-> IF i = 1 THEN s[i] ELSE f[i - 1] \o s[i]]
    <3>1. 1 .. 0 = {}
      OBVIOUS
    <3> QED BY <3>1
  <2> QED BY <1>3, <2>1 DEF Flattens
<1>4. CASE m # 0
  <2>1. m - 1 \in Nat /\ m - 1 \notin without
    <3>1. m - 1 \in Nat /\ ~(m <= m - 1)
      BY <1>4
    <3> HIDE DEF without
    <3> QED BY <1>2, <3>1
  <2>2. PICK g : Flattens(g, s, m - 1)
    BY <2>1
  <2> DEFINE last == IF m = 1 THEN s[m] ELSE g[m - 1] \o s[m]
             f == [i \in 1 .. m |-> IF i = m THEN last ELSE g[i]]
  <2>3. ASSUME NEW i \in 1 .. m PROVE f[i] = IF i = 1 THEN s[i] ELSE f[i - 1] \o s[i]
    <3>1. CASE i = m
      <4>1. m # 1 => m - 1 \in 1 .. m /\ m - 1 # m
        BY <1>4
      <4>2. m # 1 => f[m - 1] = g[m - 1]
        BY <4>1
      <4> QED BY <3>1, <4>2
    <3>2. CASE i # m
      <4>1. i \in 1 .. (m - 1)
        BY <3>2
      <4>2. g[i] = IF i = 1 THEN s[i] ELSE g[i - 1] \o s[i]
        BY <2>2, <4>1 DEF Flattens
      <4>3. i # 1 => i - 1 \in 1 .. m /\ i - 1 # m
        BY <4>1
      <4>4. i # 1 => f[i - 1] = g[i - 1]
        BY <4>3
      <4>5. f[i] = g[i]
        BY <3>2
      <4> QED BY <4>2, <4>4, <4>5
    <3> QED BY <3>1, <3>2
  <2>4. Flattens(f, s, m)
    <3>1. f = [i \in 1 .. m |-> f[i]]
      OBVIOUS
    <3> HIDE DEF f
    <3>2. [i \in 1 .. m |-> f[i]] = [i \in 1 .. m |-> IF i = 1 THEN s[i] ELSE f[i - 1] \o s[i]]
      BY <2>3
    <3> QED BY <3>1, <3>2 DEF Flattens
  <2> QED BY <2>4
<1> QED BY <1>3, <1>4

BeginsWith(text, first) ==
  text \in Texts /\ Len(text) >= Len(first) /\ \A j \in 1 .. Len(first) : text[j] = first[j]

LEMMA FlattensBegins ==
  ASSUME NEW s \in Seq(Texts), NEW f, Flattens(f, s, Len(s)), Len(s) > 0
  PROVE  /\ BeginsWith(f[Len(s)], s[1])
         /\ Len(s) >= 2 => Len(f[Len(s)]) >= Len(s[1]) + Len(s[2])
<1> DEFINE N == Len(s)
<1>0. N \in Nat /\ N >= 1 /\ 1 \in 1 .. N /\ \A i \in 1 .. N : s[i] \in Texts
  OBVIOUS
<1>1. \A i \in 1 .. N : f[i] = IF i = 1 THEN s[i] ELSE f[i - 1] \o s[i]
  <2> DEFINE g == [i \in 1 .. N |-> IF i = 1 THEN s[i] ELSE f[i - 1] \o s[i]]
  <2>1. f = g
    BY DEF Flattens
  <2>2. \A i \in 1 .. N : g[i] = IF i = 1 THEN s[i] ELSE f[i - 1] \o s[i]
    OBVIOUS
  <2> HIDE DEF g
  <2> QED BY <2>1, <2>2
<1> HIDE DEF N
<1>2. f[1] = s[1]
  BY <1>0, <1>1
<1>3. ASSUME NEW n \in 2 .. N PROVE f[n] = f[n - 1] \o s[n] /\ n \in 1 .. N /\ n - 1 \in 1 .. N
  <2>1. n \in 1 .. N /\ n # 1 /\ n - 1 \in 1 .. N
    BY <1>0
  <2> QED BY <1>1, <2>1
<1> DEFINE good == {n \in 1 .. N : BeginsWith(f[n], s[1]) /\ (n >= 2 => Len(f[n]) >= Len(s[1]) + Len(s[2]))}
<1>4. 1 \in good
  <2>1. BeginsWith(s[1], s[1])
    BY <1>0 DEF BeginsWith, Texts
  <2> QED BY <1>0, <1>2, <2>1
<1>5. ASSUME NEW n \in 2 .. N, n - 1 \in good PROVE n \in good
  <2>1. f[n] = f[n - 1] \o s[n] /\ n \in 1 .. N
    BY <1>3
  <2>2. BeginsWith(f[n - 1], s[1]) /\ s[n] \in Texts /\ s[1] \in Texts
    BY <1>0, <1>5, <2>1
  <2>3. f[n - 1] \in Seq(Int) /\ s[n] \in Seq(Int)
    BY <2>2 DEF BeginsWith, Texts
  <2> DEFINE u == f[n - 1]
             v == s[n]
  <2>4. u \in Seq(Int) /\ v \in Seq(Int) /\ f[n] = u \o v
    BY <2>1, <2>3
  <2> HIDE DEF u, v
  <2>5. /\ u \o v \in Seq(Int) /\ Len(u \o v) = Len(u) + Len(v)
        /\ \A j \in 1 .. Len(u) : (u \o v)[j] = u[j]
        /\ Len(u) \in Nat /\ Len(v) \in Nat
    BY <2>4
  <2>6. BeginsWith(u, s[1]) /\ Len(s[1]) \in Nat
    BY <2>2 DEF u, Texts
  <2>7. BeginsWith(f[n], s[1])
    <3>1. Len(u \o v) >= Len(s[1]) /\ \A j \in 1 .. Len(s[1]) : j \in 1 .. Len(u)
      BY <2>5, <2>6 DEF BeginsWith
    <3>2. \A j \in 1 .. Len(s[1]) : (u \o v)[j] = s[1][j]
      BY <2>5, <2>6, <3>1 DEF BeginsWith
    <3> QED BY <2>4, <2>5, <3>1, <3>2 DEF BeginsWith, Texts
  <2>8. Len(f[n]) >= Len(s[1]) + Len(s[2])
    <3>1. CASE n = 2
      <4>1. u = s[1] /\ v = s[2]
        BY <1>2, <3>1 DEF u, v
      <4> QED BY <2>4, <2>5, <4>1
    <3>2. CASE n # 2
      <4>1. 2 \in 1 .. N /\ n - 1 >= 2
        BY <1>0, <2>1, <3>2
      <4>2. Len(s[2]) \in Nat
        BY <1>0, <4>1 DEF Texts
      <4>3. Len(u) >= Len(s[1]) + Len(s[2])
        BY <1>5, <4>1 DEF u
      <4>4. Len(f[n]) = Len(u) + Len(v)
        BY <2>4, <2>5
      <4> DEFINE lu == Len(u)
                 lv == Len(v)
                 l1 == Len(s[1])
                 l2 == Len(s[2])
      <4>5. lu \in Nat /\ lv \in Nat /\ l1 \in Nat /\ l2 \in Nat /\ lu >= l1 + l2 /\ Len(f[n]) = lu + lv
        BY <2>5, <2>6, <4>2, <4>3, <4>4
      <4> HIDE DEF lu, lv, l1, l2
      <4>6. lu + lv >= l1 + l2
        BY <4>5
      <4>7. Len(f[n]) >= l1 + l2
        BY <4>5, <4>6
      <4> QED BY <4>7 DEF l1, l2
    <3> QED BY <3>1, <3>2
  <2> QED BY <2>1, <2>7, <2>8
<1> HIDE DEF good
<1>6. N \in good
  <2> DEFINE bad == {n \in Nat : n \in 1 .. N /\ n \notin good}
  <2> SUFFICES ASSUME bad # {} PROVE FALSE
    BY <1>0
  <2>1. PICK m \in bad : \A k \in bad : m <= k
    <3>1. bad \in SUBSET Nat
      OBVIOUS
    <3> HIDE DEF bad
    <3> QED BY <3>1, LeastNumber
  <2>2. m \in 2 .. N /\ m - 1 \in Nat /\ m - 1 \in 1 .. N /\ ~(m <= m - 1)
    BY <1>0, <1>4
  <2>3. m - 1 \notin bad
    <3> HIDE DEF bad
    <3> QED BY <2>1, <2>2
  <2> QED BY <1>5, <2>2, <2>3
<1> QED BY <1>6 DEF good, N

LEMMA FlattenIs ==
  ASSUME NEW s \in Seq(Texts), Len(s) > 0
  PROVE  /\ BeginsWith(FlattenSeq(s), s[1])
         /\ Len(s) >= 2 => Len(FlattenSeq(s)) >= Len(s[1]) + Len(s[2])
<1> DEFINE f == CHOOSE f : f = [i \in 1 .. Len(s) |-> IF i = 1 THEN s[i] ELSE f[i - 1] \o s[i]]
<1>1. FlattenSeq(s) = f[Len(s)]
  BY DEF FlattenSeq
<1>2. \E g : g = [i \in 1 .. Len(s) |-> IF i = 1 THEN s[i] ELSE g[i - 1] \o s[i]]
  <2>0. Len(s) \in Nat
    OBVIOUS
  <2>1. \E g : Flattens(g, s, Len(s))
    BY <2>0, FlattensExists
  <2> QED BY <2>1 DEF Flattens
<1>3. f = [i \in 1 .. Len(s) |-> IF i = 1 THEN s[i] ELSE f[i - 1] \o s[i]]
  BY <1>2
<1> HIDE DEF f
<1>4. Flattens(f, s, Len(s))
  BY <1>3 DEF Flattens
<1> QED BY <1>1, <1>4, FlattensBegins

(* How a tag with a version is written. *)
LEMMA SpellIs ==
  ASSUME NEW t \in Shapes
  PROVE  /\ Spell(t) \in Texts
         /\ Comparable(t) =>
              /\ Len(Spell(t)) >= Len(t.pre) + 1
              /\ \A j \in 1 .. Len(t.pre) : Spell(t)[j] = t.pre[j]
              /\ Spell(t)[Len(t.pre) + 1] = Digits(t.core[1])[1]
              /\ Len(Spell(t)) = Len(t.pre) + 1 => Len(t.core) = 1 /\ Digits(t.core[1]) = <<t.core[1]>>
<1> DEFINE texts == [i \in DOMAIN t.core |-> (IF i = 1 THEN <<>> ELSE <<Dot>>) \o Digits(t.core[i])]
           flat == FlattenSeq(texts)
<1>1. t.pre \in Texts /\ t.post \in Texts /\ t.core \in Seq(Numbers) /\ Len(t.core) \in Nat
  BY ShapeHas DEF Texts
<1>2. \A n \in Numbers : /\ Digits(n) \in Texts /\ Len(Digits(n)) \in {1, 2}
                         /\ Len(Digits(n)) = 1 => Digits(n) = <<n>>
  BY DEF Digits, Numbers, Texts
<1>3. Dot \in Int /\ <<Dot>> \in Texts /\ <<>> \in Texts /\ Len(<<Dot>>) = 1
  BY DEF Dot, Texts
<1>4. DOMAIN t.core = 1 .. Len(t.core) /\ \A i \in 1 .. Len(t.core) : t.core[i] \in Numbers
  BY <1>1
<1>5. ASSUME NEW i \in 1 .. Len(t.core)
      PROVE  /\ texts[i] \in Texts /\ Len(texts[i]) >= 1
             /\ i = 1 => texts[i] = Digits(t.core[1])
  <2>1. Digits(t.core[i]) \in Seq(Int) /\ Len(Digits(t.core[i])) \in {1, 2}
    BY <1>2, <1>4 DEF Texts
  <2> DEFINE d == Digits(t.core[i])
  <2>2. d \in Seq(Int) /\ Len(d) \in {1, 2}
    BY <2>1
  <2>3. texts[i] = (IF i = 1 THEN <<>> ELSE <<Dot>>) \o d
    BY <1>4
  <2>d. d = Digits(t.core[i])
    OBVIOUS
  <2> HIDE DEF d, texts
  <2>4. CASE i = 1
    <3>1. texts[i] = <<>> \o d
      BY <2>3, <2>4
    <3>2. <<>> \o d = d
      BY <2>2
    <3> QED BY <2>2, <2>4, <2>d, <3>1, <3>2 DEF Texts
  <2>5. CASE i # 1
    <3>1. texts[i] = <<Dot>> \o d
      BY <2>3, <2>5
    <3>2. <<Dot>> \in Seq(Int) /\ Len(<<Dot>>) = 1
      BY <1>3
    <3>3. <<Dot>> \o d \in Seq(Int) /\ Len(<<Dot>> \o d) = 1 + Len(d)
      BY <2>2, <3>2
    <3> QED BY <2>2, <2>5, <3>1, <3>3 DEF Texts
  <2> QED BY <2>4, <2>5
<1>6. texts \in Seq(Texts) /\ Len(texts) = Len(t.core)
  <2>1. texts \in [1 .. Len(t.core) -> Texts]
    BY <1>4, <1>5
  <2> HIDE DEF texts
  <2> QED BY <1>1, <2>1
<1> HIDE DEF texts
<1>7. flat \in Texts
  <2>1. CASE Len(t.core) = 0
    <3>1. flat = texts /\ texts = <<>>
      BY <1>6, <2>1 DEF FlattenSeq
    <3> QED BY <1>3, <3>1
  <2>2. CASE Len(t.core) # 0
    <3>1. texts \in Seq(Texts) /\ Len(texts) > 0
      BY <1>1, <1>6, <2>2
    <3>2. BeginsWith(flat, texts[1])
      BY <3>1, FlattenIs
    <3> QED BY <3>2 DEF BeginsWith
  <2> QED BY <2>1, <2>2
<1>8. Spell(t) = t.pre \o flat \o t.post
  BY DEF Spell, texts
<1>9. ASSUME Comparable(t)
      PROVE  /\ Len(flat) >= 1 /\ flat[1] = Digits(t.core[1])[1]
             /\ Len(flat) = 1 => Len(t.core) = 1 /\ Digits(t.core[1]) = <<t.core[1]>>
  <2>1. Len(t.core) > 0 /\ 1 \in 1 .. Len(t.core)
    BY <1>1, <1>9 DEF Comparable
  <2>2. texts[1] = Digits(t.core[1]) /\ t.core[1] \in Numbers
    BY <1>4, <1>5, <2>1
  <2>3. /\ BeginsWith(flat, Digits(t.core[1]))
        /\ Len(t.core) >= 2 => Len(flat) >= Len(Digits(t.core[1])) + Len(texts[2])
    BY <1>6, <2>1, <2>2, FlattenIs
  <2>4. Len(t.core) >= 2 => Len(texts[2]) >= 1 /\ Len(texts[2]) \in Nat
    BY <1>1, <1>5 DEF Texts
  <2>5. Len(Digits(t.core[1])) \in {1, 2} /\ (Len(Digits(t.core[1])) = 1 => Digits(t.core[1]) = <<t.core[1]>>)
    BY <1>2, <2>2
  <2>6. Len(flat) \in Nat
    BY <1>7 DEF Texts
  <2>7. Len(flat) >= 1 /\ flat[1] = Digits(t.core[1])[1]
    BY <2>3, <2>5, <2>6 DEF BeginsWith
  <2>8. Len(flat) = 1 => Len(Digits(t.core[1])) = 1 /\ Len(t.core) = 1
    <3> DEFINE k == Len(Digits(t.core[1]))
    <3>1. k \in {1, 2} /\ Len(flat) >= k
      BY <2>3, <2>5 DEF BeginsWith
    <3>2. Len(t.core) >= 2 => Len(flat) >= k + Len(texts[2])
      BY <2>3
    <3> HIDE DEF k
    <3>3. Len(flat) = 1 => k = 1
      BY <2>6, <3>1
    <3>4. Len(flat) = 1 => ~(Len(t.core) >= 2)
      BY <2>4, <2>6, <3>1, <3>2
    <3>5. Len(t.core) > 0 /\ Len(t.core) \in Nat
      BY <1>1, <2>1
    <3> DEFINE numbers == Len(t.core)
    <3>6. numbers \in Nat /\ numbers > 0 /\ (Len(flat) = 1 => ~(numbers >= 2))
      BY <3>4, <3>5
    <3> HIDE DEF numbers
    <3>7. Len(flat) = 1 => numbers = 1
      BY <3>6
    <3> QED BY <3>3, <3>7 DEF k, numbers
  <2> QED BY <2>5, <2>7, <2>8
<1> DEFINE pre == t.pre
           post == t.post
<1>10. pre \in Seq(Int) /\ post \in Seq(Int) /\ flat \in Seq(Int) /\ Spell(t) = pre \o flat \o post
  BY <1>1, <1>7, <1>8 DEF Texts
<1> HIDE DEF flat, pre, post
<1>11. /\ pre \o flat \in Seq(Int) /\ Len(pre \o flat) = Len(pre) + Len(flat)
       /\ \A j \in 1 .. Len(pre) : (pre \o flat)[j] = pre[j]
       /\ Len(flat) >= 1 => (pre \o flat)[Len(pre) + 1] = flat[1]
       /\ Len(pre) \in Nat /\ Len(flat) \in Nat /\ Len(post) \in Nat
  BY <1>10
<1> DEFINE front == pre \o flat
<1>12. /\ front \in Seq(Int) /\ Len(front) = Len(pre) + Len(flat) /\ Spell(t) = front \o post
       /\ \A j \in 1 .. Len(pre) : front[j] = pre[j]
       /\ Len(flat) >= 1 => front[Len(pre) + 1] = flat[1]
  BY <1>10, <1>11
<1> HIDE DEF front
<1>13. /\ front \o post \in Seq(Int) /\ Len(front \o post) = Len(front) + Len(post)
       /\ \A j \in 1 .. Len(front) : (front \o post)[j] = front[j]
  <2>1. front \in Seq(Int) /\ post \in Seq(Int)
    BY <1>10, <1>12
  <2> QED BY <2>1
<1>14. Spell(t) \in Texts
  BY <1>12, <1>13 DEF Texts
<1>15. ASSUME Comparable(t)
       PROVE  /\ Len(Spell(t)) >= Len(t.pre) + 1
              /\ \A j \in 1 .. Len(t.pre) : Spell(t)[j] = t.pre[j]
              /\ Spell(t)[Len(t.pre) + 1] = Digits(t.core[1])[1]
              /\ Len(Spell(t)) = Len(t.pre) + 1 => Len(t.core) = 1 /\ Digits(t.core[1]) = <<t.core[1]>>
  <2>1. Len(flat) >= 1 /\ Len(Spell(t)) = Len(pre) + Len(flat) + Len(post)
    BY <1>9, <1>11, <1>12, <1>13, <1>15
  <2>2. \A j \in 1 .. Len(pre) + 1 : j \in 1 .. Len(front) /\ Spell(t)[j] = front[j]
    BY <1>11, <1>12, <1>13, <2>1
  <2>3. \A j \in 1 .. Len(pre) : j \in 1 .. Len(pre) + 1
    BY <1>11
  <2>4. \A j \in 1 .. Len(pre) : Spell(t)[j] = pre[j]
    BY <1>12, <2>2, <2>3
  <2>5. Spell(t)[Len(pre) + 1] = Digits(t.core[1])[1]
    <3>1. Len(pre) + 1 \in 1 .. Len(pre) + 1
      BY <1>11
    <3> QED BY <1>9, <1>12, <1>15, <2>1, <2>2, <3>1
  <2>6. Len(Spell(t)) = Len(pre) + 1 => Len(flat) = 1
    <3> DEFINE lf == Len(flat)
               lp == Len(post)
               ln == Len(pre)
    <3>1. ln \in Nat /\ lf \in Nat /\ lp \in Nat /\ lf >= 1 /\ Len(Spell(t)) = ln + lf + lp
      BY <1>11, <2>1
    <3> HIDE DEF lf, lp, ln
    <3>2. ln + lf + lp = ln + 1 => lf = 1
      BY <3>1
    <3> QED BY <3>1, <3>2 DEF lf, ln
  <2>7. Len(Spell(t)) >= Len(pre) + 1
    BY <1>11, <2>1
  <2> QED BY <1>9, <1>15, <2>4, <2>5, <2>6, <2>7 DEF pre
<1> QED BY <1>14, <1>15

(* A newer version from 1 on is listed behind the version in use or behind the *)
(* smallest one of its family.                                                 *)
LEMMA NewerIsBehind ==
  ASSUME NEW cur \in Shapes, NEW t \in Shapes, ComparableShapes(cur, t), t.core[1] # 0,
         CoreGreater(t.core, cur.core)
  PROVE  Precedes(WidthProbe(cur), Spell(t)) \/ Precedes(Spell(cur), Spell(t))
<1>1. /\ t.pre = cur.pre /\ Comparable(t) /\ Comparable(cur) /\ cur.pre \in Seq(Int)
      /\ t.core \in Seq(Numbers) /\ cur.core \in Seq(Numbers) /\ t.core \in Seq(Nat) /\ cur.core \in Seq(Nat)
  BY ShapeHas DEF ComparableShapes
<1> DEFINE n == Len(cur.pre) + 1
<1>2. n \in Nat /\ n >= 1 /\ n - 1 = Len(cur.pre)
  BY <1>1
<1>3. /\ Spell(t) \in Texts /\ Len(Spell(t)) >= n /\ \A j \in 1 .. (n - 1) : Spell(t)[j] = cur.pre[j]
      /\ Spell(t)[n] = Digits(t.core[1])[1]
      /\ Len(Spell(t)) = n => Len(t.core) = 1 /\ Digits(t.core[1]) = <<t.core[1]>>
  BY <1>1, <1>2, SpellIs
<1>4. /\ Spell(cur) \in Texts /\ Len(Spell(cur)) >= n /\ \A j \in 1 .. (n - 1) : Spell(cur)[j] = cur.pre[j]
      /\ Spell(cur)[n] = Digits(cur.core[1])[1]
  BY <1>1, <1>2, SpellIs
<1>5. Len(Spell(t)) \in Nat /\ Len(Spell(cur)) \in Nat
  BY <1>3, <1>4 DEF Texts
<1>6. t.core[1] \in Numbers /\ cur.core[1] \in Numbers
  BY <1>1 DEF Comparable
<1>7. Digits(t.core[1])[1] \in 1 .. 9
  BY <1>6 DEF Digits, Numbers
<1>8. WidthProbe(cur) = cur.pre \o <<1>>
  BY <1>1 DEF WidthProbe
<1> DEFINE probe == cur.pre \o <<1>>
<1>9. /\ Len(probe) = n /\ \A j \in 1 .. (n - 1) : probe[j] = cur.pre[j]
      /\ probe[n] = 1
  BY <1>1
<1> HIDE DEF n, probe
<1>10. CASE Digits(t.core[1])[1] # 1
  <2>1. probe[n] < Spell(t)[n] /\ n \in 1 .. Len(Spell(t)) /\ n <= Len(probe) + 1
    BY <1>2, <1>3, <1>5, <1>7, <1>9, <1>10
  <2>2. \A j \in 1 .. (n - 1) : probe[j] = Spell(t)[j]
    BY <1>3, <1>9
  <2>3. Precedes(probe, Spell(t))
    BY <2>1, <2>2 DEF Precedes
  <2> QED BY <1>8, <2>3 DEF probe
<1>11. CASE Digits(t.core[1])[1] = 1 /\ Len(Spell(t)) # n
  <2>1. n + 1 \in 1 .. Len(Spell(t)) /\ n + 1 <= Len(probe) + 1 /\ ~(n + 1 <= Len(probe))
    BY <1>2, <1>3, <1>5, <1>9, <1>11
  <2>2. \A j \in 1 .. ((n + 1) - 1) : probe[j] = Spell(t)[j]
    <3>1. \A j \in 1 .. ((n + 1) - 1) : j = n \/ j \in 1 .. (n - 1)
      BY <1>2
    <3> QED BY <1>3, <1>9, <1>11, <3>1
  <2>3. Precedes(probe, Spell(t))
    BY <2>1, <2>2 DEF Precedes
  <2> QED BY <1>8, <2>3 DEF probe
<1>12. CASE Digits(t.core[1])[1] = 1 /\ Len(Spell(t)) = n
  <2>1. Len(t.core) = 1 /\ t.core[1] = 1
    BY <1>3, <1>12
  <2>2. cur.core[1] = 0
    <3>1. PICK i \in 1 .. Len(t.core) : Group(t.core, i) > Group(cur.core, i)
      BY DEF CoreGreater
    <3>2. i = 1 /\ 1 \in Places /\ 1 \in 1 .. Len(t.core) /\ 1 \in 1 .. Len(cur.core)
      BY <1>1, <2>1, <3>1 DEF Places, Comparable
    <3>3. t.core[1] > cur.core[1]
      BY <1>1, <3>1, <3>2, GroupIs
    <3> QED BY <1>6, <2>1, <3>3 DEF Numbers
  <2>3. Digits(cur.core[1])[1] = 0
    BY <2>2 DEF Digits
  <2>4. Spell(cur)[n] < Spell(t)[n] /\ n \in 1 .. Len(Spell(t)) /\ n <= Len(Spell(cur)) + 1
    BY <1>2, <1>3, <1>4, <1>5, <1>12, <2>3
  <2>5. \A j \in 1 .. (n - 1) : Spell(cur)[j] = Spell(t)[j]
    BY <1>3, <1>4
  <2> QED BY <2>4, <2>5 DEF Precedes
<1> QED BY <1>10, <1>11, <1>12

LEMMA SpelledIs ==
  /\ \A t \in Tags : Spelled[t] = Spell(t) /\ Spelled[t] \in Texts /\ ~Precedes(Spelled[t], Spelled[t])
  /\ \A t, u \in Tags : t # u => Precedes(Spelled[t], Spelled[u]) \/ Precedes(Spelled[u], Spelled[t])
  /\ \A t, u, v \in Tags : Precedes(Spelled[t], Spelled[u]) /\ Precedes(Spelled[u], Spelled[v]) =>
                             Precedes(Spelled[t], Spelled[v])
<1>1. \A t \in Tags : Spelled[t] = Spell(t) /\ Spelled[t] \in Texts
  BY SpellIs, TagsAssumption DEF Spelled
<1>2. \A t, u \in Tags : t # u => Spelled[t] # Spelled[u]
  BY <1>1, TagsAssumption
<1>3. \A t \in Tags : ~Precedes(Spelled[t], Spelled[t])
  BY <1>1, PrecedesOrder
<1>4. ASSUME NEW t \in Tags, NEW u \in Tags, t # u
      PROVE  Precedes(Spelled[t], Spelled[u]) \/ Precedes(Spelled[u], Spelled[t])
  BY <1>1, <1>2, <1>4, PrecedesOrder
<1>5. ASSUME NEW t \in Tags, NEW u \in Tags, NEW v \in Tags,
             Precedes(Spelled[t], Spelled[u]), Precedes(Spelled[u], Spelled[v])
      PROVE  Precedes(Spelled[t], Spelled[v])
  BY <1>1, <1>5, PrecedesOrder
<1> QED BY <1>1, <1>3, <1>4, <1>5

(* A finite set of tags has a first and a last one. *)
LEMMA FirstListed ==
  ASSUME NEW S \in SUBSET Tags, IsFiniteSet(S), S # {}
  PROVE  \E m \in S : \A t \in S \ {m} : Precedes(Spelled[m], Spelled[t])
<1> DEFINE After == {p \in S \X S : Precedes(Spelled[p[1]], Spelled[p[2]])}
<1>1. \A a, b \in S : <<a, b>> \in After <=> Precedes(Spelled[a], Spelled[b])
  OBVIOUS
<1> HIDE DEF After
<1>2. \A a \in S : <<a, a>> \notin After
  BY <1>1, SpelledIs
<1>3. \A a, b, c \in S : <<a, b>> \in After /\ <<b, c>> \in After => <<a, c>> \in After
  BY <1>1, SpelledIs
<1>4. PICK m \in S : \A a \in S : <<a, m>> \notin After
  BY <1>2, <1>3, MaximumExists
<1>5. \A a \in S \ {m} : Precedes(Spelled[m], Spelled[a])
  BY <1>1, <1>4, SpelledIs
<1> QED BY <1>5

LEMMA LastListed ==
  ASSUME NEW S \in SUBSET Tags, IsFiniteSet(S), S # {}
  PROVE  LastOf(S) \in S /\ \A t \in S \ {LastOf(S)} : Precedes(Spelled[t], Spelled[LastOf(S)])
<1> DEFINE After == {p \in S \X S : Precedes(Spelled[p[2]], Spelled[p[1]])}
<1>1. \A a, b \in S : <<a, b>> \in After <=> Precedes(Spelled[b], Spelled[a])
  OBVIOUS
<1> HIDE DEF After
<1>2. \A a \in S : <<a, a>> \notin After
  BY <1>1, SpelledIs
<1>3. \A a, b, c \in S : <<a, b>> \in After /\ <<b, c>> \in After => <<a, c>> \in After
  BY <1>1, SpelledIs
<1>4. PICK m \in S : \A a \in S : <<a, m>> \notin After
  BY <1>2, <1>3, MaximumExists
<1>5. \A a \in S \ {m} : Precedes(Spelled[a], Spelled[m])
  BY <1>1, <1>4, SpelledIs
<1> QED BY <1>5 DEF LastOf

(* A page is the beginning of what is left of the listing. *)
LEMMA FirstTagsAre ==
  ASSUME NEW rest \in SUBSET Tags, IsFiniteSet(rest), NEW n \in Nat, n > 0
  PROVE  /\ FirstTags(rest, n) \in SUBSET rest
         /\ Cardinality(FirstTags(rest, n)) <= n
         /\ Cardinality(FirstTags(rest, n)) < n => FirstTags(rest, n) = rest
         /\ rest # {} => FirstTags(rest, n) # {}
         /\ \A t \in rest \ FirstTags(rest, n), u \in FirstTags(rest, n) : Precedes(Spelled[u], Spelled[t])
<1> DEFINE before == [t \in rest |-> {u \in rest : Precedes(Spelled[u], Spelled[t])}]
           first == FirstTags(rest, n)
<1>1. \A t \in rest : /\ before[t] \in SUBSET rest
                      /\ \A u \in rest : u \in before[t] <=> Precedes(Spelled[u], Spelled[t])
  OBVIOUS
<1>2. \A t \in rest : IsFiniteSet(before[t]) /\ Cardinality(before[t]) \in Nat
  <2> HIDE DEF before
  <2> QED BY <1>1, FS_Subset, FS_CardinalityType
<1>3. first \in SUBSET rest /\ \A t \in rest : t \in first <=> Cardinality(before[t]) < n
  BY DEF FirstTags
<1> HIDE DEF before, first
<1>4. IsFiniteSet(first) /\ Cardinality(first) \in Nat
  BY <1>3, FS_Subset, FS_CardinalityType
<1>5. ASSUME NEW t \in rest \ first, NEW u \in first PROVE Precedes(Spelled[u], Spelled[t])
  <2>1. t \in Tags /\ u \in Tags /\ t # u /\ u \in rest /\ t \in rest
    BY <1>3
  <2>2. SUFFICES ASSUME Precedes(Spelled[t], Spelled[u]) PROVE FALSE
    BY <2>1, SpelledIs
  <2>3. before[t] \in SUBSET before[u]
    BY <1>1, <2>1, <2>2, SpelledIs
  <2>4. Cardinality(before[t]) <= Cardinality(before[u])
    BY <1>2, <2>1, <2>3, FS_Subset
  <2> QED BY <1>2, <1>3, <2>1, <2>4
<1>6. ASSUME rest # {} PROVE first # {}
  <2>1. PICK m \in rest : \A t \in rest \ {m} : Precedes(Spelled[m], Spelled[t])
    BY <1>6, FirstListed
  <2>2. before[m] = {}
    <3>1. \A u \in rest : ~Precedes(Spelled[u], Spelled[m])
      BY <2>1, SpelledIs
    <3> QED BY <1>1, <3>1
  <2>3. Cardinality(before[m]) = 0
    BY <2>2, FS_EmptySet
  <2> QED BY <1>3, <2>3
<1>7. ASSUME first # rest PROVE Cardinality(first) >= n
  <2> DEFINE left == rest \ first
  <2>1. left \in SUBSET Tags /\ left # {} /\ IsFiniteSet(left) /\ left \in SUBSET rest
    BY <1>3, <1>7, FS_Subset
  <2>2. PICK m \in left : \A t \in left \ {m} : Precedes(Spelled[m], Spelled[t])
    <3> HIDE DEF left
    <3> QED BY <2>1, FirstListed
  <2>3. before[m] \in SUBSET first
    <3>1. \A u \in left : ~Precedes(Spelled[u], Spelled[m])
      BY <2>1, <2>2, SpelledIs
    <3> QED BY <1>1, <2>1, <3>1
  <2>4. Cardinality(before[m]) <= Cardinality(first)
    BY <1>4, <2>3, FS_Subset
  <2>5. ~(Cardinality(before[m]) < n)
    BY <1>3
  <2>6. Cardinality(before[m]) \in Nat
    BY <1>2
  <2> QED BY <1>4, <2>4, <2>5, <2>6
<1>8. Cardinality(first) <= n
  <2>1. CASE first = {}
    BY <2>1, FS_EmptySet
  <2>2. CASE first # {}
    <3>1. PICK m \in first : \A t \in first \ {m} : Precedes(Spelled[t], Spelled[m])
      BY <1>3, <1>4, <2>2, LastListed
    <3>2. m \in rest /\ IsFiniteSet(before[m]) /\ Cardinality(before[m]) \in Nat /\ Cardinality(before[m]) < n
      BY <1>2, <1>3
    <3>3. first \in SUBSET (before[m] \cup {m})
      BY <1>1, <1>3, <3>1, <3>2
    <3>4. /\ IsFiniteSet(before[m] \cup {m})
          /\ Cardinality(before[m] \cup {m}) \in {Cardinality(before[m]), Cardinality(before[m]) + 1}
      BY <3>2, FS_AddElement
    <3>5. Cardinality(first) <= Cardinality(before[m] \cup {m})
      BY <3>3, <3>4, FS_Subset
    <3> QED BY <1>4, <3>2, <3>4, <3>5
  <2> QED BY <2>1, <2>2
<1>9. Cardinality(first) < n => first = rest
  BY <1>4, <1>7
<1> QED BY <1>3, <1>5, <1>6, <1>8, <1>9 DEF first

(* A page that ends its walk as complete holds all that is left, and one that *)
(* does not leaves nothing behind it.                                          *)
LEMMA PageCovers ==
  ASSUME ImageTypeOK, IsFiniteSet(reg), NEW from
  PROVE  LET answered == TagsPage(from)
             n == Cardinality(answered.tags) IN
         /\ n > PageSize \/ (n < PageSize /\ ~answered.cursor) =>
              \A t \in reg : Precedes(from, Spelled[t]) => t \in answered.tags
         /\ n <= PageSize /\ answered.cursor =>
              \A t \in reg : Precedes(from, Spelled[t]) =>
                 t \in answered.tags \/ Precedes(Spell(LastOf(answered.tags)), Spelled[t])
<1> DEFINE answered == TagsPage(from)
           rest == {t \in reg : Precedes(from, Spelled[t])}
           page1 == FirstTags(rest, PageSize)
<1>0. PageSize \in Nat /\ PageSize > 0 /\ reg \in SUBSET Tags
  BY LimitsAssumption DEF ImageTypeOK
<1>1. rest \in SUBSET Tags /\ rest \in SUBSET reg /\ IsFiniteSet(rest)
  BY <1>0, FS_Subset
<1>r. \A t \in reg : Precedes(from, Spelled[t]) <=> t \in rest
  OBVIOUS
<1>2. CASE req.listing = "whole"
  <2>1. answered.tags = reg /\ answered.cursor = FALSE
    BY <1>2 DEF TagsPage
  <2> QED BY <2>1
<1>3. CASE req.listing # "whole"
  <2>1. /\ answered.tags = page1
        /\ answered.cursor => Cardinality(rest) > PageSize
    BY <1>3 DEF TagsPage
  <2> HIDE DEF answered, rest
  <2>2. /\ page1 \in SUBSET rest /\ Cardinality(page1) <= PageSize
        /\ Cardinality(page1) < PageSize => page1 = rest
        /\ rest # {} => page1 # {}
        /\ \A t \in rest \ page1, u \in page1 : Precedes(Spelled[u], Spelled[t])
    BY <1>0, <1>1, FirstTagsAre
  <2> HIDE DEF page1
  <2>3. IsFiniteSet(page1) /\ Cardinality(page1) \in Nat /\ Cardinality(rest) \in Nat
    BY <1>1, <2>2, FS_Subset, FS_CardinalityType
  <2>4. ~(Cardinality(page1) > PageSize)
    BY <1>0, <2>2, <2>3
  <2>5. Cardinality(answered.tags) > PageSize \/ (Cardinality(answered.tags) < PageSize /\ ~answered.cursor) =>
          \A t \in reg : Precedes(from, Spelled[t]) => t \in answered.tags
    BY <1>r, <2>1, <2>2, <2>4
  <2>6. ASSUME answered.cursor, NEW t \in reg, Precedes(from, Spelled[t])
        PROVE  t \in answered.tags \/ Precedes(Spell(LastOf(answered.tags)), Spelled[t])
    <3>1. t \in rest
      BY <1>r, <2>6
    <3>2. page1 # {} /\ page1 \in SUBSET Tags
      BY <1>1, <2>2, <3>1
    <3>3. LastOf(page1) \in page1 /\ LastOf(page1) \in Tags
      BY <2>3, <3>2, LastListed
    <3>4. Spelled[LastOf(page1)] = Spell(LastOf(page1))
      BY <3>3, SpelledIs
    <3> QED BY <2>1, <2>2, <3>1, <3>3, <3>4
  <2> QED BY <2>5, <2>6 DEF answered
<1> QED BY <1>2, <1>3

(* Each text to search behind, unless it is empty, is an anchor. *)
LEMMA AnchorsAre ==
  ASSUME NEW cur, NEW found
  PROVE  /\ Anchors(cur, found) \in Seq(ToSet(Anchors(cur, found)))
         /\ {Spell(found), WidthProbe(found)} \ {<<>>} \in SUBSET ToSet(Anchors(cur, found))
<1> DEFINE search == <<Spell(cur), Spell(found), WidthProbe(cur), WidthProbe(found)>>
           all == [i \in 1 .. 8 |-> LET anchor == search[(i + 1) \div 2]
                                    IN  IF i % 2 = 1 THEN anchor ELSE RolloverProbe(anchor)]
           fresh == {i \in DOMAIN all : all[i] # <<>> /\ \A j \in 1 .. (i - 1) : all[j] # all[i]}
           upTo == [i \in fresh |-> {j \in fresh : j <= i}]
           A == [n \in 1 .. Cardinality(fresh) |-> all[CHOOSE i \in fresh : Cardinality({j \in fresh : j <= i}) = n]]
<1>1. Anchors(cur, found) = A
  BY DEF Anchors
<1>2. all[3] = Spell(found) /\ all[7] = WidthProbe(found)
  <2>1. 3 \in 1 .. 8 /\ 7 \in 1 .. 8 /\ (3 + 1) \div 2 = 2 /\ (7 + 1) \div 2 = 4 /\ 3 % 2 = 1 /\ 7 % 2 = 1
    OBVIOUS
  <2>2. search[2] = Spell(found) /\ search[4] = WidthProbe(found)
    OBVIOUS
  <2> HIDE DEF search
  <2> QED BY <2>1, <2>2
<1>d. DOMAIN all = 1 .. 8
  OBVIOUS
<1> HIDE DEF all
<1>3. fresh \in SUBSET (1 .. 8) /\ IsFiniteSet(fresh) /\ Cardinality(fresh) \in Nat
  <2>1. fresh \in SUBSET (1 .. 8)
    BY <1>d
  <2>2. IsFiniteSet(1 .. 8)
    <3>1. 1 \in Int /\ 8 \in Int
      OBVIOUS
    <3> QED BY <3>1, FS_Interval
  <2> HIDE DEF fresh
  <2> QED BY <2>1, <2>2, FS_Subset, FS_CardinalityType
<1>4. ASSUME NEW k \in 1 .. 8, all[k] # <<>> PROVE \E i \in fresh : all[i] = all[k]
  <2> DEFINE same == {i \in Nat : i \in 1 .. 8 /\ all[i] = all[k]}
  <2>1. same \in SUBSET Nat /\ same # {}
    OBVIOUS
  <2>2. PICK i \in same : \A j \in same : i <= j
    <3> HIDE DEF same
    <3> QED BY <2>1, LeastNumber
  <2>3. ASSUME NEW j \in 1 .. (i - 1) PROVE all[j] # all[i]
    <3>1. j \in Nat /\ j \in 1 .. 8 /\ ~(i <= j)
      OBVIOUS
    <3> QED BY <2>2, <3>1
  <2>4. i \in fresh
    BY <1>4, <1>d, <2>3
  <2> QED BY <2>4
<1>5. \A i \in fresh : upTo[i] = {j \in fresh : j <= i} /\ \A j \in fresh : j \in upTo[i] <=> j <= i
  OBVIOUS
<1> HIDE DEF fresh
<1>6. \A i \in fresh : i \in 1 .. 8 /\ upTo[i] \in SUBSET fresh
  BY <1>3
<1> HIDE DEF upTo
<1>7. \A i \in fresh : /\ IsFiniteSet(upTo[i]) /\ Cardinality(upTo[i]) \in 1 .. Cardinality(fresh)
  <2> SUFFICES ASSUME NEW i \in fresh
               PROVE  IsFiniteSet(upTo[i]) /\ Cardinality(upTo[i]) \in 1 .. Cardinality(fresh)
    OBVIOUS
  <2>1. IsFiniteSet(upTo[i]) /\ Cardinality(upTo[i]) <= Cardinality(fresh) /\ Cardinality(upTo[i]) \in Nat
    BY <1>3, <1>6, FS_Subset, FS_CardinalityType
  <2>2. i \in upTo[i]
    BY <1>5, <1>6
  <2>3. Cardinality(upTo[i]) # 0
    BY <2>1, <2>2, FS_EmptySet
  <2> QED BY <1>3, <2>1, <2>3
<1>8. ASSUME NEW i \in fresh, NEW k \in fresh, Cardinality(upTo[i]) = Cardinality(upTo[k]) PROVE i = k
  <2>1. ASSUME NEW a \in fresh, NEW b \in fresh, a < b, Cardinality(upTo[a]) = Cardinality(upTo[b]) PROVE FALSE
    <3>1. upTo[a] \in SUBSET upTo[b] /\ b \in upTo[b] /\ b \notin upTo[a]
      BY <1>5, <1>6, <2>1
    <3>2. upTo[a] = upTo[b]
      BY <1>7, <2>1, <3>1, FS_Subset
    <3> QED BY <3>1, <3>2
  <2>2. i \in Nat /\ k \in Nat
    BY <1>6
  <2> QED BY <1>8, <2>1, <2>2
<1>9. ASSUME NEW i \in fresh PROVE \E n \in 1 .. Len(A) : A[n] = all[i]
  <2> DEFINE n == Cardinality(upTo[i])
  <2>1. n \in 1 .. Cardinality(fresh)
    BY <1>7
  <2>2. (CHOOSE k \in fresh : Cardinality({j \in fresh : j <= k}) = n) = i
    <3>1. \A k \in fresh : Cardinality({j \in fresh : j <= k}) = n <=> k = i
      BY <1>5, <1>8
    <3> QED BY <3>1
  <2>3. A[n] = all[i]
    BY <2>1, <2>2
  <2>4. Len(A) = Cardinality(fresh)
    BY <1>3
  <2> HIDE DEF n, A
  <2> QED BY <2>1, <2>3, <2>4
<1>10. A \in Seq(ToSet(A))
  <2>1. Len(A) = Cardinality(fresh) /\ DOMAIN A = 1 .. Len(A)
    BY <1>3
  <2>2. A = [n \in 1 .. Cardinality(fresh) |-> A[n]]
    OBVIOUS
  <2> HIDE DEF A
  <2>3. A \in [1 .. Len(A) -> ToSet(A)]
    BY <2>1, <2>2 DEF ToSet
  <2>4. Len(A) \in Nat
    BY <1>3, <2>1
  <2> QED BY <2>3, <2>4
<1> HIDE DEF A
<1>11. ASSUME NEW a \in {Spell(found), WidthProbe(found)} \ {<<>>} PROVE a \in ToSet(A)
  <2>1. PICK k \in {3, 7} : a = all[k]
    BY <1>2
  <2>2. k \in 1 .. 8 /\ all[k] # <<>>
    BY <2>1
  <2>3. PICK i \in fresh : all[i] = a
    BY <1>4, <2>1, <2>2
  <2> QED BY <1>9, <2>3 DEF ToSet
<1> QED BY <1>1, <1>10, <1>11

(* Has every tag behind a text been seen? *)
Behind(a) == \A t \in reg : Precedes(a, Spelled[t]) => t \in seen

AllAnchors == Anchors(req.tag, base)

(* What is left of the current walk lies behind where it goes on. *)
Walking ==
  stage = "walk" =>
    /\ anchors \in Seq(ToSet(AllAnchors))
    /\ exhaustive => \A t \in reg : Precedes(Head(anchors), Spelled[t]) => t \in seen \/ Precedes(after, Spelled[t])

(* As long as every walk came to the end of the listing, all is seen behind   *)
(* the anchors that are done with.                                            *)
Covered ==
  exhaustive /\ (stage \in {"walk", "rank", "verify"} \/ Compared) =>
    \A a \in ToSet(AllAnchors) : a \in ToSet(anchors) \/ Behind(a)

(* An answer from a part of the listing says so. *)
Told == Compared => exhaustive \/ note \cap {"windowed", "capped"} # {}

SearchInv == Walking /\ Covered /\ Told

LEMMA TailIs ==
  ASSUME NEW S, NEW s \in Seq(S), s # <<>>
  PROVE  /\ Tail(s) \in Seq(S) /\ \A a \in ToSet(s) : a = Head(s) \/ a \in ToSet(Tail(s))
<1>1. Tail(s) \in Seq(S) /\ Len(Tail(s)) = Len(s) - 1 /\ \A i \in 1 .. Len(Tail(s)) : Tail(s)[i] = s[i + 1]
  OBVIOUS
<1>2. Head(s) = s[1] /\ Len(s) \in Nat
  OBVIOUS
<1>3. ASSUME NEW i \in 1 .. Len(s), i # 1 PROVE s[i] \in ToSet(Tail(s))
  <2>1. i - 1 \in 1 .. Len(Tail(s)) /\ (i - 1) + 1 = i
    BY <1>1, <1>2, <1>3
  <2>2. Tail(s)[i - 1] = s[i]
    BY <1>1, <2>1
  <2>3. DOMAIN Tail(s) = 1 .. Len(Tail(s))
    BY <1>1
  <2> QED BY <2>1, <2>2, <2>3 DEF ToSet
<1> QED BY <1>1, <1>2, <1>3 DEF ToSet

LEMMA SearchStepInv == ASSUME ImageInv, SearchInv, [ImageNext]_imageVars PROVE SearchInv'
<1>0. /\ ImageTypeOK /\ IsFiniteSet(reg) /\ Fresh /\ Walking /\ Covered /\ Told
      /\ stage = "walk" <=> anchors # <<>>
  BY DEF ImageInv, SearchInv, ImageTypeOK
<1>e. ToSet(<<>>) = {}
  BY DEF ToSet
(* Nothing of the search changes, and no answer is given. *)
<1>1. ASSUME stage \notin {"walk", "rank", "verify"}, stage' \notin {"walk", "rank", "verify"}, ~Compared'
      PROVE SearchInv'
  BY <1>1 DEF SearchInv, Walking, Covered, Told
<1>2. ASSUME Fail PROVE SearchInv'
  BY <1>2 DEF Fail, SearchInv, Walking, Covered, Told, Compared
<1>3. ASSUME ResolveMeta PROVE SearchInv'
  <2>1. CASE Fail
    BY <1>2, <2>1
  <2>2. CASE \E tag, caveat : Resolved(tag, caveat)
    <3>1. stage' \in {"digest", "list", "dates"}
      BY <2>2 DEF Resolved, Compare
    <3> QED BY <3>1 DEF SearchInv, Walking, Covered, Told, Compared
  <2> QED BY <1>3, <2>1, <2>2 DEF ResolveMeta
<1>4. ASSUME TagDigest PROVE SearchInv'
  <2>1. stage' \in {"list", "dates"}
    BY <1>4 DEF TagDigest, Compare
  <2> QED BY <2>1 DEF SearchInv, Walking, Covered, Told, Compared
<1>5. ASSUME CompareDates PROVE SearchInv'
  <2>1. stage' = "done" /\ "dated" \in note'
    BY <1>5 DEF CompareDates
  <2> QED BY <2>1 DEF SearchInv, Walking, Covered, Told, Compared
<1>6. ASSUME List PROVE SearchInv'
  <2>1. /\ Enter(AllAnchors) /\ UNCHANGED <<reg, req, base, seen, exhaustive>>
    BY <1>6 DEF List, input, AllAnchors
  <2>2. AllAnchors' = AllAnchors
    BY <2>1 DEF AllAnchors
  <2>3. /\ anchors' = AllAnchors /\ stage' \in {"rank", "walk"}
        /\ stage' = "walk" => after' = Head(anchors')
    BY <2>1 DEF Enter
  <2>4. anchors' \in Seq(ToSet(AllAnchors))
    BY <2>3, AnchorsAre DEF AllAnchors
  <2>5. Walking'
    <3> HIDE DEF AllAnchors
    <3> QED BY <2>2, <2>3, <2>4 DEF Walking
  <2>6. Covered'
    BY <2>2, <2>3 DEF Covered
  <2>7. Told'
    BY <2>3 DEF Told, Compared
  <2> QED BY <2>5, <2>6, <2>7 DEF SearchInv
(* A walk ends: if it is complete, all behind its anchor is seen. *)
<1>7. ASSUME NEW complete \in BOOLEAN, stage = "walk", WalkEnds(complete), seen \in SUBSET seen',
             UNCHANGED <<reg, req, base>>,
             complete /\ exhaustive => \A t \in reg : Precedes(Head(anchors), Spelled[t]) => t \in seen'
      PROVE  SearchInv'
  <2>1. /\ exhaustive' = (complete /\ exhaustive) /\ anchors' = Tail(anchors)
        /\ stage' \in {"rank", "walk"} /\ (stage' = "walk" => after' = Head(anchors'))
    BY <1>7 DEF WalkEnds, Enter
  <2>2. AllAnchors' = AllAnchors /\ reg' = reg
    BY <1>7 DEF AllAnchors
  <2>3. anchors \in Seq(ToSet(AllAnchors)) /\ anchors # <<>>
    BY <1>0, <1>7 DEF Walking
  <2>4. anchors' \in Seq(ToSet(AllAnchors)) /\ \A a \in ToSet(anchors) : a = Head(anchors) \/ a \in ToSet(anchors')
    BY <2>1, <2>3, TailIs
  <2>5. Walking'
    BY <2>1, <2>2, <2>4 DEF Walking
  <2>6. ASSUME exhaustive', NEW a \in ToSet(AllAnchors) PROVE a \in ToSet(anchors') \/ Behind(a)'
    <3>1. complete /\ exhaustive
      BY <2>1, <2>6
    <3>2. a \in ToSet(anchors) \/ Behind(a)
      BY <1>0, <1>7, <2>6, <3>1 DEF Covered
    <3>3. Behind(a) => Behind(a)'
      BY <1>7, <2>2 DEF Behind
    <3>4. a = Head(anchors) => Behind(a)'
      BY <1>7, <2>2, <3>1 DEF Behind
    <3> QED BY <2>4, <3>2, <3>3, <3>4
  <2>7. Covered'
    BY <2>2, <2>6 DEF Covered
  <2>8. Told'
    BY <2>1 DEF Told, Compared
  <2> QED BY <2>5, <2>7, <2>8 DEF SearchInv
<1>8. ASSUME Page PROVE SearchInv'
  <2> DEFINE answered == TagsPage(after)
             n == Cardinality(answered.tags)
  <2>1. /\ stage = "walk" /\ seen' = seen \cup answered.tags
        /\ UNCHANGED <<reg, req, base, note, err>>
    BY <1>0, <1>8, PageIs DEF input, answer
  <2>2. PageEnds(answered) \/ PageGoesOn(answered)
    BY <1>0, <1>8, PageIs
  <2>3. /\ n > PageSize \/ (n < PageSize /\ ~answered.cursor) =>
              \A t \in reg : Precedes(after, Spelled[t]) => t \in answered.tags
        /\ n <= PageSize /\ answered.cursor =>
              \A t \in reg : Precedes(after, Spelled[t]) =>
                 t \in answered.tags \/ Precedes(Spell(LastOf(answered.tags)), Spelled[t])
    BY <1>0, PageCovers
  <2>4. exhaustive => \A t \in reg : Precedes(Head(anchors), Spelled[t]) => t \in seen \/ Precedes(after, Spelled[t])
    BY <1>0, <2>1 DEF Walking
  <2> HIDE DEF answered
  <2>5. CASE n > PageSize /\ WalkEnds(TRUE)
    <3>1. exhaustive => \A t \in reg : Precedes(Head(anchors), Spelled[t]) => t \in seen'
      BY <2>1, <2>3, <2>4, <2>5
    <3> QED BY <1>7, <2>1, <2>5, <3>1
  <2>6. CASE n <= PageSize /\ ~answered.cursor /\ WalkEnds(n < PageSize)
    <3> DEFINE full == n < PageSize
    <3>1. full /\ exhaustive => \A t \in reg : Precedes(Head(anchors), Spelled[t]) => t \in seen'
      BY <2>1, <2>3, <2>4, <2>6
    <3>2. full \in BOOLEAN /\ WalkEnds(full)
      BY <2>6
    <3> HIDE DEF full
    <3>3. seen \in SUBSET seen' /\ UNCHANGED <<reg, req, base>>
      BY <2>1
    <3> QED BY <1>7, <2>1, <3>1, <3>2, <3>3
  <2>7. CASE WalkEnds(FALSE)
    <3>1. seen \in SUBSET seen' /\ UNCHANGED <<reg, req, base>>
      BY <2>1
    <3> QED BY <1>7, <2>1, <2>7, <3>1
  <2>8. CASE PageGoesOn(answered)
    <3>1. /\ n <= PageSize /\ answered.cursor /\ after' = Spell(LastOf(answered.tags))
          /\ UNCHANGED <<anchors, exhaustive, stage>>
      BY <2>8 DEF PageGoesOn
    <3>2. AllAnchors' = AllAnchors
      BY <2>1 DEF AllAnchors
    <3>3. ASSUME exhaustive, NEW t \in reg, Precedes(Head(anchors), Spelled[t])
          PROVE  t \in seen' \/ Precedes(after', Spelled[t])
      BY <2>1, <2>3, <2>4, <3>1, <3>3
    <3>4. Walking'
      BY <1>0, <2>1, <3>1, <3>2, <3>3 DEF Walking
    <3>5. \A a : Behind(a) => Behind(a)'
      BY <2>1 DEF Behind
    <3>6. Covered'
      BY <1>0, <2>1, <3>1, <3>2, <3>5 DEF Covered
    <3>7. Told'
      BY <2>1, <3>1 DEF Told, Compared
    <3> QED BY <3>4, <3>6, <3>7 DEF SearchInv
  <2> QED BY <2>2, <2>5, <2>6, <2>7, <2>8 DEF PageEnds
<1>9. ASSUME PageFails PROVE SearchInv'
  <2>1. stage = "walk" /\ WalkEnds(FALSE) /\ seen \in SUBSET seen' /\ UNCHANGED <<reg, req, base>>
    BY <1>9 DEF PageFails, input
  <2> QED BY <1>7, <2>1
<1>10. ASSUME OutOfPages PROVE SearchInv'
  <2>1. stage = "walk" /\ WalkEnds(FALSE) /\ seen \in SUBSET seen' /\ UNCHANGED <<reg, req, base>>
    BY <1>10 DEF OutOfPages, input
  <2> QED BY <1>7, <2>1
(* What was seen stays seen: the search is over. *)
<1>11. ASSUME stage \in {"rank", "verify"}, stage' \in {"verify", "done"},
              UNCHANGED <<reg, req, base, anchors, seen, exhaustive>>, Told'
       PROVE  SearchInv'
  <2>1. AllAnchors' = AllAnchors /\ \A a : Behind(a)' <=> Behind(a)
    BY <1>11 DEF AllAnchors, Behind
  <2>2. Covered'
    BY <1>0, <1>11, <2>1 DEF Covered
  <2>3. Walking'
    BY <1>11 DEF Walking
  <2> QED BY <1>11, <2>2, <2>3 DEF SearchInv
<1>12. ASSUME Unreachable PROVE SearchInv'
  BY <1>2, <1>12 DEF Unreachable
<1>13. exhaustive \/ "windowed" \in Windowed
  BY DEF Windowed
<1>14. exhaustive \/ "capped" \in Exhausted
  BY DEF Exhausted
<1>15. ASSUME Rank PROVE SearchInv'
  <2>1. /\ stage = "rank" /\ stage' \in {"verify", "done"}
        /\ UNCHANGED <<reg, req, base, anchors, seen, exhaustive>>
    BY <1>15 DEF Rank, input, window
  <2>2. stage' = "done" => exhaustive \/ "windowed" \in note' \/ "capped" \in note'
    BY <1>13, <1>14, <1>15 DEF Rank
  <2>3. Told'
    BY <2>1, <2>2 DEF Told, Compared
  <2> QED BY <1>11, <2>1, <2>3
<1>16. ASSUME Verify PROVE SearchInv'
  <2>1. stage = "verify" /\ UNCHANGED <<reg, req, base, anchors, seen, exhaustive>>
    BY <1>16 DEF Verify, Survives, input, window
  <2>2. stage' = "verify" \/ (stage' = "done" /\ (exhaustive \/ "windowed" \in note'))
    BY <1>13, <1>16 DEF Verify, Survives
  <2>3. Told'
    BY <2>1, <2>2 DEF Told, Compared
  <2> QED BY <1>11, <2>1, <2>2, <2>3
<1>17. ASSUME NoneSurvived PROVE SearchInv'
  <2>1. /\ stage = "verify" /\ stage' = "done"
        /\ UNCHANGED <<reg, req, base, anchors, seen, exhaustive>>
        /\ exhaustive \/ "windowed" \in note'
    BY <1>13, <1>17 DEF NoneSurvived, input, window
  <2>2. Told'
    BY <2>1 DEF Told, Compared
  <2> QED BY <1>11, <2>1, <2>2
<1>18. ASSUME UNCHANGED imageVars PROVE SearchInv'
  <2>1. UNCHANGED <<reg, req, stage, base, resolved, anchors, after, page, budget, seen,
                    exhaustive, failed, skipped, latest, note, err>>
    BY <1>18 DEF imageVars
  <2>2. AllAnchors' = AllAnchors /\ (\A a : Behind(a)' <=> Behind(a)) /\ (Compared' <=> Compared)
    BY <2>1 DEF AllAnchors, Behind, Compared
  <2> QED BY <1>0, <2>1, <2>2 DEF SearchInv, Walking, Covered, Told
<1> QED BY <1>3, <1>4, <1>5, <1>6, <1>8, <1>9, <1>10, <1>12, <1>15, <1>16, <1>17, <1>18 DEF ImageNext

LEMMA SearchInvHolds == ImageSpec => [](ImageInv /\ SearchInv)
<1>1. ASSUME ImageInit PROVE SearchInv
  <2>1. stage \in {"list", "resolve"}
    BY <1>1 DEF ImageInit
  <2> QED BY <2>1 DEF SearchInv, Walking, Covered, Told, Compared
<1>2. ImageInit => ImageInv /\ SearchInv
  BY <1>1, ImageInitInv
<1>3. (ImageInv /\ SearchInv) /\ [ImageNext]_imageVars => (ImageInv /\ SearchInv)'
  BY ImageStepInv, SearchStepInv
<1> QED BY <1>2, <1>3, PTL DEF ImageSpec

(* A newer tag that was neither rejected nor left out with a word is one of  *)
(* a version below 1.                                                         *)
MissesBelowOne ==
  Compared => \A t \in reg \ skipped :
                Better(t) /\ t.core[1] # 0 => note \cap {"windowed", "capped", "stopped"} # {}

LEMMA OnlyBelowOne == ASSUME ImageInv, SearchInv PROVE MissesBelowOne
<1>0. ImageTypeOK /\ IsFiniteSet(reg) /\ Chosen /\ Covered /\ Told
  BY DEF ImageInv, SearchInv
<1>1. ASSUME Compared, exhaustive, NEW t \in reg, Outranks(t, base, req.scope), t.core[1] # 0 PROVE t \in seen
  <2>1. t \in Tags /\ t \in Shapes /\ base \in Shapes /\ stage = "done"
    BY <1>0, <1>1, TagsAssumption DEF ImageTypeOK, Compared
  <2>2. ComparableShapes(base, t) /\ CoreGreater(t.core, base.core) /\ Comparable(t) /\ Comparable(base)
    BY <1>1 DEF Outranks, ComparableShapes
  <2>3. PICK a \in {WidthProbe(base), Spell(base)} : Precedes(a, Spell(t))
    BY <1>1, <2>1, <2>2, NewerIsBehind
  <2>4. a # <<>>
    <3>1. base.pre \in Seq(Int)
      BY <2>1, ShapeHas
    <3>2. WidthProbe(base) # <<>>
      BY <2>2, <3>1 DEF WidthProbe
    <3>3. Spell(base) # <<>>
      <4>1. Len(Spell(base)) >= Len(base.pre) + 1
        BY <2>1, <2>2, SpellIs
      <4>2. Len(base.pre) \in Nat
        BY <3>1
      <4> QED BY <4>1, <4>2
    <3> QED BY <3>2, <3>3
  <2>5. a \in ToSet(AllAnchors)
    BY <2>3, <2>4, AnchorsAre DEF AllAnchors
  <2>6. anchors = <<>>
    BY <1>0, <2>1 DEF ImageTypeOK
  <2>7. Behind(a)
    <3>1. a \notin ToSet(anchors)
      BY <2>6 DEF ToSet
    <3> QED BY <1>0, <1>1, <2>5, <3>1 DEF Covered
  <2>8. Spelled[t] = Spell(t)
    BY <2>1, SpelledIs
  <2> QED BY <2>3, <2>7, <2>8 DEF Behind
<1>2. ASSUME Compared, NEW t \in reg \ skipped, Better(t), t.core[1] # 0
      PROVE  note \cap {"windowed", "capped", "stopped"} # {}
  <2>1. CASE ~exhaustive
    BY <1>0, <1>2, <2>1 DEF Told
  <2>2. CASE exhaustive
    <3>1. t \in seen
      BY <1>1, <1>2, <2>2 DEF Better
    <3>2. BestOffered
      BY BestIsOffered
    <3> QED BY <1>2, <3>1, <3>2 DEF BestOffered
  <2> QED BY <2>1, <2>2
<1> QED BY <1>2 DEF MissesBelowOne

(* Whatever a registry lists and however it pages: the only newer tags that an *)
(* answer passes over in silence are those of versions below 1, whose family   *)
(* is entered too late (imagelist.go:98, imagetag.go:317).                     *)
THEOREM SilentMissesAreBelowOne == ImageSpec => []MissesBelowOne
<1>1. ImageInv /\ SearchInv => MissesBelowOne
  BY OnlyBelowOne
<1> QED BY <1>1, SearchInvHolds, PTL

(* Where no tag has a version below 1 there is no silent miss (imagelist.go:35,*)
(* image.go:165-180, imageverify.go:55); the run ImageZeroMajor shows that the *)
(* hypothesis is needed.                                                       *)
THEOREM NoSilentMissFromOne ==
  ASSUME \A t \in Tags : Comparable(t) => t.core[1] # 0
  PROVE  ImageSpec => []NoSilentMiss
<1>1. ASSUME ImageInv, SearchInv PROVE NoSilentMiss
  <2>1. reg \in SUBSET Tags
    BY <1>1 DEF ImageInv, ImageTypeOK
  <2>2. \A t : Better(t) => Comparable(t)
    BY DEF Better, Outranks, ComparableShapes
  <2>3. MissesBelowOne
    BY <1>1, OnlyBelowOne
  <2> QED BY <2>1, <2>2, <2>3 DEF NoSilentMiss, MissesBelowOne
<1> QED BY <1>1, SearchInvHolds, PTL
=============================================================================
