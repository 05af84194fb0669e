------------------------------ MODULE IndexCache ------------------------------
(***************************************************************************)
(* The registry cache of one scan: getOrDo of internal/registry/registry.go*)
(* (a memo in front of singleflight.Group) and the slot that lets one      *)
(* index.yaml be downloaded at a time (getIndex of charts.go).             *)
(*                                                                         *)
(* The checks of a scan run in parallel and look up the same registries.   *)
(* A fetch may itself look things up (an image check reads metadata, tag   *)
(* dates, signatures, and these the referrers): Parent says which call     *)
(* makes which.                                                            *)
(***************************************************************************)
EXTENDS Integers, FiniteSets

CONSTANTS
  Calls,      \* calls of getOrDo a scan may make
  Keys,       \* store name and key
  KeyOf,      \* [Calls -> Keys]
  Parent,     \* [Calls -> the call whose fetch makes it, or None]
  Indexes,    \* the keys of the helm-index store
  Slots,      \* maxConcurrentIndexFetches
  Hangs,      \* keys whose registry may exceed the HTTP client's timeout
  None

ASSUME CallsAssumption ==
  /\ KeyOf \in [Calls -> Keys]
  /\ Parent \in [Calls -> Calls \cup {None}]
  /\ IsFiniteSet(Calls)
ASSUME KeysAssumption == Indexes \subseteq Keys /\ Hangs \subseteq Keys
ASSUME SlotsAssumption == Slots \in Nat \ {0}

(* What a fetch returns: a value, an error, or that its context ended; n     *)
(* tells apart the answers of different fetches of one key.                  *)
Answers == [kind : {"value", "error", "ended"}, n : Nat]
ASSUME NoneAssumption == None \notin Answers /\ None \notin Calls

VARIABLES
  pc,         \* [Calls -> where the call is]
  ans,        \* [Calls -> what it returns, or None so far]
  memo,       \* [Keys -> the memoized answer, or None]
  flight,     \* [Keys -> the call that leads the singleflight of the key, or None]
  cancelled,  \* the scan's context has ended
  asked,      \* [Keys -> fetches started]
  unkept      \* [Keys -> fetches whose answer was not memoized]

vars == <<pc, ans, memo, flight, cancelled, asked, unkept>>

Init ==
  /\ pc = [c \in Calls |-> "idle"]
  /\ ans = [c \in Calls |-> None]
  /\ memo = [k \in Keys |-> None]
  /\ flight = [k \in Keys |-> None]
  /\ cancelled = FALSE
  /\ asked = [k \in Keys |-> 0]
  /\ unkept = [k \in Keys |-> 0]

----------------------------------------------------------------------------
(* The calls a fetch made and still waits for. *)
Pending(c) == {d \in Calls : Parent[d] = c /\ pc[d] \notin {"idle", "back"}}

Start(c) ==
  /\ pc[c] = "idle"
  /\ Parent[c] # None => pc[Parent[c]] = "fetch"
  /\ pc' = [pc EXCEPT ![c] = "look"]
  /\ UNCHANGED <<ans, memo, flight, cancelled, asked, unkept>>

(* fresh: a memoized answer is returned, an error like a value. *)
Look(c) ==
  LET m == memo[KeyOf[c]] IN
  /\ pc[c] = "look"
  /\ IF m # None THEN /\ pc' = [pc EXCEPT ![c] = "back"]
                      /\ ans' = [ans EXCEPT ![c] = m]
                 ELSE /\ pc' = [pc EXCEPT ![c] = "do"]
                      /\ ans' = ans
  /\ UNCHANGED <<memo, flight, cancelled, asked, unkept>>

(* singleflight.Do: lead the key, or wait for the call that does. *)
Do(c) ==
  LET k == KeyOf[c] IN
  /\ pc[c] = "do"
  /\ \/ /\ flight[k] = None
        /\ flight' = [flight EXCEPT ![k] = c]
        /\ pc' = [pc EXCEPT ![c] = "recheck"]
     \/ /\ flight[k] # None
        /\ pc' = [pc EXCEPT ![c] = "wait"]
        /\ UNCHANGED flight
  /\ UNCHANGED <<ans, memo, cancelled, asked, unkept>>

(* The fetch of c's key begins. *)
Ask(c) == asked' = [asked EXCEPT ![KeyOf[c]] = @ + 1]

(* Mutant: the leader does not look again. *)
RecheckNever(c) ==
  LET k == KeyOf[c] IN
  /\ pc[c] = "recheck"
  /\ IF k \in Indexes THEN pc' = [pc EXCEPT ![c] = "slot"] /\ UNCHANGED asked
                      ELSE pc' = [pc EXCEPT ![c] = "fetch"] /\ Ask(c)
  /\ UNCHANGED <<ans, memo, flight, cancelled, unkept>>

(* The leader looks again: the key may have been filled since it looked. *)
Recheck(c) ==
  LET k == KeyOf[c] IN
  /\ pc[c] = "recheck"
  /\ \/ /\ memo[k] # None
        /\ pc' = [pc EXCEPT ![c] = "leave"]
        /\ ans' = [ans EXCEPT ![c] = memo[k]]
        /\ UNCHANGED asked
     \/ /\ memo[k] = None /\ k \in Indexes
        /\ pc' = [pc EXCEPT ![c] = "slot"]
        /\ UNCHANGED <<ans, asked>>
     \/ /\ memo[k] = None /\ k \notin Indexes
        /\ pc' = [pc EXCEPT ![c] = "fetch"]
        /\ Ask(c)
        /\ UNCHANGED ans
  /\ UNCHANGED <<memo, flight, cancelled, unkept>>

(* The index downloads that hold a slot of fetchSem. *)
Downloads == {c \in Calls : pc[c] = "fetch" /\ KeyOf[c] \in Indexes}

SlotFree == Cardinality(Downloads) < Slots

(* getIndex takes a slot, or gives up when the context ends. *)
TakeSlot(c) ==
  /\ pc[c] = "slot"
  /\ \/ /\ SlotFree
        /\ pc' = [pc EXCEPT ![c] = "fetch"]
        /\ Ask(c)
        /\ UNCHANGED <<ans, unkept>>
     \/ /\ cancelled
        /\ pc' = [pc EXCEPT ![c] = "store"]
        /\ ans' = [ans EXCEPT ![c] = [kind |-> "ended", n |-> 0]]
        /\ UNCHANGED <<asked, unkept>>
  /\ UNCHANGED <<memo, flight, cancelled>>

(* The registry answers, the client's timeout expires (net/http reports it as *)
(* context.DeadlineExceeded), or the scan's context has ended.                *)
Fetch(c) ==
  LET k == KeyOf[c] IN
  /\ pc[c] = "fetch"
  /\ Pending(c) = {}
  /\ \E kind \in {"value", "error"} \cup (IF cancelled \/ k \in Hangs THEN {"ended"} ELSE {}) :
       /\ ans' = [ans EXCEPT ![c] = [kind |-> kind, n |-> asked[k]]]
       /\ unkept' = IF kind = "ended" THEN [unkept EXCEPT ![k] = @ + 1] ELSE unkept
  /\ pc' = [pc EXCEPT ![c] = "store"]
  /\ UNCHANGED <<memo, flight, cancelled, asked>>

(* Mutant: only values are worth keeping. *)
KeepsValues(a) == a.kind = "value"
Keeps(a) == a.kind # "ended"

(* The outcome is memoized, unless it only says that a context ended. *)
Store(c) ==
  /\ pc[c] = "store"
  /\ memo' = IF Keeps(ans[c]) THEN [memo EXCEPT ![KeyOf[c]] = ans[c]] ELSE memo
  /\ pc' = [pc EXCEPT ![c] = "leave"]
  /\ UNCHANGED <<ans, flight, cancelled, asked, unkept>>

(* Mutant: nobody is woken. *)
ServedAlone(c) == {c}

(* The leader and every call that waited for its flight. *)
Served(c) == {c} \cup {d \in Calls : pc[d] = "wait" /\ KeyOf[d] = KeyOf[c]}
AnswersOf(c) == [d \in Calls |-> ans[c]]

(* The flight ends: the key is free again and its answer is everybody's. *)
Leave(c) ==
  /\ pc[c] = "leave"
  /\ flight' = [flight EXCEPT ![KeyOf[c]] = None]
  /\ pc' = [d \in Calls |-> IF d \in Served(c) THEN "back" ELSE pc[d]]
  /\ ans' = [d \in Calls |-> IF d \in Served(c) THEN AnswersOf(c)[d] ELSE ans[d]]
  /\ UNCHANGED <<memo, cancelled, asked, unkept>>

(* scan_timeout, SIGTERM or the loss of the Lease. *)
Cancel ==
  /\ ~cancelled
  /\ cancelled' = TRUE
  /\ UNCHANGED <<pc, ans, memo, flight, asked, unkept>>

----------------------------------------------------------------------------
Step(c) == Look(c) \/ Do(c) \/ Recheck(c) \/ TakeSlot(c) \/ Fetch(c) \/ Store(c) \/ Leave(c)

Next == (\E c \in Calls : Start(c) \/ Step(c)) \/ Cancel

(* A call that was made goes on: requests end, by an answer or a timeout. *)
Fairness == \A c \in Calls : WF_vars(Step(c))

Spec == Init /\ [][Next]_vars /\ Fairness

----------------------------------------------------------------------------
(* Properties.                                                             *)

Leading == {"recheck", "slot", "fetch", "store", "leave"}

(* The type of the state; a call that returned has an answer. *)
TypeOK ==
  /\ pc \in [Calls -> Leading \cup {"idle", "look", "do", "wait", "back"}]
  /\ ans \in [Calls -> Answers \cup {None}]
  /\ \A c \in Calls : pc[c] = "back" => ans[c] # None
  /\ memo \in [Keys -> Answers \cup {None}]
  /\ flight \in [Keys -> Calls \cup {None}]
  /\ cancelled \in BOOLEAN
  /\ asked \in [Keys -> Nat]
  /\ unkept \in [Keys -> Nat]

(***************************************************************************)
(* However the lookups of a key interleave, it is fetched once, and again  *)
(* only after a fetch that an ended context cut short.                     *)
(***************************************************************************)
AskedOnce == \A k \in Keys : asked[k] <= 1 + unkept[k]

(***************************************************************************)
(* Within one scan every reference is compared with the same registry      *)
(* state: two lookups of a key that were answered got the same answer.     *)
(***************************************************************************)
SameAnswer ==
  \A c, d \in Calls :
    /\ pc[c] = "back" /\ pc[d] = "back" /\ KeyOf[c] = KeyOf[d]
    /\ ans[c].kind # "ended" /\ ans[d].kind # "ended"
    => ans[c] = ans[d]

(***************************************************************************)
(* Every lookup returns: nested lookups, joined flights and the download   *)
(* slot never wait for each other, and a leader that gave up takes nobody  *)
(* down with it.  (A call is made once, so that no call is under way again *)
(* and again is that each one returns.)                                    *)
(***************************************************************************)
EveryCallReturns == []<>(\A c \in Calls : pc[c] \in {"idle", "back"})

----------------------------------------------------------------------------
(* What makes AskedOnce and SameAnswer inductive.                          *)

(* The call that leads a key's flight is the only one past singleflight.Do. *)
LeaderOK ==
  \A c \in Calls : pc[c] \in Leading <=> flight[KeyOf[c]] = c

(* Nothing is memoized while the leader fetches: only it could do so. *)
MissOK ==
  \A c \in Calls : pc[c] \in {"slot", "fetch", "store"} => memo[KeyOf[c]] = None

(* An answer that was handed out and is not an ended context is the memoized one. *)
AnswerOK ==
  \A c \in Calls :
    /\ pc[c] \in {"store", "leave", "back"} => ans[c] # None
    /\ pc[c] \in {"leave", "back"} /\ ans[c].kind # "ended" => memo[KeyOf[c]] = ans[c]

(* The fetches of a key: those not kept, the memoized one, and the one under way. *)
UnderWay(k) ==
  \E c \in Calls : /\ KeyOf[c] = k
                   /\ pc[c] = "fetch" \/ (pc[c] = "store" /\ ans[c].kind # "ended")
CountOK ==
  \A k \in Keys :
    asked[k] = unkept[k] + (IF memo[k] # None \/ UnderWay(k) THEN 1 ELSE 0)

IInv == TypeOK /\ LeaderOK /\ MissOK /\ AnswerOK /\ CountOK
=============================================================================
