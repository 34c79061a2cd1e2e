--------------------------- MODULE RidPoolProofs ---------------------------
(***************************************************************************)
(* For any set of processes, first RID and counter width: no RID is handed *)
(* out twice or below the first one until the counter wraps, and a lost    *)
(* race means that another call has committed.                             *)
(***************************************************************************)
EXTENDS RidPool, TLAPS

USE RidAssumption

\* `current + 1` stays a u32, and comes round to 0 at the top.
LEMMA SuccessorFacts ==
    ASSUME NEW n \in Rid
    PROVE  /\ Successor(n) \in Rid
           /\ Successor(n) = IF n = Width - 1 THEN 0 ELSE n + 1
BY DEF Rid, Successor

\* Every step of allocate_rid keeps the types: the counter stays a u32.
THEOREM RidTypeCorrect == Spec => []TypeOK
<1>1. Init => TypeOK
  BY Zenon DEF Init, TypeOK
<1>2. TypeOK /\ [Next]_vars => TypeOK'
  <2> SUFFICES ASSUME TypeOK, [Next]_vars PROVE TypeOK'
    OBVIOUS
  <2>1. CASE UNCHANGED vars
    BY <2>1 DEF TypeOK, vars
  <2>2. ASSUME NEW p \in Procs, Begin(p) PROVE TypeOK'
    BY <2>2 DEF TypeOK, Begin
  <2>3. ASSUME NEW p \in Procs, Read(p) PROVE TypeOK'
    BY <2>3 DEF TypeOK, Read, Cas
  <2>4. ASSUME NEW p \in Procs, Txn(p) PROVE TypeOK'
    <3>1. Current(alloc[p].seen) \in Rid
      BY <2>4 DEF TypeOK, Txn, Current, Rid, Idle, Reading
    <3>2. Successor(Current(alloc[p].seen)) \in Rid
      BY <3>1, SuccessorFacts
    <3>3. CASE Commit(p)
      <4>1. wrapped' \in BOOLEAN
        BY <3>3, Zenon DEF Commit
      <4>2. UNCHANGED granted
        BY <2>4 DEF Txn
      <4> QED
        BY <3>1, <3>2, <3>3, <4>1, <4>2 DEF TypeOK, Commit, Won
    <3>4. CASE Retry(p)
      BY <2>4, <3>4 DEF TypeOK, Txn, Retry
    <3> QED
      BY <2>4, <3>3, <3>4 DEF Txn
  <2>5. ASSUME NEW p \in Procs, Return(p) PROVE TypeOK'
    BY <2>5 DEF TypeOK, Return, Idle, Reading
  <2>6. ASSUME NEW p \in Procs, Fail(p) PROVE TypeOK'
    BY <2>6 DEF TypeOK, Fail
  <2> QED
    BY <2>1, <2>2, <2>3, <2>4, <2>5, <2>6 DEF Next
<1> QED
  BY <1>1, <1>2, PTL DEF Spec

-----------------------------------------------------------------------------
\* The RIDs drawn before the counter wraps: those below it, and all of them
\* when it has just come round to 0.
Drawn == CASE pool = Absent -> {}
           [] pool = 0      -> First..(Width - 1)
           [] OTHER         -> First..(pool - 1)

\* The inductive form of RidNeverReused: the counter sits just above every
\* RID drawn, so the next winner's RID is new.
RidInv ==
    ~wrapped =>
        /\ pool \in Rid \ {0} => pool > First
        /\ granted \subseteq Drawn
        /\ \A p \in Procs : alloc[p].at = "won" => alloc[p].rid \in Drawn \ granted
        /\ \A p, q \in Procs :
              alloc[p].at = "won" /\ alloc[q].at = "won" /\ alloc[p].rid = alloc[q].rid
                => p = q

\* No step of allocate_rid breaks RidInv.
LEMMA RidInvStep == TypeOK /\ RidInv /\ [Next]_vars => RidInv'
<1> SUFFICES ASSUME TypeOK, RidInv, [Next]_vars, ~wrapped' PROVE RidInv'
  BY DEF RidInv
<1>1. CASE UNCHANGED vars
  BY <1>1 DEF vars, RidInv, Drawn
<1>2. ASSUME NEW p \in Procs, Begin(p) \/ Read(p) \/ Fail(p) PROVE RidInv'
  <2>1. UNCHANGED <<pool, granted, wrapped>>
    BY <1>2 DEF Begin, Read, Fail
  <2>2. /\ alloc'[p].at # "won"
        /\ \A q \in Procs : q # p => alloc'[q] = alloc[q]
    BY <1>2 DEF Begin, Read, Fail, TypeOK, Idle, Reading, Cas
  <2> QED
    BY <2>1, <2>2 DEF RidInv, Drawn
<1>3. ASSUME NEW p \in Procs, Txn(p), pool = alloc[p].seen PROVE RidInv'
  <2> DEFINE rid == Current(alloc[p].seen)
  <2>1. /\ pool' = Successor(rid) /\ granted' = granted
        /\ ~wrapped /\ rid # 0
        /\ alloc'[p] = Won(rid)
        /\ \A q \in Procs : q # p => alloc'[q] = alloc[q]
    BY Zenon, <1>3 DEF Txn, Commit, TypeOK
  <2>2. rid \in Rid /\ rid >= First
    BY <1>3, <2>1 DEF RidInv, Current, TypeOK, Rid
  <2>3. Drawn = First..(rid - 1)
    BY <1>3, <2>1, <2>2 DEF RidInv, Current, TypeOK, Rid, Drawn
  <2>4. /\ pool' \in Rid
        /\ pool' = 0 => rid = Width - 1
        /\ pool' # 0 => pool' = rid + 1
    BY <2>1, <2>2, SuccessorFacts DEF Rid
  <2>5. Drawn' = First..rid
    BY <2>2, <2>4 DEF Drawn, Rid
  <2>6. Drawn \subseteq Drawn' /\ rid \in Drawn' /\ rid \notin Drawn
    BY <2>2, <2>3, <2>5 DEF Rid
  <2>7. alloc'[p].at = "won" /\ alloc'[p].rid = rid
    BY <2>1 DEF Won
  <2>8. pool' \in Rid \ {0} => pool' > First
    BY <2>2, <2>4 DEF Rid
  <2> HIDE DEF rid
  <2> QED
    BY <2>1, <2>6, <2>7, <2>8 DEF RidInv
<1>4. ASSUME NEW p \in Procs, Txn(p), pool # alloc[p].seen PROVE RidInv'
  <2>1. UNCHANGED <<pool, granted, wrapped>>
    BY <1>4 DEF Txn, Retry
  <2>2. /\ alloc'[p].at # "won"
        /\ \A q \in Procs : q # p => alloc'[q] = alloc[q]
    BY <1>4 DEF Txn, Retry, TypeOK, Reading
  <2> QED
    BY <2>1, <2>2 DEF RidInv, Drawn
<1>5. ASSUME NEW p \in Procs, Return(p) PROVE RidInv'
  <2>1. UNCHANGED <<pool, wrapped>> /\ granted' = granted \cup {alloc[p].rid}
    BY <1>5 DEF Return
  <2>2. /\ alloc'[p].at # "won" /\ alloc[p].at = "won"
        /\ \A q \in Procs : q # p => alloc'[q] = alloc[q]
    BY <1>5 DEF Return, TypeOK, Idle
  <2> QED
    BY <2>1, <2>2 DEF RidInv, Drawn
<1> QED
  BY <1>1, <1>2, <1>3, <1>4, <1>5 DEF Next

\* RIDs are unique (ridpool.rs:32-35) until the counter wraps.
THEOREM RidUnique == Spec => []RidNeverReused
<1>1. Init => RidInv
  BY DEF Init, RidInv, Idle, Rid
<1>2. TypeOK /\ RidInv => RidNeverReused
  <2> SUFFICES ASSUME TypeOK, RidInv, ~wrapped,
                      NEW p \in Procs, alloc[p].at = "won"
               PROVE  /\ alloc[p].rid \notin granted
                      /\ \A q \in Procs : alloc[q] = alloc[p] => q = p
    BY DEF RidNeverReused
  <2> QED
    BY DEF RidInv
<1> QED
  BY <1>1, <1>2, RidInvStep, RidTypeCorrect, PTL DEF Spec

\* RIDs stay out of the reserved range (ridpool.rs:23-26) until the wrap.
THEOREM RidReserved == Spec => []RidsAboveReserved
<1>1. Init => RidInv
  BY DEF Init, RidInv, Idle, Rid
<1>2. TypeOK /\ RidInv => RidsAboveReserved
  <2>1. ASSUME TypeOK, NEW r \in Drawn PROVE r >= First
    BY <2>1 DEF Drawn, TypeOK, Rid
  <2> QED
    BY <2>1 DEF RidInv, RidsAboveReserved
<1> QED
  BY <1>1, <1>2, RidInvStep, RidTypeCorrect, PTL DEF Spec

\* A lost race means that another call committed since the read.
THEOREM RidRetry == Spec => []RetryMeansProgress
<1>1. Init => RetryMeansProgress
  BY DEF Init, RetryMeansProgress, Idle
<1>2. TypeOK /\ RetryMeansProgress /\ [Next]_vars => RetryMeansProgress'
  <2> SUFFICES ASSUME TypeOK, RetryMeansProgress, [Next]_vars,
                      NEW q \in Procs, alloc'[q].at = "cas", q \notin beaten'
               PROVE  pool' = alloc'[q].seen
    BY DEF RetryMeansProgress
  <2>1. CASE UNCHANGED vars
    BY <2>1 DEF vars, RetryMeansProgress
  <2>2. ASSUME NEW p \in Procs, Begin(p) \/ Return(p) \/ Fail(p)
        PROVE  /\ UNCHANGED pool /\ alloc'[q] = alloc[q]
               /\ q \notin beaten
    BY <2>2 DEF Begin, Return, Fail, TypeOK, Idle, Reading
  <2>3. ASSUME NEW p \in Procs, Read(p)
        PROVE  /\ UNCHANGED <<pool, beaten>>
               /\ alloc'[q] = alloc[q] \/ alloc'[q] = Cas(pool)
    BY <2>3 DEF Read, TypeOK
  <2>4. ASSUME NEW p \in Procs, Txn(p)
        PROVE  /\ UNCHANGED pool /\ alloc'[q] = alloc[q]
               /\ q \notin beaten
    BY <2>4 DEF Txn, Commit, Retry, TypeOK, Won, Reading
  <2> QED
    BY <2>1, <2>2, <2>3, <2>4 DEF Next, RetryMeansProgress, Cas, TypeOK
<1> QED
  BY <1>1, <1>2, RidTypeCorrect, PTL DEF Spec
=============================================================================
