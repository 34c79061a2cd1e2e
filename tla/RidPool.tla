------------------------------ MODULE RidPool ------------------------------
(***************************************************************************)
(* allocate_rid (iron-store, ridpool.rs): the per-partition RID counter at *)
(* /iron/<pid>/ridpool/next and the processes that draw from it with a     *)
(* read, compare, write loop.  A RID becomes the last sub-authority of an  *)
(* objectSid, so handing one out twice gives two principals one identity.  *)
(***************************************************************************)
EXTENDS Integers

CONSTANTS
    Procs,      \* processes that allocate from this partition's pool
    First,      \* FIRST_ALLOCATABLE_RID
    Width,      \* the counter is a u32: arithmetic is modulo Width
    Absent      \* the pool key does not exist yet

ASSUME RidAssumption ==
    /\ Width \in Nat /\ First \in 1..(Width - 1)
    /\ Absent \notin Int

VARIABLES
    pool,       \* the value under the pool key
    alloc,      \* alloc[p]: where p is in its call
    granted,    \* the RIDs calls have returned
    beaten,     \* history: calls before their Txn that another's has overtaken
    wrapped     \* history: a RID was drawn after the counter had wrapped

vars == <<pool, alloc, granted, beaten, wrapped>>

Rid == 0..(Width - 1)
Idle == [at |-> "idle"]
Reading == [at |-> "reading"]
Cas(seen) == [at |-> "cas", seen |-> seen]
Won(rid) == [at |-> "won", rid |-> rid]

TypeOK ==
    /\ pool \in Rid \cup {Absent}
    /\ alloc \in [Procs -> {Idle, Reading}
                    \cup [at : {"cas"}, seen : Rid \cup {Absent}]
                    \cup [at : {"won"}, rid : Rid]]
    /\ granted \subseteq Rid
    /\ beaten \subseteq Procs
    /\ wrapped \in BOOLEAN

Init ==
    /\ pool = Absent
    /\ alloc = [p \in Procs |-> Idle]
    /\ granted = {}
    /\ beaten = {}
    /\ wrapped = FALSE

-----------------------------------------------------------------------------
\* The RID a successful Txn returns: FIRST_ALLOCATABLE_RID for a missing key.
Current(seen) == IF seen = Absent THEN First ELSE seen

\* `current + 1` in a u32 (a release build wraps).
Successor(n) == (n + 1) % Width

\* A process enters allocate_rid.
Begin(p) ==
    /\ alloc[p] = Idle
    /\ alloc' = [alloc EXCEPT ![p] = Reading]
    /\ UNCHANGED <<pool, granted, beaten, wrapped>>

\* Top of the loop: a linearizable read of the pool key.
Read(p) ==
    /\ alloc[p] = Reading
    /\ alloc' = [alloc EXCEPT ![p] = Cas(pool)]
    /\ UNCHANGED <<pool, granted, beaten, wrapped>>

\* The put of a Txn that commits, and the answer its caller gets.
Commit(p) ==
    /\ pool' = Successor(Current(alloc[p].seen))
    /\ alloc' = [alloc EXCEPT ![p] = Won(Current(alloc[p].seen))]
    /\ beaten' = {q \in Procs : alloc[q].at = "cas"} \ {p}
    /\ wrapped' = (wrapped \/ Current(alloc[p].seen) = 0)

\* The answer of a Txn whose comparison failed: back to the read.
Retry(p) ==
    /\ alloc' = [alloc EXCEPT ![p] = Reading]
    /\ beaten' = beaten \ {p}
    /\ UNCHANGED <<pool, wrapped>>

\* Mutant: the Txn compares nothing, as index.rs's Txns do.
UnguardedTxn(p) ==
    /\ alloc[p].at = "cas" /\ UNCHANGED granted
    /\ Commit(p)

\* Mutant: the Txn is guarded on the key still being absent, always.
CreateOnlyTxn(p) ==
    /\ alloc[p].at = "cas" /\ UNCHANGED granted
    /\ \/ pool = Absent /\ Commit(p)
       \/ pool # Absent /\ Retry(p)

\* The Txn, guarded on the value read (or on the key still being absent).
Txn(p) ==
    /\ alloc[p].at = "cas" /\ UNCHANGED granted
    /\ \/ pool = alloc[p].seen /\ Commit(p)
       \/ pool # alloc[p].seen /\ Retry(p)

\* The answer arrives and the call returns the RID.
Return(p) ==
    /\ alloc[p].at = "won"
    /\ granted' = granted \cup {alloc[p].rid}
    /\ alloc' = [alloc EXCEPT ![p] = Idle]
    /\ UNCHANGED <<pool, beaten, wrapped>>

\* The process crashes, or a request fails, at any point of the call: before
\* the Txn nothing has happened, after it the RID is burnt.
Fail(p) ==
    /\ alloc[p] # Idle
    /\ alloc' = [alloc EXCEPT ![p] = Idle]
    /\ beaten' = beaten \ {p}
    /\ UNCHANGED <<pool, granted, wrapped>>

Step(p) == Read(p) \/ Txn(p) \/ Return(p)
Next == \E p \in Procs : Begin(p) \/ Read(p) \/ Txn(p) \/ Return(p) \/ Fail(p)

Spec == Init /\ [][Next]_vars

\* A call that neither crashes nor fails keeps running: tokio polls it and
\* fastetcd answers.  Nothing bounds how often the others call.
FairSpec == Spec /\ \A p \in Procs : WF_vars(Step(p))

-----------------------------------------------------------------------------
\* A RID about to be returned has never been returned, and no other call
\* holds it, across processes, crashes and lost answers ("Never returns the
\* same RID twice", ridpool.rs:32-35), until the u32 counter has wrapped.
RidNeverReused ==
    ~wrapped =>
        \A p \in Procs : alloc[p].at = "won" =>
            /\ alloc[p].rid \notin granted
            /\ \A q \in Procs : alloc[q] = alloc[p] => q = p

\* No allocated RID falls into the range reserved for well-known principals
\* (ridpool.rs:23-26), until the u32 counter has wrapped.
RidsAboveReserved ==
    ~wrapped =>
        \A r \in granted \cup {alloc[p].rid : p \in {q \in Procs : alloc[q].at = "won"}} :
            r >= First

\* A call whose read is still current wins: it loses the race only to a Txn
\* committed since its read ("Someone else won the race", ridpool.rs:58).
RetryMeansProgress ==
    \A p \in Procs :
        alloc[p].at = "cas" /\ p \notin beaten => pool = alloc[p].seen

\* The retry loop (ridpool.rs:38-59) is lock-free and not wait-free: a call may
\* starve, but only while the counter moves on for ever, that is, while other
\* calls keep winning RIDs.  Calls never keep each other retrying for nothing.
StarvedOnlyByWinners ==
    \A p \in Procs : <>[](alloc[p] # Idle) => []<><<pool' # pool>>_vars
=============================================================================
