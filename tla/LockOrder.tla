------------------------------ MODULE LockOrder ------------------------------
(***************************************************************************)
(* The row locks of the transactions that meet at one pool.  Dispatch and  *)
(* Trip take a transaction as one step because its locks make it so; here  *)
(* a transaction takes its locks one at a time, waits for those others     *)
(* hold, and writes when it has them all.                                  *)
(*                                                                         *)
(* Every transaction locks the request it is about, then the pool, then    *)
(* the pool's members, then the driver.  The exception is a departure: it  *)
(* reads, before its transaction and without a lock, whose join offers it  *)
(* will cancel, and locks those requests before the pool.                  *)
(*                                                                         *)
(* Abstracted: who is offered what (Dispatch), the trip's commands after   *)
(* the departure (Trip), and stops and vehicles, which are locked only     *)
(* under the pool and the driver.  Members are locked in ascending request *)
(* id by the trip and in ascending member id by the fares: here in any     *)
(* order.  The share lock that inserting an offer takes on its driver is   *)
(* as strong as the others.                                                *)
(***************************************************************************)
EXTENDS FiniteSets

CONSTANTS
    Requests,       \* ride requests
    Transactions,   \* database sessions, each running one call at a time
    None

Pool == "POOL"
Driver == "DRIVER"
Locks == Requests \cup {Pool, Driver}

ASSUME LocksAssumption == {Pool, Driver, None} \cap Requests = {}
ASSUME NoneAssumption == None \notin {Pool, Driver}

VARIABLES
    request,    \* ride_requests.status: WAITING, MATCHED (a member) or ENDED
    offered,    \* the requests with a pending join offer of the pool
    pool,       \* ride_pools.status: NONE, FORMING or DEPARTED
    task        \* what each transaction runs, holds and waits for

vars == <<request, offered, pool, task>>

AboutRequest == {"INITIAL", "OFFER", "JOIN", "CLOSE"}
AboutPool == {"DEPART", "COMMAND", "REPAIR"}
Ops == AboutRequest \cup AboutPool \cup {"AVAILABILITY"}

Idle == [op |-> "NONE", of |-> None, want |-> None, todo |-> {}, held |-> {}, saw |-> {}]

TypeOK ==
    /\ request \in [Requests -> {"WAITING", "MATCHED", "ENDED"}]
    /\ offered \in SUBSET Requests
    /\ pool \in {"NONE", "FORMING", "DEPARTED"}
    /\ task \in [Transactions ->
                   [op : Ops \cup {"NONE"}, of : Requests \cup {None},
                    want : Locks \cup {None}, todo : SUBSET Requests,
                    held : SUBSET Locks, saw : SUBSET Requests]]

Init ==
    /\ request = [r \in Requests |-> "WAITING"]
    /\ offered = {}
    /\ pool = "NONE"
    /\ task = [t \in Transactions |-> Idle]

Members == {r \in Requests : request[r] = "MATCHED"}

Running(t) == task[t].op # "NONE"
MutantFree(t, l) ==  \* mutant: the pool is read without FOR UPDATE
    l = Pool \/ \A u \in Transactions \ {t} : l \notin task[u].held
Free(t, l) == \A u \in Transactions \ {t} : l \notin task[u].held

Release(t) == task' = [task EXCEPT ![t] = Idle]

(* k was granted the lock it waited for and asks for the next one: want,   *)
(* or one of todo.                                                         *)
Asking(k, want, todo, saw) ==
    [op |-> k.op, of |-> k.of, want |-> want, todo |-> todo,
     held |-> k.held \cup {k.want}, saw |-> saw]

Ask(t, want) ==
    task' = [task EXCEPT ![t] = Asking(task[t], want, task[t].todo, task[t].saw)]
AskEach(t, todo, saw, last) ==
    \E want \in IF todo = {} THEN {last} ELSE todo :
        task' = [task EXCEPT ![t] = Asking(task[t], want, todo \ {want}, saw)]

(***************************************************************************)
(* A call arrives.  A departure's unlocked read decides what it locks.     *)
(***************************************************************************)
Call(t, op, of, want, todo) ==
    /\ ~Running(t)
    /\ task' = [task EXCEPT ![t] = [op |-> op, of |-> of, want |-> want,
                                   todo |-> todo, held |-> {}, saw |-> {}]]
    /\ UNCHANGED <<request, offered, pool>>

CallAboutRequest(t) ==
    \E op \in AboutRequest, r \in Requests :
        /\ op \in {"OFFER", "JOIN"} => pool # "NONE"
        /\ Call(t, op, r, r, {})

CallAboutPool(t) ==
    \E op \in {"COMMAND", "REPAIR"} : pool # "NONE" /\ Call(t, op, None, Pool, {})

CallDepart(t) ==
    /\ pool # "NONE"
    /\ \E first \in IF offered = {} THEN {Pool} ELSE offered :
          Call(t, "DEPART", None, first, offered \ {first})

CallAvailability(t) == Call(t, "AVAILABILITY", None, Driver, {})

(***************************************************************************)
(* A lock is granted, and what it protects is read again.                  *)
(***************************************************************************)
Granted(t) == Running(t) /\ task[t].want # None /\ Free(t, task[t].want)

(* The offer is re-read, and the request must still be waiting.            *)
MutantStillOpen(op, r) ==  \* mutant: an acceptance trusts its first look
    op = "INITIAL" => request[r] = "WAITING"
StillOpen(op, r) ==
    /\ request[r] = "WAITING"
    /\ op = "OFFER" => r \notin offered
    /\ op = "JOIN" => r \in offered

(* The request a call is about, or one a departure read.                   *)
LockRequest(t) ==
    LET r == task[t].want IN
    /\ Granted(t) /\ r \in Requests /\ Pool \notin task[t].held
    /\ \/ task[t].op = "CLOSE" /\ Ask(t, None)
       \/ /\ task[t].op = "DEPART"
          /\ AskEach(t, task[t].todo, {}, Pool)
       \/ /\ task[t].op \in {"INITIAL", "OFFER", "JOIN"}
          /\ IF StillOpen(task[t].op, r)
             THEN Ask(t, IF task[t].op = "INITIAL" THEN Driver ELSE Pool)
             ELSE Release(t)
    /\ UNCHANGED <<request, offered, pool>>

(* After the members a command that applies locks the driver; a repeat, a  *)
(* join and a repair have all they need.                                   *)
AfterMembers(t) ==
    IF \/ task[t].op = "DEPART" /\ pool = "FORMING"
       \/ task[t].op = "COMMAND" /\ pool = "DEPARTED"
    THEN Driver ELSE None

(* The pool's status and its pending join are read again under its lock.   *)
MutantMayTakePool(t) ==  \* mutant: what was read before the lock is trusted
    task[t].op = "OFFER" => offered = {}
MayTakePool(t) ==
    /\ task[t].op \in {"OFFER", "JOIN"} => pool = "FORMING"
    /\ task[t].op = "OFFER" => offered = {}

LockPool(t) ==
    /\ Granted(t) /\ task[t].want = Pool
    /\ IF ~MayTakePool(t) THEN Release(t)
       ELSE \/ task[t].op = "OFFER" /\ Ask(t, Driver)
            \/ /\ task[t].op # "OFFER"
               /\ AskEach(t, Members \ task[t].held, Members, AfterMembers(t))
    /\ UNCHANGED <<request, offered, pool>>

LockMember(t) ==
    /\ Granted(t) /\ task[t].want \in Requests /\ Pool \in task[t].held
    /\ AskEach(t, task[t].todo, task[t].saw, AfterMembers(t))
    /\ UNCHANGED <<request, offered, pool>>

LockDriver(t) ==
    /\ Granted(t) /\ task[t].want = Driver
    /\ Ask(t, None)
    /\ UNCHANGED <<request, offered, pool>>

(***************************************************************************)
(* All locks are held: the transaction writes and commits.                 *)
(***************************************************************************)
Commits(t, op) == Running(t) /\ task[t].want = None /\ task[t].op = op /\ Release(t)

CommitInitial(t) ==
    /\ Commits(t, "INITIAL")
    /\ \/ /\ pool = "NONE"
          /\ pool' = "FORMING"
          /\ request' = [request EXCEPT ![task[t].of] = "MATCHED"]
       \/ UNCHANGED <<request, pool>>    \* an offer is inserted, or it is refused
    /\ UNCHANGED offered

CommitOffer(t) ==
    /\ Commits(t, "OFFER")
    /\ offered' = offered \cup {task[t].of}
    /\ UNCHANGED <<request, pool>>

CommitJoin(t) ==
    /\ Commits(t, "JOIN")
    /\ request' = [request EXCEPT ![task[t].of] = "MATCHED"]
    /\ offered' = offered \ {task[t].of}
    /\ UNCHANGED pool

(* A rejection or an expiry ends the offer, a cancellation also the        *)
(* request, the end of the search only the request.                        *)
CommitClose(t) ==
    LET r == task[t].of IN
    /\ Commits(t, "CLOSE")
    /\ \/ UNCHANGED request
       \/ request[r] = "WAITING" /\ request' = [request EXCEPT ![r] = "ENDED"]
    /\ offered' \in {offered, offered \ {r}}
    /\ UNCHANGED pool

MutantCommitDepart(t) ==  \* mutant: cancels the offers it read before its locks
    /\ Commits(t, "DEPART")
    /\ pool' = "DEPARTED"
    /\ offered' = IF pool = "FORMING" THEN offered \ task[t].held ELSE offered
    /\ UNCHANGED request
CommitDepart(t) ==
    /\ Commits(t, "DEPART")
    /\ pool' = "DEPARTED"
    /\ offered' = IF pool = "FORMING" THEN {} ELSE offered
    /\ UNCHANGED request

CommitOther(t) ==
    /\ \E op \in {"COMMAND", "REPAIR", "AVAILABILITY"} : Commits(t, op)
    /\ UNCHANGED <<request, offered, pool>>

(* A refusal, a time-out, or the victim of the deadlock detector.          *)
RollBack(t) == Running(t) /\ Release(t) /\ UNCHANGED <<request, offered, pool>>

Next ==
    \E t \in Transactions :
        \/ CallAboutRequest(t) \/ CallAboutPool(t) \/ CallDepart(t) \/ CallAvailability(t)
        \/ LockRequest(t) \/ LockPool(t) \/ LockMember(t) \/ LockDriver(t)
        \/ CommitInitial(t) \/ CommitOffer(t) \/ CommitJoin(t) \/ CommitClose(t)
        \/ CommitDepart(t) \/ CommitOther(t) \/ RollBack(t)

Spec == Init /\ [][Next]_vars

(***************************************************************************)
(* Safety.                                                                 *)
(***************************************************************************)
WaitsOn(t, u) == t # u /\ task[t].want # None /\ task[t].want \in task[u].held

(* Everybody in S waits for somebody in S.                                 *)
Deadlocked(S) == S # {} /\ \A t \in S : \E u \in S : WaitsOn(t, u)

(* A departure that has locked, before the pool, a passenger who became a  *)
(* member after its unlocked read.                                         *)
Overtaken(t) ==
    /\ task[t].op = "DEPART" /\ Pool \notin task[t].held
    /\ task[t].held \cap Members # {}

(* Without an overtaken departure no transactions wait for each other:     *)
(* the lock order holds for everything else, in whatever order members are *)
(* locked.                                                                 *)
OnlyDeparturesCollide ==
    \A S \in SUBSET Transactions : Deadlocked(S) => \E t \in S : Overtaken(t)

(* What a transaction read under the pool's lock is still so when it       *)
(* writes: nobody joined or left, and nobody departed meanwhile.           *)
Checked(k) ==
    Pool \in k.held =>
        /\ k.op # "OFFER" => k.saw = Members
        /\ k.op \in {"OFFER", "JOIN"} => pool = "FORMING"
        /\ k.op = "OFFER" => offered = {}
        /\ k.op = "JOIN" => request[k.of] = "WAITING"

ChecksStayTrue == \A t \in Transactions : Checked(task[t])

(* A departure closes the pool: it leaves no join offer behind, whenever   *)
(* the offer was made.                                                     *)
DepartedIsClosed == pool = "DEPARTED" => offered = {}

(* And nobody joins a pool that has departed.                              *)
NobodyJoinsUnderWay == [][pool = "DEPARTED" => Members' = Members]_vars

(* How far a transaction is: what it may hold when it asks for what.       *)
Stage(k) ==
    /\ k.op = "NONE" => k.held = {} /\ k.want = None
    /\ IF k.op \in AboutRequest
       THEN k.of \in Requests /\ (k.of \in k.held \/ (k.want = k.of /\ k.held = {}))
       ELSE k.of = None
    /\ k.op \in {"INITIAL", "OFFER", "JOIN"} /\ k.of \in k.held => request[k.of] = "WAITING"
    /\ k.op = "CLOSE" => k.want \in {k.of, None}
    /\ k.op \in {"OFFER", "JOIN"} \cup AboutPool =>
          pool # "NONE" /\ (k.want = None => Pool \in k.held)
    /\ k.want \in Requests /\ Pool \notin k.held => k.held = {} /\ k.todo = {}
    /\ k.want \in Requests /\ Pool \in k.held => {k.want} \cup k.todo \subseteq k.saw /\ k.op # "OFFER"
    /\ k.want = Pool => Pool \notin k.held /\ k.op \in {"OFFER", "JOIN"} \cup AboutPool
    /\ k.want = Driver => Pool \in k.held \/ k.op \in {"INITIAL", "AVAILABILITY"}
    /\ Driver \in k.held => k.want = None
    /\ Pool \in k.held => k.op \in {"OFFER", "JOIN"} \cup AboutPool
    /\ Pool \notin k.held /\ k.op # "DEPART" => k.held \subseteq {k.of, Driver}

(* What the proofs rest on: no lock has two holders, one join offer per    *)
(* pool, and the stages.                                                   *)
LocksAreHeld ==
    /\ \A t, u \in Transactions : t # u => task[t].held \cap task[u].held = {}
    /\ \A r, s \in offered : r = s
    /\ \A t \in Transactions : Stage(task[t])

=============================================================================
