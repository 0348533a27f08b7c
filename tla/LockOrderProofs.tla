--------------------------- MODULE LockOrderProofs ---------------------------
(***************************************************************************)
(* What the locks at a pool guarantee, for any number of requests and      *)
(* transactions: a command's checks stay true until it writes, and only a  *)
(* departure can be part of a deadlock.                                    *)
(***************************************************************************)
EXTENDS LockOrder, TLAPS

Inv == TypeOK /\ LocksAreHeld /\ ChecksStayTrue /\ DepartedIsClosed

Tasks == [op : Ops \cup {"NONE"}, of : Requests \cup {None},
          want : Locks \cup {None}, todo : SUBSET Requests,
          held : SUBSET Locks, saw : SUBSET Requests]

(* A transaction that writes nothing keeps the invariant if what it is     *)
(* doing next is in order.                                                 *)
LEMMA ReadStep ==
    ASSUME Inv, NEW t \in Transactions, NEW k \in Tasks,
           UNCHANGED <<request, offered, pool>>,
           task' = [task EXCEPT ![t] = k],
           \A u \in Transactions \ {t} : k.held \cap task[u].held = {},
           Stage(k), Checked(k)
    PROVE  Inv'
<1>1. task \in [Transactions -> Tasks] BY DEF Inv, TypeOK, Tasks
<1>2. task' \in [Transactions -> Tasks] BY <1>1
<1>3. \A u \in Transactions : task'[u] = IF u = t THEN k ELSE task[u] BY <1>1
<1>4. TypeOK' BY <1>2 DEF Inv, TypeOK, Tasks
<1>5. LocksAreHeld'
  <2>1. \A u, v \in Transactions : u # v => task'[u].held \cap task'[v].held = {}
    BY <1>3 DEF Inv, LocksAreHeld
  <2>2. ASSUME NEW u \in Transactions PROVE Stage(task'[u])
    BY <1>3 DEF Inv, LocksAreHeld
  <2>3. \A u \in Transactions : Stage(task[u])' BY <2>2 DEF Stage
  <2> QED BY <2>1, <2>3 DEF Inv, LocksAreHeld
<1>6. ChecksStayTrue'
  <2>1. ASSUME NEW u \in Transactions PROVE Checked(task'[u])
    BY <1>3 DEF Inv, ChecksStayTrue
  <2> QED BY <2>1 DEF ChecksStayTrue, Checked, Members
<1>7. DepartedIsClosed' BY DEF Inv, DepartedIsClosed
<1> QED BY <1>4, <1>5, <1>6, <1>7 DEF Inv

LEMMA ReleaseIsFine ==
    ASSUME Inv, NEW t \in Transactions, Release(t), UNCHANGED <<request, offered, pool>>
    PROVE  Inv'
<1>1. Idle \in Tasks BY DEF Idle, Tasks
<1>2. Stage(Idle) BY LocksAssumption, NoneAssumption DEF Stage, Idle, AboutRequest, AboutPool, Pool
<1>3. Checked(Idle) BY DEF Checked, Idle
<1>4. \A u \in Transactions \ {t} : Idle.held \cap task[u].held = {} BY DEF Idle
<1> QED BY <1>1, <1>2, <1>3, <1>4, ReadStep DEF Release

(* A granted lock had no other holder.                                     *)
LEMMA GrantedIsFree ==
    ASSUME Inv, NEW t \in Transactions, Granted(t), NEW want, NEW todo, NEW saw
    PROVE  \A u \in Transactions \ {t} : Asking(task[t], want, todo, saw).held \cap task[u].held = {}
BY DEF Inv, LocksAreHeld, Granted, Free, Asking

LEMMA AskingIsTyped ==
    ASSUME Inv, NEW t \in Transactions, Granted(t), NEW want \in Locks \cup {None},
           NEW todo \in SUBSET Requests, NEW saw \in SUBSET Requests
    PROVE  Asking(task[t], want, todo, saw) \in Tasks
BY DEF Inv, TypeOK, Granted, Asking, Tasks

(* The step that follows a grant.                                          *)
LEMMA AskStep ==
    ASSUME Inv, NEW t \in Transactions, Granted(t), UNCHANGED <<request, offered, pool>>,
           NEW want \in Locks \cup {None},
           NEW todo \in SUBSET Requests, NEW saw \in SUBSET Requests,
           task' = [task EXCEPT ![t] = Asking(task[t], want, todo, saw)],
           Stage(Asking(task[t], want, todo, saw)),
           Checked(Asking(task[t], want, todo, saw))
    PROVE  Inv'
<1> DEFINE k == Asking(task[t], want, todo, saw)
<1>1. k \in Tasks BY AskingIsTyped
<1>2. \A u \in Transactions \ {t} : k.held \cap task[u].held = {} BY GrantedIsFree
<1> HIDE DEF k
<1>3. task' = [task EXCEPT ![t] = k] /\ Stage(k) /\ Checked(k) BY DEF k
<1> QED BY <1>1, <1>2, <1>3, ReadStep

(***************************************************************************)
(* The steps that only read.                                               *)
(***************************************************************************)
LEMMA CallKeeps ==
    ASSUME Inv, NEW t \in Transactions,
           CallAboutRequest(t) \/ CallAboutPool(t) \/ CallDepart(t) \/ CallAvailability(t)
    PROVE  Inv'
<1>1. ASSUME NEW op \in Ops, NEW of \in Requests \cup {None}, NEW want \in Locks,
             NEW todo \in SUBSET Requests, Call(t, op, of, want, todo),
             op \in {"OFFER", "JOIN"} \cup AboutPool => pool # "NONE",
             IF op \in AboutRequest THEN of \in Requests /\ want = of ELSE of = None,
             want \in Requests => todo = {},
             want = Pool => op \in AboutPool,
             want = Driver => op = "AVAILABILITY"
      PROVE  Inv'
  <2> DEFINE k == [op |-> op, of |-> of, want |-> want, todo |-> todo, held |-> {}, saw |-> {}]
  <2>2. k \in Tasks BY <1>1 DEF Tasks
  <2>3. Stage(k)
    BY <1>1, LocksAssumption, NoneAssumption
    DEF Stage, Ops, AboutRequest, AboutPool, Locks, Pool, Driver
  <2>4. Checked(k) BY DEF Checked
  <2>5. \A u \in Transactions \ {t} : k.held \cap task[u].held = {} OBVIOUS
  <2> QED BY <1>1, <2>2, <2>3, <2>4, <2>5, ReadStep DEF Call
<1>2. CASE CallAboutRequest(t)
  BY <1>1, <1>2, LocksAssumption DEF CallAboutRequest, Ops, AboutRequest, AboutPool, Locks
<1>3. CASE CallAboutPool(t)
  BY <1>1, <1>3, LocksAssumption DEF CallAboutPool, Ops, AboutRequest, AboutPool, Locks, Pool, Driver
<1>4. CASE CallDepart(t)
  <2>1. PICK first \in IF offered = {} THEN {Pool} ELSE offered :
           Call(t, "DEPART", None, first, offered \ {first})
    BY <1>4 DEF CallDepart
  <2>2. first \in Locks /\ offered \ {first} = {} /\ first # Driver
    BY <2>1, LocksAssumption DEF Inv, TypeOK, LocksAreHeld, Locks, Pool, Driver
  <2> QED BY <1>1, <1>4, <2>1, <2>2 DEF CallDepart, Ops, AboutRequest, AboutPool
<1>5. CASE CallAvailability(t)
  BY <1>1, <1>5, LocksAssumption DEF CallAvailability, Ops, AboutRequest, AboutPool, Locks, Pool, Driver
<1> QED BY <1>2, <1>3, <1>4, <1>5

LEMMA LockRequestKeeps ==
    ASSUME Inv, NEW t \in Transactions, LockRequest(t) PROVE Inv'
<1> DEFINE r == task[t].want
<1>1. /\ Granted(t) /\ r \in Requests /\ task[t].held = {} /\ task[t].todo = {}
      /\ UNCHANGED <<request, offered, pool>>
  BY DEF LockRequest, Inv, LocksAreHeld, Stage
<1>2. Stage(task[t]) /\ task[t] \in Tasks
  BY DEF Inv, LocksAreHeld, TypeOK, Tasks
<1>3. ASSUME NEW want \in Locks \cup {None},
             task' = [task EXCEPT ![t] = Asking(task[t], want, {}, task[t].saw)],
             Stage(Asking(task[t], want, {}, task[t].saw))
      PROVE  Inv'
  <2>1. task[t].saw \in SUBSET Requests BY <1>2 DEF Tasks
  <2>2. Checked(Asking(task[t], want, {}, task[t].saw))
    BY <1>1, LocksAssumption DEF Checked, Asking, Pool
  <2> QED BY <1>1, <1>3, <2>1, <2>2, AskStep
<1>4. CASE task[t].op = "CLOSE" /\ Ask(t, None)
  <2>1. Stage(Asking(task[t], None, {}, task[t].saw))
    BY <1>1, <1>2, <1>4, LocksAssumption, NoneAssumption
    DEF Stage, Asking, AboutRequest, AboutPool, Pool, Driver
  <2> QED BY <1>1, <1>3, <1>4, <2>1 DEF Ask
<1>5. CASE task[t].op = "DEPART" /\ AskEach(t, task[t].todo, {}, Pool)
  <2>0. {} \ {Pool} = {} OBVIOUS
  <2>1. task' = [task EXCEPT ![t] = Asking(task[t], Pool, {}, {})]
    BY <1>1, <1>5, <2>0 DEF AskEach
  <2>2. Stage(Asking(task[t], Pool, {}, {})) /\ Checked(Asking(task[t], Pool, {}, {}))
    BY <1>1, <1>2, <1>5, LocksAssumption, NoneAssumption
    DEF Stage, Checked, Asking, AboutRequest, AboutPool, Pool, Driver
  <2> QED BY <1>1, <2>1, <2>2, AskStep DEF Locks
<1>6. CASE /\ task[t].op \in {"INITIAL", "OFFER", "JOIN"} /\ StillOpen(task[t].op, r)
           /\ Ask(t, IF task[t].op = "INITIAL" THEN Driver ELSE Pool)
  <2> DEFINE want == IF task[t].op = "INITIAL" THEN Driver ELSE Pool
  <2>1. Stage(Asking(task[t], want, {}, task[t].saw))
    BY <1>1, <1>2, <1>6, LocksAssumption, NoneAssumption
    DEF Stage, Asking, AboutRequest, AboutPool, Pool, Driver, StillOpen
  <2>2. want \in Locks BY DEF Locks
  <2> QED BY <1>1, <1>3, <1>6, <2>1, <2>2 DEF Ask
<1>7. CASE Release(t) BY <1>1, <1>7, ReleaseIsFine
<1> QED BY <1>4, <1>5, <1>6, <1>7 DEF LockRequest

LEMMA LockPoolKeeps ==
    ASSUME Inv, NEW t \in Transactions, LockPool(t) PROVE Inv'
<1> DEFINE todo == Members \ task[t].held
<1>1. Granted(t) /\ task[t].want = Pool /\ UNCHANGED <<request, offered, pool>>
  BY DEF LockPool
<1>2. /\ Stage(task[t]) /\ task[t] \in Tasks /\ Pool \notin Requests
      /\ Pool # None /\ Pool # Driver /\ Members \subseteq Requests
  BY LocksAssumption, NoneAssumption
  DEF Inv, LocksAreHeld, TypeOK, Tasks, Pool, Driver, Members
<1>3. CASE Release(t) BY <1>1, <1>3, ReleaseIsFine
<1>4. CASE MayTakePool(t) /\ task[t].op = "OFFER" /\ Ask(t, Driver)
  <2> DEFINE k == Asking(task[t], Driver, task[t].todo, task[t].saw)
  <2>1. Stage(k)
    BY <1>1, <1>2, <1>4, LocksAssumption, NoneAssumption
    DEF Stage, Asking, AboutRequest, AboutPool, Pool, Driver, MayTakePool
  <2>2. Checked(k) BY <1>1, <1>4 DEF Checked, Asking, MayTakePool
  <2>3. Driver \in Locks /\ task[t].todo \in SUBSET Requests /\ task[t].saw \in SUBSET Requests
    BY <1>2 DEF Tasks, Locks
  <2>4. task' = [task EXCEPT ![t] = k] BY <1>4 DEF Ask
  <2> QED BY <1>1, <2>1, <2>2, <2>3, <2>4, AskStep
<1>5. CASE /\ MayTakePool(t) /\ task[t].op # "OFFER"
           /\ AskEach(t, todo, Members, AfterMembers(t))
  <2>1. PICK want \in IF todo = {} THEN {AfterMembers(t)} ELSE todo :
           task' = [task EXCEPT ![t] = Asking(task[t], want, todo \ {want}, Members)]
    BY <1>5 DEF AskEach
  <2> DEFINE k == Asking(task[t], want, todo \ {want}, Members)
  <2>2. want \in (Members \ task[t].held) \cup {AfterMembers(t)} BY <2>1
  <2>3. want \in Members \/ (want = None /\ want \notin Requests) \/ want = Driver
    BY <2>2, LocksAssumption DEF AfterMembers
  <2>4. task[t].op \in {"JOIN"} \cup AboutPool
    BY <1>1, <1>2, <1>5, LocksAssumption, NoneAssumption
    DEF Stage, Tasks, Ops, AboutRequest, AboutPool, Pool, Driver
  <2>5. Stage(k)
    <3>1. Driver \notin task[t].held /\ Pool \notin task[t].held
      BY <1>1, <1>2 DEF Stage
    <3>2. task[t].op = "JOIN" => task[t].of \in Requests /\ task[t].of \in task[t].held
      BY <1>1, <1>2 DEF Stage, AboutRequest
    <3> QED BY <1>1, <1>2, <2>3, <2>4, <3>1, <3>2, LocksAssumption, NoneAssumption
            DEF Stage, Asking, AboutRequest, AboutPool, Pool, Driver
  <2>6. Checked(k)
    BY <1>1, <1>2, <1>5, <2>4, LocksAssumption, NoneAssumption
    DEF Checked, Asking, MayTakePool, Stage, AboutRequest, AboutPool
  <2>7. want \in Locks \cup {None} /\ todo \ {want} \in SUBSET Requests /\ Members \in SUBSET Requests
    BY <1>2, <2>3 DEF Locks
  <2> QED BY <1>1, <2>1, <2>5, <2>6, <2>7, AskStep
<1> QED BY <1>3, <1>4, <1>5 DEF LockPool

LEMMA LockMemberKeeps ==
    ASSUME Inv, NEW t \in Transactions, LockMember(t) PROVE Inv'
<1> DEFINE todo == task[t].todo
           saw == task[t].saw
<1>1. /\ Granted(t) /\ task[t].want \in Requests /\ Pool \in task[t].held
      /\ UNCHANGED <<request, offered, pool>>
      /\ AskEach(t, todo, saw, AfterMembers(t))
  BY DEF LockMember
<1>2. Stage(task[t]) /\ Checked(task[t]) /\ task[t] \in Tasks
  BY DEF Inv, LocksAreHeld, ChecksStayTrue, TypeOK, Tasks
<1>3. PICK want \in IF todo = {} THEN {AfterMembers(t)} ELSE todo :
         task' = [task EXCEPT ![t] = Asking(task[t], want, todo \ {want}, saw)]
  BY <1>1 DEF AskEach
<1> DEFINE k == Asking(task[t], want, todo \ {want}, saw)
<1>4. want \in todo \/ (want = None /\ want \notin Requests) \/ (want = Driver /\ want \notin Requests)
  BY <1>3, LocksAssumption DEF AfterMembers
<1>5. todo \subseteq saw /\ saw \subseteq Requests /\ task[t].op # "OFFER"
  BY <1>1, <1>2 DEF Stage, Tasks
<1>6. Stage(k)
  BY <1>1, <1>2, <1>4, <1>5, LocksAssumption, NoneAssumption
  DEF Stage, Asking, AboutRequest, AboutPool, Pool, Driver
<1>7. Checked(k) BY <1>1, <1>2 DEF Checked, Asking
<1>8. want \in Locks \cup {None} /\ todo \ {want} \in SUBSET Requests /\ saw \in SUBSET Requests
  BY <1>4, <1>5 DEF Locks
<1> QED BY <1>1, <1>3, <1>6, <1>7, <1>8, AskStep

LEMMA LockDriverKeeps ==
    ASSUME Inv, NEW t \in Transactions, LockDriver(t) PROVE Inv'
<1> DEFINE k == Asking(task[t], None, task[t].todo, task[t].saw)
<1>1. /\ Granted(t) /\ task[t].want = Driver /\ UNCHANGED <<request, offered, pool>>
      /\ task' = [task EXCEPT ![t] = k]
  BY DEF LockDriver, Ask
<1>2. Stage(task[t]) /\ Checked(task[t]) /\ task[t] \in Tasks
  BY DEF Inv, LocksAreHeld, ChecksStayTrue, TypeOK, Tasks
<1>3. Stage(k)
  BY <1>1, <1>2, LocksAssumption, NoneAssumption
  DEF Stage, Asking, AboutRequest, AboutPool, Pool, Driver
<1>4. Checked(k)
  BY <1>1, <1>2, LocksAssumption, NoneAssumption DEF Checked, Asking, Pool, Driver
<1>5. task[t].todo \in SUBSET Requests /\ task[t].saw \in SUBSET Requests BY <1>2 DEF Tasks
<1> QED BY <1>1, <1>3, <1>4, <1>5, AskStep

(***************************************************************************)
(* The steps that write.  What a transaction writes is under its locks, so *)
(* it disturbs nothing the others have read under theirs.                  *)
(***************************************************************************)
LEMMA WriteStep ==
    ASSUME Inv, NEW t \in Transactions, Release(t),
           request' \in [Requests -> {"WAITING", "MATCHED", "ENDED"}],
           offered' \in SUBSET Requests, pool' \in {"NONE", "FORMING", "DEPARTED"},
           \A r, s \in offered' : r = s, DepartedIsClosed',
           \A u \in Transactions \ {t} : Stage(task[u])' /\ Checked(task[u])'
    PROVE  Inv'
<1>1. task \in [Transactions -> Tasks] BY DEF Inv, TypeOK, Tasks
<1>2. task' = [task EXCEPT ![t] = Idle] /\ Idle \in Tasks BY DEF Release, Idle, Tasks
<1>3. task' \in [Transactions -> Tasks] /\ task'[t] = Idle
      /\ \A u \in Transactions \ {t} : task'[u] = task[u]
  BY <1>1, <1>2
<1>4. TypeOK' BY <1>3 DEF TypeOK, Tasks
<1>5. Stage(task[t])'
  BY <1>3, LocksAssumption, NoneAssumption
  DEF Stage, Idle, AboutRequest, AboutPool, Pool, Driver
<1>6. Checked(task[t])' BY <1>3 DEF Checked, Idle
<1>7. \A u, v \in Transactions : u # v => task'[u].held \cap task'[v].held = {}
  BY <1>3 DEF Inv, LocksAreHeld, Idle
<1>8. LocksAreHeld' BY <1>5, <1>7 DEF LocksAreHeld
<1>9. ChecksStayTrue' BY <1>6 DEF ChecksStayTrue
<1> QED BY <1>4, <1>8, <1>9 DEF Inv

(* What another transaction knows about t and about itself.                *)
LEMMA Apart ==
    ASSUME Inv, NEW t \in Transactions, Release(t), NEW u \in Transactions \ {t}
    PROVE  /\ task'[u] = task[u] /\ Stage(task[u]) /\ Checked(task[u])
           /\ task[u] \in Tasks /\ task[u].held \cap task[t].held = {}
BY DEF Inv, LocksAreHeld, ChecksStayTrue, TypeOK, Tasks, Release

LEMMA CommitInitialKeeps ==
    ASSUME Inv, NEW t \in Transactions, CommitInitial(t) PROVE Inv'
<1> DEFINE r == task[t].of
<1>1. Release(t) /\ task[t].want = None /\ task[t].op = "INITIAL" /\ UNCHANGED offered
  BY DEF CommitInitial, Commits
<1>2. r \in Requests /\ r \in task[t].held /\ request[r] = "WAITING"
  BY <1>1, LocksAssumption DEF Inv, LocksAreHeld, Stage, AboutRequest
<1>3. CASE UNCHANGED <<request, pool>> BY <1>1, <1>3, ReleaseIsFine
<1>4. CASE /\ pool = "NONE" /\ pool' = "FORMING"
           /\ request' = [request EXCEPT ![r] = "MATCHED"]
  <2>1. ASSUME NEW u \in Transactions \ {t} PROVE Stage(task[u])' /\ Checked(task[u])'
    <3>1. /\ task'[u] = task[u] /\ Stage(task[u]) /\ Checked(task[u])
          /\ r \notin task[u].held
      BY <1>1, <1>2, Apart
    <3>2. task[u].op \notin {"OFFER", "JOIN"} \cup AboutPool /\ Pool \notin task[u].held
      BY <1>4, <3>1 DEF Stage
    <3>3. Stage(task[u])' BY <1>1, <1>2, <1>4, <3>1, <3>2 DEF Stage, Inv, TypeOK, AboutRequest
    <3>4. Checked(task[u])' BY <3>1, <3>2 DEF Checked
    <3> QED BY <3>3, <3>4
  <2>2. request' \in [Requests -> {"WAITING", "MATCHED", "ENDED"}] BY <1>4 DEF Inv, TypeOK
  <2>3. \A a, b \in offered' : a = b BY <1>1 DEF Inv, LocksAreHeld
  <2> QED BY <1>1, <1>4, <2>1, <2>2, <2>3, WriteStep DEF Inv, TypeOK, DepartedIsClosed
<1> QED BY <1>3, <1>4 DEF CommitInitial

LEMMA CommitOfferKeeps ==
    ASSUME Inv, NEW t \in Transactions, CommitOffer(t) PROVE Inv'
<1> DEFINE r == task[t].of
<1>1. /\ Release(t) /\ task[t].want = None /\ task[t].op = "OFFER"
      /\ offered' = offered \cup {r} /\ UNCHANGED <<request, pool>>
  BY DEF CommitOffer, Commits
<1>2. r \in Requests /\ Pool \in task[t].held /\ pool = "FORMING" /\ offered = {}
  BY <1>1, LocksAssumption DEF Inv, LocksAreHeld, ChecksStayTrue, Stage, Checked, AboutRequest
<1>3. ASSUME NEW u \in Transactions \ {t} PROVE Stage(task[u])' /\ Checked(task[u])'
  <2>1. task'[u] = task[u] /\ Stage(task[u]) /\ Pool \notin task[u].held
    BY <1>1, <1>2, Apart
  <2> QED BY <1>1, <2>1 DEF Stage, Checked
<1>4. offered' \in SUBSET Requests /\ \A a, b \in offered' : a = b BY <1>1, <1>2
<1> QED BY <1>1, <1>2, <1>3, <1>4, WriteStep DEF Inv, TypeOK, DepartedIsClosed

LEMMA CommitJoinKeeps ==
    ASSUME Inv, NEW t \in Transactions, CommitJoin(t) PROVE Inv'
<1> DEFINE r == task[t].of
<1>1. /\ Release(t) /\ task[t].want = None /\ task[t].op = "JOIN"
      /\ request' = [request EXCEPT ![r] = "MATCHED"]
      /\ offered' = offered \ {r} /\ UNCHANGED pool
  BY DEF CommitJoin, Commits
<1>2. r \in Requests /\ r \in task[t].held /\ Pool \in task[t].held /\ pool = "FORMING"
  BY <1>1, LocksAssumption DEF Inv, LocksAreHeld, ChecksStayTrue, Stage, Checked, AboutRequest
<1>3. ASSUME NEW u \in Transactions \ {t} PROVE Stage(task[u])' /\ Checked(task[u])'
  <2>1. /\ task'[u] = task[u] /\ Stage(task[u])
        /\ Pool \notin task[u].held /\ r \notin task[u].held
    BY <1>1, <1>2, Apart
  <2> QED BY <1>1, <1>2, <2>1 DEF Stage, Checked, Inv, TypeOK, AboutRequest
<1>4. /\ offered' \in SUBSET Requests /\ \A a, b \in offered' : a = b
      /\ request' \in [Requests -> {"WAITING", "MATCHED", "ENDED"}]
  BY <1>1 DEF Inv, LocksAreHeld, TypeOK
<1> QED BY <1>1, <1>2, <1>3, <1>4, WriteStep DEF Inv, TypeOK, DepartedIsClosed

LEMMA CommitCloseKeeps ==
    ASSUME Inv, NEW t \in Transactions, CommitClose(t) PROVE Inv'
<1> DEFINE r == task[t].of
<1>1. /\ Release(t) /\ task[t].want = None /\ task[t].op = "CLOSE"
      /\ offered' \subseteq offered /\ UNCHANGED pool
      /\ \/ UNCHANGED request
         \/ request[r] = "WAITING" /\ request' = [request EXCEPT ![r] = "ENDED"]
  BY DEF CommitClose, Commits
<1>2. r \in Requests /\ r \in task[t].held
  BY <1>1, LocksAssumption DEF Inv, LocksAreHeld, Stage, AboutRequest
<1>3. Members' = Members
  <2>1. \A a \in Requests : request'[a] = "MATCHED" <=> request[a] = "MATCHED"
    BY <1>1, <1>2 DEF Inv, TypeOK
  <2> QED BY <2>1 DEF Members
<1>4. ASSUME NEW u \in Transactions \ {t} PROVE Stage(task[u])' /\ Checked(task[u])'
  <2>1. /\ task'[u] = task[u] /\ Stage(task[u]) /\ Checked(task[u]) /\ r \notin task[u].held
    BY <1>1, <1>2, Apart
  <2>2. Stage(task[u])' BY <1>1, <1>2, <2>1 DEF Stage, Inv, TypeOK, AboutRequest
  <2>3. Pool \in task[u].held /\ task[u].op = "JOIN" => task[u].of # r /\ task[u].of \in Requests
    BY <2>1 DEF Stage, AboutRequest
  <2>4. Checked(task[u])' BY <1>1, <1>2, <1>3, <2>1, <2>3 DEF Checked, Inv, TypeOK
  <2> QED BY <2>2, <2>4
<1>5. /\ offered' \in SUBSET Requests /\ \A a, b \in offered' : a = b
      /\ request' \in [Requests -> {"WAITING", "MATCHED", "ENDED"}] /\ DepartedIsClosed'
  BY <1>1 DEF Inv, LocksAreHeld, TypeOK, DepartedIsClosed
<1> QED BY <1>1, <1>4, <1>5, WriteStep DEF Inv, TypeOK

LEMMA CommitDepartKeeps ==
    ASSUME Inv, NEW t \in Transactions, CommitDepart(t) PROVE Inv'
<1>1. /\ Release(t) /\ task[t].want = None /\ task[t].op = "DEPART" /\ pool' = "DEPARTED"
      /\ offered' = (IF pool = "FORMING" THEN {} ELSE offered) /\ UNCHANGED request
  BY DEF CommitDepart, Commits
<1>2. Pool \in task[t].held /\ pool # "NONE"
  BY <1>1 DEF Inv, LocksAreHeld, Stage, AboutPool
<1>3. offered' = {} BY <1>1, <1>2 DEF Inv, TypeOK, DepartedIsClosed
<1>4. ASSUME NEW u \in Transactions \ {t} PROVE Stage(task[u])' /\ Checked(task[u])'
  <2>1. task'[u] = task[u] /\ Stage(task[u]) /\ Pool \notin task[u].held
    BY <1>1, <1>2, Apart
  <2> QED BY <1>1, <2>1 DEF Stage, Checked
<1> QED BY <1>1, <1>3, <1>4, WriteStep DEF Inv, TypeOK, DepartedIsClosed

(***************************************************************************)
(* The invariant.                                                          *)
(***************************************************************************)
LEMMA InvInit == Init => Inv
<1> SUFFICES ASSUME Init PROVE Inv OBVIOUS
<1>1. \A t \in Transactions : task[t] = Idle BY DEF Init
<1>2. TypeOK BY DEF Init, TypeOK, Idle
<1>3. \A t \in Transactions : Stage(task[t])
  BY <1>1, LocksAssumption, NoneAssumption
  DEF Stage, Idle, AboutRequest, AboutPool, Pool, Driver
<1>4. LocksAreHeld BY <1>1, <1>3 DEF LocksAreHeld, Init, Idle
<1>5. ChecksStayTrue /\ DepartedIsClosed
  BY <1>1 DEF ChecksStayTrue, Checked, Idle, DepartedIsClosed, Init
<1> QED BY <1>2, <1>4, <1>5 DEF Inv

LEMMA InvStep == Inv /\ [Next]_vars => Inv'
<1> SUFFICES ASSUME Inv, [Next]_vars PROVE Inv' OBVIOUS
<1>1. CASE UNCHANGED vars
  BY <1>1 DEF vars, Inv, TypeOK, LocksAreHeld, Stage, ChecksStayTrue, Checked,
              DepartedIsClosed, Members
<1>2. ASSUME NEW t \in Transactions,
             \/ CommitInitial(t) \/ CommitOffer(t) \/ CommitJoin(t) \/ CommitClose(t)
             \/ CommitDepart(t) \/ CommitOther(t) \/ RollBack(t)
      PROVE  Inv'
  <2>1. CASE CommitOther(t) \/ RollBack(t)
    BY <2>1, ReleaseIsFine DEF CommitOther, RollBack, Commits
  <2> QED BY <1>2, <2>1, CommitInitialKeeps, CommitOfferKeeps, CommitJoinKeeps,
             CommitCloseKeeps, CommitDepartKeeps
<1> QED BY <1>1, <1>2, CallKeeps, LockRequestKeeps, LockPoolKeeps, LockMemberKeeps,
           LockDriverKeeps DEF Next

LEMMA InvHolds == Spec => []Inv
BY InvInit, InvStep, PTL DEF Spec

(* Statuses stay in the schema; a lock has an owner and a wish a lock.     *)
THEOREM TypeCorrect == Spec => []TypeOK
<1>1. Inv => TypeOK BY DEF Inv
<1> QED BY <1>1, InvHolds, PTL

(* No lock has two holders, a pool has one join offer, and every           *)
(* transaction asks for its locks in the order of its stages.              *)
THEOREM LocksAreHeldHolds == Spec => []LocksAreHeld
<1>1. Inv => LocksAreHeld BY DEF Inv
<1> QED BY <1>1, InvHolds, PTL

(* What was read under the pool's lock holds until the commit.             *)
THEOREM ChecksStayTrueHolds == Spec => []ChecksStayTrue
<1>1. Inv => ChecksStayTrue BY DEF Inv
<1> QED BY <1>1, InvHolds, PTL

(* A departed pool has no join offer.                                      *)
THEOREM DepartedIsClosedHolds == Spec => []DepartedIsClosed
<1>1. Inv => DepartedIsClosed BY DEF Inv
<1> QED BY <1>1, InvHolds, PTL

(* Nobody becomes a member of a departed pool.                             *)
THEOREM NobodyJoinsUnderWayHolds == Spec => NobodyJoinsUnderWay
<1>1. ASSUME Inv, [Next]_vars, pool = "DEPARTED" PROVE Members' = Members
  <2>1. \A a \in Requests : request'[a] = "MATCHED" <=> request[a] = "MATCHED"
    <3>1. CASE UNCHANGED request BY <3>1
    <3>2. ASSUME NEW t \in Transactions, CommitJoin(t) PROVE FALSE
      BY <1>1, <3>2, LocksAssumption
      DEF CommitJoin, Commits, Inv, LocksAreHeld, ChecksStayTrue, Stage, Checked
    <3>3. ASSUME NEW t \in Transactions, CommitClose(t)
          PROVE  \A a \in Requests : request'[a] = "MATCHED" <=> request[a] = "MATCHED"
      BY <1>1, <3>3 DEF CommitClose, Inv, TypeOK
    <3>4. ASSUME NEW t \in Transactions, CommitInitial(t) PROVE UNCHANGED request
      BY <1>1, <3>4 DEF CommitInitial
    <3> QED BY <1>1, <3>1, <3>2, <3>3, <3>4
            DEF Next, vars, CallAboutRequest, CallAboutPool, CallDepart, CallAvailability,
                Call, LockRequest, LockPool, LockMember, LockDriver, CommitOffer,
                CommitDepart, CommitOther, RollBack
  <2> QED BY <2>1 DEF Members
<1>2. Inv /\ [Next]_vars => [pool = "DEPARTED" => Members' = Members]_vars BY <1>1
<1> QED BY <1>2, InvHolds, PTL DEF Spec, NobodyJoinsUnderWay

(***************************************************************************)
(* Deadlocks.  If nobody in S was overtaken: nobody holds the driver and   *)
(* waits, so nobody waits for the driver; a member is held only with the   *)
(* pool, so the holder of the pool waits for nobody; so nobody waits for   *)
(* the pool; and who waits for a request holds nothing, so nobody waits.   *)
(***************************************************************************)
LEMMA NoDeadlock ==
    ASSUME Inv, NEW S \in SUBSET Transactions, Deadlocked(S),
           \A t \in S : ~Overtaken(t)
    PROVE  FALSE
<1>1. \A t \in S : \E u \in S : /\ t # u /\ task[t].want # None
                                /\ task[t].want \in task[u].held
  BY DEF Deadlocked, WaitsOn
<1>2. \A t \in S : Stage(task[t]) /\ Checked(task[t]) /\ task[t] \in Tasks
  BY DEF Inv, LocksAreHeld, ChecksStayTrue, TypeOK, Tasks
<1>3. \A t \in S : task[t].want # Driver BY <1>1, <1>2 DEF Stage
<1>4. ASSUME NEW u \in S, NEW m \in Members, m \in task[u].held PROVE Pool \in task[u].held
  <2> SUFFICES ASSUME Pool \notin task[u].held PROVE FALSE OBVIOUS
  <2>1. m \in Requests /\ request[m] = "MATCHED" BY DEF Members
  <2>2. task[u].op # "DEPART" BY <1>4 DEF Overtaken
  <2>3. task[u].of = m
    BY <1>2, <1>4, <2>1, <2>2, LocksAssumption DEF Stage
  <2>4. task[u].op = "CLOSE"
    BY <1>2, <1>4, <2>1, <2>3, LocksAssumption DEF Stage, AboutRequest
  <2>5. task[u].want = m BY <1>1, <1>2, <2>3, <2>4 DEF Stage
  <2> QED BY <1>2, <1>4, <2>1, <2>5 DEF Stage
<1>5. \A t \in S : Pool \notin task[t].held
  <2> SUFFICES ASSUME NEW t \in S, Pool \in task[t].held PROVE FALSE OBVIOUS
  <2>1. task[t].want \in Requests
    BY <1>1, <1>2, <1>3 DEF Stage, Tasks, Locks
  <2>2. task[t].want \in Members BY <1>2, <2>1 DEF Stage, Checked
  <2>3. PICK u \in S : t # u /\ task[t].want \in task[u].held BY <1>1
  <2>4. Pool \in task[u].held BY <1>4, <2>2, <2>3
  <2> QED BY <2>3, <2>4 DEF Inv, LocksAreHeld
<1>6. \A t \in S : task[t].want \in Requests
  BY <1>1, <1>2, <1>3, <1>5 DEF Tasks, Locks
<1>7. \A t \in S : task[t].held = {} BY <1>2, <1>5, <1>6 DEF Stage
<1> QED BY <1>1, <1>7 DEF Deadlocked

(* Only a departure that was overtaken by an acceptance can be part of a   *)
(* deadlock, however many transactions run and however they lock members.  *)
THEOREM OnlyDeparturesCollideHolds == Spec => []OnlyDeparturesCollide
<1>1. Inv => OnlyDeparturesCollide BY NoDeadlock DEF OnlyDeparturesCollide
<1> QED BY <1>1, InvHolds, PTL

=============================================================================
