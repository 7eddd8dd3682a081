-------------------------- MODULE RepositoryLease --------------------------
(***************************************************************************)
(* The expiring repository lease (modou/agent/lease.py) and the operations *)
(* that work under it (modou/server/control.py, modou/server/tasks.py).    *)
(*                                                                         *)
(* One repository: its lease file and its flock.  Server processes share   *)
(* the lease directory; each has one RepositoryLeaseManager, whose         *)
(* owner_id and process identity change when the process is started again. *)
(* A user is an operation of a process on a review ("execute", "repair",   *)
(* "test_proposal", ...) that acquires the lease, works in the repository  *)
(* and releases it.  What the code does under the flock is one action;     *)
(* inspect_review reads without it, so the operator's cleanup and the      *)
(* start-up reclaim take their steps separately.                           *)
(*                                                                         *)
(* Time only moves forward.  Whether the recorded owner lives is answered  *)
(* by ps and kill: never "dead" for a live one, and "unknown" whenever     *)
(* they fail.                                                              *)
(***************************************************************************)
EXTENDS Integers

CONSTANTS
    Procs,      \* server processes that share the lease directory
    Reviews,    \* review ids
    Users,      \* operations that need the lease
    ProcOf,     \* [Users -> Procs]
    ReviewOf,   \* [Users -> Reviews]
    OpOf,       \* [Users -> operation names]
    Requested,  \* [Users -> Nat]: the ttl_seconds an operation asks for
    Floor,      \* the shortest lease
    Ceiling,    \* LEASE_TTL_CEILING_SECONDS
    MaxTime,    \* bound: the clock
    MaxLeases,  \* bound: lease ids issued
    MaxDeaths   \* bound: how often a process dies

ASSUME UsersAssumption ==
    /\ ProcOf \in [Users -> Procs] /\ ReviewOf \in [Users -> Reviews]
    /\ Requested \in [Users -> Nat] /\ DOMAIN OpOf = Users
ASSUME ReviewsAssumption == Reviews # {}
ASSUME TimesAssumption ==
    /\ Floor \in Nat /\ Ceiling \in Nat /\ Floor <= Ceiling
    /\ MaxTime \in Nat /\ MaxLeases \in Nat /\ MaxDeaths \in Nat

VARIABLES
    now,      \* the clock
    file,     \* the lease file: a lease, or NoLease when it does not exist
    issued,   \* lease ids used so far
    life,     \* life[p]: how often p was started, the identity of its manager
    state,    \* state[p]: "down", "recovering" or "serving"
    todo,     \* todo[p]: reviews the start-up scan of p has still to visit
    maint,    \* maint[p]: the maintenance thread of p and the lease it inspected
    ticket,   \* ticket[u]: id of the lease u works under, 0 when it does not
    evicted   \* history: working users whose lease their own process removed

vars == <<now, file, issued, life, state, todo, maint, ticket, evicted>>

OpNames == {OpOf[u] : u \in Users}
NoLease == [id |-> 0]
Owners == Procs \X Nat
Leases == [id : Nat \ {0}, owner : Owners, review : Reviews, op : OpNames, expires : Nat]
MaintSteps == {"idle", "inspect", "inspected", "condemned"}

Owner(p) == <<p, life[p]>>
Working(u) == ticket[u] # 0
Key(u) == <<ProcOf[u], ReviewOf[u], OpOf[u]>>
Mine(u) == file # NoLease /\ file.owner = Owner(ProcOf[u]) /\ file.review = ReviewOf[u] /\ file.op = OpOf[u]

(* _alive_with_identity: True, False or None.                              *)
Alive(owner) == state[owner[1]] # "down" /\ owner[2] = life[owner[1]]
Verdicts(owner) == IF Alive(owner) THEN {"alive", "unknown"} ELSE {"dead", "unknown"}

(* max(5, min(ttl_seconds, ceiling)).                                      *)
Ttl(t) == IF t > Ceiling THEN Ceiling ELSE IF t < Floor THEN Floor ELSE t

Rest == [step |-> "idle", lease |-> NoLease, review |-> CHOOSE r \in Reviews : TRUE, stale |-> FALSE]

Init ==
    /\ now = 0 /\ file = NoLease /\ issued = 0
    /\ life = [p \in Procs |-> 1]
    /\ state = [p \in Procs |-> "serving"]
    /\ todo = [p \in Procs |-> {}]
    /\ maint = [p \in Procs |-> Rest]
    /\ ticket = [u \in Users |-> 0]
    /\ evicted = {}

Tick ==
    /\ now < MaxTime /\ now' = now + 1
    /\ UNCHANGED <<file, issued, life, state, todo, maint, ticket, evicted>>

-----------------------------------------------------------------------------
(* acquire(): under the flock.  A refused call changes nothing.            *)

MayAcquire(u) == state[ProcOf[u]] = "serving" /\ ~Working(u)

(* The same owner, review and operation: the lease is refreshed and shared.*)
Refresh(u) ==
    /\ MayAcquire(u) /\ Mine(u)
    /\ file' = [file EXCEPT !.expires = now + Ttl(Requested[u])]
    /\ ticket' = [ticket EXCEPT ![u] = file.id]
    /\ UNCHANGED <<now, issued, life, state, todo, maint, evicted>>

(* There is no lease, or it expired and its owner is provably gone.        *)
Free == file # NoLease => file.expires <= now /\ "dead" \in Verdicts(file.owner)

Acquire(u) ==
    /\ MayAcquire(u) /\ ~Mine(u) /\ Free
    /\ issued < MaxLeases /\ issued' = issued + 1
    /\ file' = [id |-> issued + 1, owner |-> Owner(ProcOf[u]), review |-> ReviewOf[u],
                op |-> OpOf[u], expires |-> now + Ttl(Requested[u])]
    /\ ticket' = [ticket EXCEPT ![u] = issued + 1]
    /\ UNCHANGED <<now, life, state, todo, maint, evicted>>

(* release(): a lease that is gone or someone else's is left alone.  Other *)
(* users of a shared lease lose it.                                        *)
Release(u) ==
    /\ Working(u) /\ state[ProcOf[u]] = "serving"
    /\ ticket' = [ticket EXCEPT ![u] = 0]
    /\ IF file # NoLease /\ file.id = ticket[u] /\ file.owner = Owner(ProcOf[u])
       THEN /\ file' = NoLease
            /\ evicted' = (evicted \cup {v \in Users : ticket[v] = ticket[u]}) \ {u}
       ELSE /\ evicted' = evicted \ {u} /\ UNCHANGED file
    /\ UNCHANGED <<now, issued, life, state, todo, maint>>

-----------------------------------------------------------------------------
(* The start-up scan and the operator's cleanup of one review.             *)

(* reclaim_stale_for_review, called for each review by _recover_interrupted*)
(* before the server answers requests.                                     *)
Reclaim(p, r) ==
    /\ state[p] = "recovering" /\ maint[p].step = "idle" /\ r \in todo[p]
    /\ todo' = [todo EXCEPT ![p] = @ \ {r}]
    /\ maint' = [maint EXCEPT ![p] = [step |-> "inspect", lease |-> NoLease, review |-> r, stale |-> TRUE]]
    /\ UNCHANGED <<now, file, issued, life, state, ticket, evicted>>

Serve(p) ==
    /\ state[p] = "recovering" /\ maint[p].step = "idle" /\ todo[p] = {}
    /\ state' = [state EXCEPT ![p] = "serving"]
    /\ UNCHANGED <<now, file, issued, life, todo, maint, ticket, evicted>>

(* ReviewManager.cleanup defers while the review's own thread executes.    *)
Executing(p, r) ==
    \E u \in Users : Working(u) /\ ProcOf[u] = p /\ ReviewOf[u] = r /\ OpOf[u] = "execute"

(* cleanup_for_review begins with release_for_review: the lease of this    *)
(* review goes if this process owns it.                                    *)
CleanUp(p, r) ==
    /\ state[p] = "serving" /\ maint[p].step = "idle" /\ ~Executing(p, r)
    /\ maint' = [maint EXCEPT ![p] = [step |-> "inspect", lease |-> NoLease, review |-> r, stale |-> FALSE]]
    /\ IF file # NoLease /\ file.review = r /\ file.owner = Owner(p)
       THEN /\ file' = NoLease
            /\ evicted' = evicted \cup {u \in Users : ticket[u] = file.id}
       ELSE UNCHANGED <<file, evicted>>
    /\ UNCHANGED <<now, issued, life, state, todo, ticket>>

(* inspect_review: no lock is held.                                        *)
Inspect(p) ==
    /\ maint[p].step = "inspect"
    /\ maint' = IF file # NoLease /\ file.review = maint[p].review
                THEN [maint EXCEPT ![p].step = "inspected", ![p].lease = file]
                ELSE [maint EXCEPT ![p] = Rest]
    /\ UNCHANGED <<now, file, issued, life, state, todo, ticket, evicted>>

(* The inspected lease is condemned when its owner is provably gone and,   *)
(* at start-up, it has expired; otherwise the call gives up.               *)
Judge(p) ==
    /\ maint[p].step = "inspected"
    /\ \E verdict \in Verdicts(maint[p].lease.owner) :
          maint' = IF verdict = "dead" /\ (maint[p].stale => maint[p].lease.expires <= now)
                   THEN [maint EXCEPT ![p].step = "condemned"]
                   ELSE [maint EXCEPT ![p] = Rest]
    /\ UNCHANGED <<now, file, issued, life, state, todo, ticket, evicted>>

(* Error: the lease is removed without comparing its id under the lock.    *)
RemoveUnchecked(p) ==
    /\ maint[p].step = "condemned"
    /\ file' = NoLease
    /\ maint' = [maint EXCEPT ![p] = Rest]
    /\ UNCHANGED <<now, issued, life, state, todo, ticket, evicted>>

(* Under the lock the lease is removed if it is still the inspected one.   *)
RemoveCondemned(p) ==
    /\ maint[p].step = "condemned"
    /\ file' = IF file # NoLease /\ file.id = maint[p].lease.id THEN NoLease ELSE file
    /\ maint' = [maint EXCEPT ![p] = Rest]
    /\ UNCHANGED <<now, issued, life, state, todo, ticket, evicted>>

-----------------------------------------------------------------------------
(* Processes die with everything they do; the lease file stays.            *)

Die(p) ==
    /\ state[p] # "down" /\ life[p] <= MaxDeaths
    /\ state' = [state EXCEPT ![p] = "down"]
    /\ todo' = [todo EXCEPT ![p] = {}]
    /\ maint' = [maint EXCEPT ![p] = Rest]
    /\ ticket' = [u \in Users |-> IF ProcOf[u] = p THEN 0 ELSE ticket[u]]
    /\ evicted' = {u \in evicted : ProcOf[u] # p}
    /\ UNCHANGED <<now, file, issued, life>>

(* Started again: a new pid, identity and owner_id.                        *)
Start(p) ==
    /\ state[p] = "down"
    /\ life' = [life EXCEPT ![p] = @ + 1]
    /\ state' = [state EXCEPT ![p] = "recovering"]
    /\ todo' = [todo EXCEPT ![p] = Reviews]
    /\ UNCHANGED <<now, file, issued, maint, ticket, evicted>>

Next ==
    \/ Tick
    \/ \E u \in Users : Refresh(u) \/ Acquire(u) \/ Release(u)
    \/ \E p \in Procs, r \in Reviews : Reclaim(p, r) \/ CleanUp(p, r)
    \/ \E p \in Procs : Serve(p) \/ Inspect(p) \/ Judge(p) \/ RemoveCondemned(p)
    \/ \E p \in Procs : Die(p) \/ Start(p)

Spec == Init /\ [][Next]_vars

-----------------------------------------------------------------------------
(* Every variable stays in the set its part of lease.py gives it.          *)
TypeOK ==
    /\ now \in Nat /\ issued \in Nat
    /\ file \in Leases \cup {NoLease}
    /\ life \in [Procs -> Nat]
    /\ state \in [Procs -> {"down", "recovering", "serving"}]
    /\ todo \in [Procs -> SUBSET Reviews]
    /\ maint \in [Procs -> [step : MaintSteps, lease : Leases \cup {NoLease},
                            review : Reviews, stale : BOOLEAN]]
    /\ ticket \in [Users -> Nat]
    /\ evicted \subseteq Users

(* Two operations work in the repository at once only as re-entrant calls  *)
(* of one process on one review for one purpose, or after their own        *)
(* process took the lease from one of them: no expiry, death, restart,     *)
(* reclaim or cleanup of another process ever takes it from a live owner.  *)
Exclusion ==
    \A u, v \in Users :
        Working(u) /\ Working(v) /\ u \notin evicted /\ v \notin evicted => Key(u) = Key(v)

(* An operation that was not evicted works under the lease on disk.        *)
LeaseOnDisk ==
    \A u \in Users : Working(u) /\ u \notin evicted => Mine(u) /\ file.id = ticket[u]

(* "no caller may talk a lease into outliving" the ceiling (lease.py:18).  *)
UnderCeiling == file # NoLease => file.expires <= now + Ceiling

=============================================================================
