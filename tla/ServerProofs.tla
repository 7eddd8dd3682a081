---------------------------- MODULE ServerProofs ----------------------------
(***************************************************************************)
(* Proofs about the three parts of the server that MCServer also checks    *)
(* side by side and that share no state: the lease protects its holder,    *)
(* for every set of servers, reviews and operations (RepositoryLease);     *)
(* adoption without a person keeps its limits, for any tasks, criteria,    *)
(* windows, grants and crashes (AutoAdoption); a worker runs the plan of   *)
(* the source its request froze, for any number of reviews and edits       *)
(* (PlanApproval).                                                         *)
(***************************************************************************)
EXTENDS RepositoryLease, AutoAdoption, PlanApproval, FiniteSetTheorems, SequenceTheorems, WellFoundedInduction, TLAPS

-----------------------------------------------------------------------------
(* The lease.                                                              *)

(* A process has been started at least as often as any lease it issued     *)
(* says, so a lease whose owner is gone never belongs to a later life.     *)
Dated(lease) == lease.id <= issued /\ lease.owner[2] <= life[lease.owner[1]]

(* Who works is served, under a lease that was issued.                     *)
WorkersServed ==
    \A u \in Users : Working(u) => state[ProcOf[u]] = "serving" /\ ticket[u] <= issued

FileDated == file # NoLease => Dated(file)

(* A maintenance thread that will remove a lease has seen its owner dead,  *)
(* and the id it will compare names that owner's lease.                    *)
MaintSound ==
    \A p \in Procs :
        /\ maint[p].step \in {"inspected", "condemned"} => maint[p].lease # NoLease
        /\ maint[p].lease # NoLease =>
               /\ Dated(maint[p].lease)
               /\ file # NoLease /\ file.id = maint[p].lease.id
                      => file.owner = maint[p].lease.owner
        /\ maint[p].step = "condemned" => ~Alive(maint[p].lease.owner)

IInv == TypeOK /\ WorkersServed /\ FileDated /\ MaintSound /\ LeaseOnDisk

(* A clamped lifetime lies between the floor and the ceiling.              *)
LEMMA TtlRange == \A t \in Nat : Ttl(t) \in Nat /\ Ttl(t) <= Ceiling
  BY TimesAssumption DEF Ttl

(* No record of a lease is the absence of one.                             *)
LEMMA LeaseIsNotNone == \A lease \in Leases : lease # NoLease
  BY DEF Leases, NoLease

(* Init satisfies the type invariant; every action keeps it.               *)
LEMMA InitTypeOK == Init => TypeOK
  BY ReviewsAssumption, TimesAssumption DEF Init, TypeOK, Rest, MaintSteps

LEMMA TypePreserved == ASSUME TypeOK, [Next]_vars PROVE TypeOK'
<1> USE UsersAssumption, ReviewsAssumption, TimesAssumption
<1>1. Rest \in [step : MaintSteps, lease : Leases \cup {NoLease}, review : Reviews, stale : BOOLEAN]
  BY DEF Rest, MaintSteps
<1>2. CASE Tick
  BY <1>2 DEF Tick, TypeOK
<1>3. ASSUME NEW u \in Users, Refresh(u) PROVE TypeOK'
  <2>1. file \in Leases
    BY <1>3 DEF Refresh, Mine, TypeOK
  <2>2. file' \in Leases
    BY <1>3, <2>1, TtlRange DEF Refresh, Leases, TypeOK
  <2> QED
    BY <1>3, <2>1, <2>2 DEF Refresh, TypeOK, Leases
<1>4. ASSUME NEW u \in Users, Acquire(u) PROVE TypeOK'
  <2>1. file' \in Leases
    BY <1>4, TtlRange DEF Acquire, Leases, TypeOK, Owners, Owner, OpNames
  <2> QED
    BY <1>4, <2>1 DEF Acquire, TypeOK
<1>5. ASSUME NEW u \in Users, Release(u) PROVE TypeOK'
  BY <1>5 DEF Release, TypeOK
<1>6. ASSUME NEW p \in Procs, NEW r \in Reviews, Reclaim(p, r) PROVE TypeOK'
  BY <1>6 DEF Reclaim, TypeOK, MaintSteps
<1>7. ASSUME NEW p \in Procs, NEW r \in Reviews, CleanUp(p, r) PROVE TypeOK'
  BY <1>7 DEF CleanUp, TypeOK, MaintSteps
<1>8. ASSUME NEW p \in Procs, Serve(p) PROVE TypeOK'
  BY <1>8 DEF Serve, TypeOK
<1>9. ASSUME NEW p \in Procs, Inspect(p) PROVE TypeOK'
  BY <1>1, <1>9 DEF Inspect, TypeOK, MaintSteps
<1>10. ASSUME NEW p \in Procs, Judge(p) PROVE TypeOK'
  BY <1>1, <1>10 DEF Judge, TypeOK, MaintSteps
<1>11. ASSUME NEW p \in Procs, RemoveCondemned(p) PROVE TypeOK'
  BY <1>1, <1>11 DEF RemoveCondemned, TypeOK
<1>12. ASSUME NEW p \in Procs, Die(p) PROVE TypeOK'
  BY <1>1, <1>12 DEF Die, TypeOK
<1>13. ASSUME NEW p \in Procs, Start(p) PROVE TypeOK'
  BY <1>13 DEF Start, TypeOK
<1>14. CASE UNCHANGED vars
  BY <1>14 DEF vars, TypeOK
<1> QED
  BY <1>2, <1>3, <1>4, <1>5, <1>6, <1>7, <1>8, <1>9, <1>10, <1>11, <1>12, <1>13, <1>14 DEF Next

-----------------------------------------------------------------------------
(* The owner of the lease an operation holds is alive: nobody may take it. *)
LEMMA HolderLives ==
    ASSUME TypeOK, WorkersServed, LeaseOnDisk, NEW u \in Users, Working(u), u \notin evicted
    PROVE  file # NoLease /\ file \in Leases /\ Alive(file.owner) /\ file.id = ticket[u]
  BY UsersAssumption DEF TypeOK, WorkersServed, LeaseOnDisk, Mine, Alive, Owner

(* A verdict "dead" is about an owner that is gone.                        *)
LEMMA DeadIsGone == ASSUME NEW owner, "dead" \in Verdicts(owner) PROVE ~Alive(owner)
  BY DEF Verdicts

(* The first state satisfies the inductive invariant.                      *)
LEMMA InitIInv == Init => IInv
<1> SUFFICES ASSUME Init PROVE IInv
  OBVIOUS
<1>1. TypeOK
  BY InitTypeOK
<1> QED
  BY <1>1 DEF Init, IInv, WorkersServed, FileDated, MaintSound, LeaseOnDisk, Working, Rest

(* Every step keeps the inductive invariant.                               *)
LEMMA IInvPreserved == ASSUME IInv, [Next]_vars PROVE IInv'
<1> USE UsersAssumption DEF IInv
<1>0. TypeOK'
  BY TypePreserved
<1>1. CASE Tick
  BY <1>0, <1>1 DEF Tick, WorkersServed, FileDated, MaintSound, LeaseOnDisk,
                    Working, Mine, Owner, Dated, Alive
<1>2. ASSUME NEW u \in Users, Refresh(u) PROVE IInv'
  <2>1. /\ file # NoLease /\ file \in Leases /\ file' # NoLease
        /\ file'.id = file.id /\ file'.owner = file.owner
        /\ file'.review = file.review /\ file'.op = file.op
    BY <1>2, LeaseIsNotNone DEF Refresh, Mine, TypeOK, Leases, NoLease
  <2>2. WorkersServed'
    BY <1>2, <2>1 DEF Refresh, MayAcquire, WorkersServed, Working, FileDated, Dated, TypeOK
  <2>3. FileDated' /\ MaintSound'
    BY <1>2, <2>1 DEF Refresh, FileDated, MaintSound, Dated, Alive
  <2>4. LeaseOnDisk'
    BY <1>2, <2>1 DEF Refresh, LeaseOnDisk, Working, Mine, Owner, TypeOK
  <2> QED
    BY <1>0, <2>2, <2>3, <2>4
<1>3. ASSUME NEW u \in Users, Acquire(u) PROVE IInv'
  <2>1. /\ file' # NoLease /\ file'.id = issued + 1 /\ file'.owner = Owner(ProcOf[u])
        /\ file'.review = ReviewOf[u] /\ file'.op = OpOf[u]
    BY <1>3 DEF Acquire, NoLease
  <2>2. \A v \in Users : Working(v) => v \in evicted
    BY <1>3, HolderLives, DeadIsGone DEF Acquire, Free
  <2>3. WorkersServed'
    BY <1>3 DEF Acquire, MayAcquire, WorkersServed, Working, TypeOK
  <2>4. FileDated'
    BY <1>3, <2>1 DEF Acquire, FileDated, Dated, Owner, TypeOK
  <2>5. MaintSound'
    BY <1>3, <2>1, LeaseIsNotNone DEF Acquire, MaintSound, Dated, Alive, TypeOK, Leases
  <2>6. LeaseOnDisk'
    BY <1>3, <2>1, <2>2 DEF Acquire, LeaseOnDisk, Working, Mine, Owner, TypeOK
  <2> QED
    BY <1>0, <2>3, <2>4, <2>5, <2>6
<1>4. ASSUME NEW u \in Users, Release(u) PROVE IInv'
  <2>1. WorkersServed'
    BY <1>4 DEF Release, WorkersServed, Working, TypeOK
  <2>2. FileDated' /\ MaintSound'
    BY <1>4 DEF Release, FileDated, MaintSound, Dated, Alive
  <2>3. LeaseOnDisk'
    BY <1>4 DEF Release, LeaseOnDisk, Working, Mine, Owner, TypeOK
  <2> QED
    BY <1>0, <2>1, <2>2, <2>3
<1>5. ASSUME NEW p \in Procs, NEW r \in Reviews, Reclaim(p, r) PROVE IInv'
  <2>1. WorkersServed' /\ FileDated' /\ LeaseOnDisk'
    BY <1>5 DEF Reclaim, WorkersServed, FileDated, LeaseOnDisk, Working, Mine, Owner, Dated
  <2>2. MaintSound'
    BY <1>5 DEF Reclaim, MaintSound, Dated, Alive, TypeOK
  <2> QED
    BY <1>0, <2>1, <2>2
<1>6. ASSUME NEW p \in Procs, NEW r \in Reviews, CleanUp(p, r) PROVE IInv'
  <2>1. WorkersServed' /\ FileDated'
    BY <1>6 DEF CleanUp, WorkersServed, FileDated, Working, Dated
  <2>2. MaintSound'
    BY <1>6 DEF CleanUp, MaintSound, Dated, Alive, TypeOK
  <2>3. LeaseOnDisk'
    BY <1>6 DEF CleanUp, LeaseOnDisk, Working, Mine, Owner
  <2> QED
    BY <1>0, <2>1, <2>2, <2>3
<1>7. ASSUME NEW p \in Procs, Serve(p) PROVE IInv'
  <2>1. WorkersServed' /\ FileDated' /\ LeaseOnDisk'
    BY <1>7 DEF Serve, WorkersServed, FileDated, LeaseOnDisk, Working, Mine, Owner, Dated, TypeOK
  <2>2. MaintSound'
    BY <1>7 DEF Serve, MaintSound, Dated, Alive, TypeOK
  <2> QED
    BY <1>0, <2>1, <2>2
<1>8. ASSUME NEW p \in Procs, Inspect(p) PROVE IInv'
  <2>1. WorkersServed' /\ FileDated' /\ LeaseOnDisk'
    BY <1>8 DEF Inspect, WorkersServed, FileDated, LeaseOnDisk, Working, Mine, Owner, Dated
  <2>2. MaintSound'
    BY <1>8 DEF Inspect, MaintSound, FileDated, Dated, Alive, TypeOK, Rest
  <2> QED
    BY <1>0, <2>1, <2>2
<1>9. ASSUME NEW p \in Procs, Judge(p) PROVE IInv'
  <2>1. WorkersServed' /\ FileDated' /\ LeaseOnDisk'
    BY <1>9 DEF Judge, WorkersServed, FileDated, LeaseOnDisk, Working, Mine, Owner, Dated
  <2>2. MaintSound'
    BY <1>9, DeadIsGone DEF Judge, MaintSound, Dated, Alive, TypeOK, Rest
  <2> QED
    BY <1>0, <2>1, <2>2
<1>10. ASSUME NEW p \in Procs, RemoveCondemned(p) PROVE IInv'
  <2>1. WorkersServed' /\ FileDated'
    BY <1>10 DEF RemoveCondemned, WorkersServed, FileDated, Working, Dated
  <2>2. MaintSound'
    BY <1>10 DEF RemoveCondemned, MaintSound, Dated, Alive, TypeOK, Rest
  <2>3. \A u \in Users : Working(u) /\ u \notin evicted => file' = file
    BY <1>10, HolderLives, LeaseIsNotNone DEF RemoveCondemned, MaintSound
  <2>4. LeaseOnDisk'
    BY <1>10, <2>3 DEF RemoveCondemned, LeaseOnDisk, Working, Mine, Owner
  <2> QED
    BY <1>0, <2>1, <2>2, <2>4
<1>11. ASSUME NEW p \in Procs, Die(p) PROVE IInv'
  <2>1. WorkersServed' /\ FileDated'
    BY <1>11 DEF Die, WorkersServed, FileDated, Working, Dated, TypeOK
  <2>2. MaintSound'
    BY <1>11 DEF Die, MaintSound, Dated, Alive, TypeOK, Rest, Leases, Owners
  <2>3. LeaseOnDisk'
    BY <1>11 DEF Die, LeaseOnDisk, Working, Mine, Owner, TypeOK
  <2> QED
    BY <1>0, <2>1, <2>2, <2>3
<1>12. ASSUME NEW p \in Procs, Start(p) PROVE IInv'
  <2>1. WorkersServed' /\ LeaseOnDisk'
    BY <1>12 DEF Start, WorkersServed, LeaseOnDisk, Working, Mine, Owner, TypeOK
  <2>2. \A lease \in Leases : Dated(lease) => Dated(lease)'
    BY <1>12 DEF Start, Dated, TypeOK, Leases, Owners
  <2>3. \A lease \in Leases : Dated(lease) /\ ~Alive(lease.owner) => ~Alive(lease.owner)'
    BY <1>12 DEF Start, Dated, Alive, TypeOK, Leases, Owners
  <2>4. FileDated' /\ MaintSound'
    BY <1>12, <2>2, <2>3 DEF Start, FileDated, MaintSound, TypeOK
  <2> QED
    BY <1>0, <2>1, <2>4
<1>13. CASE UNCHANGED vars
  BY <1>0, <1>13 DEF vars, WorkersServed, FileDated, MaintSound, LeaseOnDisk,
                     Working, Mine, Owner, Dated, Alive
<1> QED
  BY <1>1, <1>2, <1>3, <1>4, <1>5, <1>6, <1>7, <1>8, <1>9, <1>10, <1>11, <1>12, <1>13 DEF Next

-----------------------------------------------------------------------------
(* Any number of servers, reviews, operations and deaths: every variable   *)
(* keeps its type.                                                         *)
THEOREM TypeCorrect == Spec => []TypeOK
<1>1. TypeOK /\ [Next]_vars => TypeOK'
  BY TypePreserved
<1> QED
  BY <1>1, InitTypeOK, PTL DEF Spec

(* The strengthened invariant holds in every reachable state.              *)
THEOREM LeaseIInvHolds == Spec => []IInv
<1>1. IInv /\ [Next]_vars => IInv'
  BY IInvPreserved
<1> QED
  BY <1>1, InitIInv, PTL DEF Spec

(* An operation whose own process did not evict it works under the lease   *)
(* on disk: no expiry, death, restart or reclaim ever takes it away.       *)
THEOREM HolderKeepsLease == Spec => []LeaseOnDisk
<1>1. IInv => LeaseOnDisk
  BY DEF IInv
<1> QED
  BY <1>1, LeaseIInvHolds, PTL

(* One file names one owner, review and operation.                         *)
THEOREM MutualExclusion == Spec => []Exclusion
<1>1. IInv => Exclusion
  <2> SUFFICES ASSUME IInv, NEW u \in Users, NEW v \in Users,
                      Working(u), Working(v), u \notin evicted, v \notin evicted
               PROVE  Key(u) = Key(v)
    BY DEF Exclusion
  <2>1. Mine(u) /\ Mine(v)
    BY DEF IInv, LeaseOnDisk
  <2> QED
    BY <2>1 DEF Mine, Owner, Key
<1> QED
  BY <1>1, LeaseIInvHolds, PTL

(* The clock only moves forward and every write of the lease clamps its    *)
(* lifetime, so no lease outlives the ceiling.                             *)
THEOREM CeilingHolds == Spec => []UnderCeiling
<1>1. Init => UnderCeiling
  BY DEF Init, UnderCeiling
<1>2. TypeOK /\ UnderCeiling /\ [Next]_vars => UnderCeiling'
  <2> SUFFICES ASSUME TypeOK, UnderCeiling, [Next]_vars PROVE UnderCeiling'
    OBVIOUS
  <2>1. CASE Tick
    BY <2>1, LeaseIsNotNone, TimesAssumption DEF Tick, UnderCeiling, TypeOK, Leases
  <2>2. ASSUME NEW u \in Users, Refresh(u) PROVE UnderCeiling'
    <3>1. file \in Leases /\ file'.expires = now + Ttl(Requested[u]) /\ now' = now
      BY <2>2 DEF Refresh, Mine, TypeOK, Leases
    <3> QED
      BY <3>1, TtlRange, UsersAssumption, TimesAssumption DEF UnderCeiling, TypeOK
  <2>3. ASSUME NEW u \in Users, Acquire(u) PROVE UnderCeiling'
    <3>1. file'.expires = now + Ttl(Requested[u]) /\ now' = now
      BY <2>3 DEF Acquire
    <3> QED
      BY <3>1, TtlRange, UsersAssumption, TimesAssumption DEF UnderCeiling, TypeOK
  <2>4. ASSUME file' \in {file, NoLease}, now' = now PROVE UnderCeiling'
    BY <2>4 DEF UnderCeiling
  <2> QED
    BY <2>1, <2>2, <2>3, <2>4 DEF Next, Release, Reclaim, CleanUp, Serve, Inspect, Judge,
                                  RemoveCondemned, Die, Start, vars
<1> QED
  BY <1>1, <1>2, TypeCorrect, PTL DEF Spec

-----------------------------------------------------------------------------
(* Adoption without a person.                                             *)

(* The ledger is a sequence of attempts, none of them from the future.     *)
(* Nothing is said of the grant an attempt names.                          *)
Attempt(r, time) ==
    /\ r = [task |-> r.task, trigger |-> r.trigger, grant |-> r.grant,
            at |-> r.at, status |-> r.status]
    /\ r.at \in Nat /\ r.at <= time

IsLedger ==
    /\ clock \in Nat
    /\ \E S : attempts \in Seq(S)
    /\ \A a \in 1..Len(attempts) : Attempt(attempts[a], clock)

(* The attempts that fall into the window that ends at some time, and no   *)
(* window holds too many of them: also those that end in the future.       *)
Within(end) == {a \in 1..Len(attempts) : attempts[a].at \in (end - Window + 1)..end}
EveryWindow == \A end \in Int : Cardinality(Within(end)) <= Limit

Ledger == IsLedger /\ OncePerTask /\ EveryWindow

-----------------------------------------------------------------------------
(* What a step may do to the ledger: nothing, or a new status of one       *)
(* attempt, while time does not go back.                                   *)
SameAttempts ==
    /\ clock' \in Nat /\ clock <= clock'
    /\ \E S : attempts' \in Seq(S)
    /\ Len(attempts') = Len(attempts)
    /\ \A a \in 1..Len(attempts) :
          /\ attempts'[a].task = attempts[a].task /\ attempts'[a].trigger = attempts[a].trigger
          /\ attempts'[a].at = attempts[a].at /\ attempts'[a].grant = attempts[a].grant
          /\ attempts'[a] = [task |-> attempts'[a].task, trigger |-> attempts'[a].trigger,
                             grant |-> attempts'[a].grant, at |-> attempts'[a].at,
                             status |-> attempts'[a].status]

(* Such a step keeps the ledger what it was.                               *)
LEMMA SameAttemptsKeep ==
    ASSUME Ledger, SameAttempts PROVE Ledger'
<1>1. 1..Len(attempts') = 1..Len(attempts)
  BY DEF SameAttempts
<1>2. IsLedger'
  <2>1. ASSUME NEW a \in 1..Len(attempts) PROVE Attempt(attempts'[a], clock')
    <3>1. attempts[a].at \in Nat /\ attempts[a].at <= clock /\ clock \in Nat
      BY DEF Ledger, IsLedger, Attempt
    <3>2. attempts'[a].at = attempts[a].at /\ clock' \in Nat /\ clock <= clock'
      BY DEF SameAttempts
    <3>3. attempts'[a].at \in Nat /\ attempts'[a].at <= clock'
      BY <3>1, <3>2
    <3> QED
      BY <3>3 DEF SameAttempts, Attempt
  <2> QED
    BY <1>1, <2>1 DEF IsLedger, SameAttempts
<1>3. OncePerTask'
  <2> SUFFICES ASSUME NEW a \in 1..Len(attempts), NEW b \in 1..Len(attempts), a # b
               PROVE  /\ attempts'[a].task # attempts'[b].task
                      /\ attempts'[a].trigger # attempts'[b].trigger
    BY <1>1 DEF OncePerTask
  <2>1. attempts[a].task # attempts[b].task /\ attempts[a].trigger # attempts[b].trigger
    BY DEF Ledger, OncePerTask
  <2> QED
    BY <2>1 DEF SameAttempts
<1>4. EveryWindow'
  <2>1. \A end \in Int : Within(end)' = Within(end)
    BY <1>1 DEF Within, SameAttempts
  <2> QED
    BY <2>1 DEF Ledger, EveryWindow
<1> QED
  BY <1>2, <1>3, <1>4 DEF Ledger

(* Steps that leave the ledger alone, and settling one of its attempts.    *)
LEMMA Untouched ==
    ASSUME Ledger, UNCHANGED attempts, clock' \in Nat, clock <= clock'
    PROVE  SameAttempts
  BY DEF Ledger, IsLedger, Attempt, SameAttempts

(* One entry of a sequence is replaced.                                    *)
LEMMA Replaced ==
    ASSUME NEW S, NEW s \in Seq(S), NEW i, NEW e \in S
    PROVE  /\ [s EXCEPT ![i] = e] \in Seq(S) /\ Len([s EXCEPT ![i] = e]) = Len(s)
           /\ \A a \in 1..Len(s) : [s EXCEPT ![i] = e][a] = IF a = i THEN e ELSE s[a]
<1>1. CASE i \in 1..Len(s)
  BY <1>1, ExceptSeq
<1>2. CASE i \notin 1..Len(s)
  <2>1. [s EXCEPT ![i] = e] = s
    BY <1>2
  <2> QED
    BY <1>2, <2>1
<1> QED
  BY <1>1, <1>2

(* settle() changes the status of an attempt and nothing else of it.       *)
LEMMA SettleChangesStatus ==
    ASSUME Ledger, Settle PROVE SameAttempts
<1>1. UNCHANGED clock /\ attempts' = Settled(op.attempt, op.at)
  BY DEF Settle
<1>2. PICK S : attempts \in Seq(S)
  BY DEF Ledger, IsLedger
<1>3. CASE attempts' = attempts
  BY <1>1, <1>3, Untouched DEF Ledger, IsLedger
<1>4. CASE attempts' = [attempts EXCEPT ![op.attempt].status = op.at]
  <2> DEFINE changed == [attempts[op.attempt] EXCEPT !.status = op.at]
  <2>0. attempts \in Seq(S \cup {changed}) /\ attempts' = [attempts EXCEPT ![op.attempt] = changed]
    BY <1>2, <1>4
  <2>1. attempts' \in Seq(S \cup {changed}) /\ Len(attempts') = Len(attempts)
    BY <2>0, Replaced
  <2>2. \A a \in 1..Len(attempts) : attempts'[a] = IF a = op.attempt THEN changed ELSE attempts[a]
    <3> HIDE DEF changed
    <3>1. changed \in S \cup {changed}
      OBVIOUS
    <3> QED
      BY <2>0, <3>1, Replaced
  <2>3. op.attempt \in 1..Len(attempts) =>
          changed = [task |-> attempts[op.attempt].task, trigger |-> attempts[op.attempt].trigger,
                     grant |-> attempts[op.attempt].grant, at |-> attempts[op.attempt].at,
                     status |-> op.at]
    <3> SUFFICES ASSUME op.attempt \in 1..Len(attempts)
                 PROVE  [attempts[op.attempt] EXCEPT !.status = op.at] =
                          [task |-> attempts[op.attempt].task, trigger |-> attempts[op.attempt].trigger,
                           grant |-> attempts[op.attempt].grant, at |-> attempts[op.attempt].at,
                           status |-> op.at]
      OBVIOUS
    <3>1. PICK r : r = attempts[op.attempt] /\ Attempt(r, clock)
      BY DEF Ledger, IsLedger
    <3>2. [r EXCEPT !.status = op.at] =
            [task |-> r.task, trigger |-> r.trigger, grant |-> r.grant, at |-> r.at, status |-> op.at]
      BY <3>1 DEF Attempt
    <3> QED
      BY <3>1, <3>2
  <2>4. \A a \in 1..Len(attempts) :
          /\ attempts'[a].task = attempts[a].task /\ attempts'[a].trigger = attempts[a].trigger
          /\ attempts'[a].at = attempts[a].at /\ attempts'[a].grant = attempts[a].grant
          /\ attempts'[a] = [task |-> attempts'[a].task, trigger |-> attempts'[a].trigger,
                             grant |-> attempts'[a].grant, at |-> attempts'[a].at,
                             status |-> attempts'[a].status]
    BY <2>2, <2>3 DEF Ledger, IsLedger, Attempt
  <2> QED
    BY <1>1, <2>1, <2>4 DEF SameAttempts, Ledger, IsLedger
<1> QED
  BY <1>1, <1>3, <1>4 DEF Settled

-----------------------------------------------------------------------------
(* The one attempt a step may add.                                         *)
New == [task |-> op.item[1], trigger |-> op.item[2], grant |-> GrantFor,
        at |-> clock, status |-> "reserved"]

(* A reservation takes the last place of the ledger.                       *)
LEMMA Appended ==
    ASSUME Ledger, attempts' = Append(attempts, New)
    PROVE  /\ \E S : attempts' \in Seq(S)
           /\ Len(attempts) \in Nat /\ Len(attempts') = Len(attempts) + 1
           /\ \A a \in 1..Len(attempts) : attempts'[a] = attempts[a]
           /\ attempts'[Len(attempts) + 1] = New
<1>1. PICK S : attempts \in Seq(S)
  BY DEF Ledger, IsLedger
<1>2. attempts \in Seq(S \cup {New})
  BY <1>1
<1> QED
  BY <1>2

LEMMA UpTo ==
    ASSUME NEW n \in Nat PROVE IsFiniteSet(1..n)
<1>1. 1 \in Int /\ n \in Int
  OBVIOUS
<1> QED  BY <1>1, FS_Interval

(* What the ledger allows keeps its limits.                                *)
LEMMA ReservationKeeps ==
    ASSUME Ledger, NEW needs, Allowed(needs), attempts' = Append(attempts, New), UNCHANGED clock
    PROVE  Ledger'
<1> DEFINE n == Len(attempts) + 1
<1>1. /\ n \in Nat /\ 1..Len(attempts') = (1..Len(attempts)) \cup {n} /\ n \notin 1..Len(attempts)
      /\ \A a \in 1..Len(attempts) : attempts'[a] = attempts[a]
      /\ attempts'[n] = New
  BY Appended
<1>2. IsLedger'
  <2>1. \A a \in 1..Len(attempts) : Attempt(attempts'[a], clock)
    BY <1>1 DEF Ledger, IsLedger, Attempt
  <2>2. Attempt(attempts'[n], clock)
    BY <1>1 DEF Ledger, IsLedger, Attempt, New
  <2> QED
    BY <1>1, <2>1, <2>2, Appended DEF Ledger, IsLedger
<1>3. OncePerTask'
  <2>1. \A a \in 1..Len(attempts) :
          attempts[a].task # New.task /\ attempts[a].trigger # New.trigger
    BY DEF Allowed, UsedBy, New
  <2> QED
    BY <1>1, <2>1 DEF Ledger, OncePerTask
<1>4. ASSUME NEW end \in Int PROVE Cardinality(Within(end)') <= Limit
  <2>5. IsFiniteSet(1..Len(attempts))
    <3>1. Len(attempts) \in Nat
      BY Appended
    <3> QED  BY <3>1, UpTo
  <2>1. IsFiniteSet(Within(end)) /\ Cardinality(Within(end)) \in Nat
    <3>1. Within(end) \in SUBSET (1..Len(attempts))
      BY DEF Within
    <3> QED
      BY <2>5, <3>1, FS_Subset, FS_CardinalityType
  <2>2. Cardinality(Within(end)) <= Limit
    BY DEF Ledger, EveryWindow
  <2>3. CASE clock \notin (end - Window + 1)..end
    <3>1. Within(end)' = Within(end)
      BY <1>1, <2>3 DEF Within, New
    <3> QED
      BY <2>2, <3>1
  <2>4. CASE clock \in (end - Window + 1)..end
    <3>1. Within(end)' = Within(end) \cup {n} /\ n \notin Within(end)
      BY <1>1, <2>4 DEF Within, New
    <3>2. Within(end) \subseteq Recent
      BY <2>4, AdoptionAssumption DEF Within, Recent, Ledger, IsLedger, Attempt
    <3>3. IsFiniteSet(Recent) /\ Cardinality(Recent) \in Nat
      <4>1. Recent \in SUBSET (1..Len(attempts))
        BY DEF Recent
      <4> QED
        BY <2>5, <4>1, FS_Subset, FS_CardinalityType
    <3>4. Cardinality(Recent) < Limit
      BY DEF Allowed
    <3>5. Cardinality(Within(end)) <= Cardinality(Recent)
      BY <3>2, <3>3, FS_Subset
    <3>6. Cardinality(Within(end)') = Cardinality(Within(end)) + 1
      BY <2>1, <3>1, FS_AddElement
    <3> QED
      BY <2>1, <3>3, <3>4, <3>5, <3>6, AdoptionAssumption
  <2> QED
    BY <2>3, <2>4
<1>5. EveryWindow'
  BY <1>4 DEF EveryWindow
<1> QED
  BY <1>2, <1>3, <1>5 DEF Ledger

-----------------------------------------------------------------------------
(* The empty ledger is one.                                                *)
LEMMA InitLedger == AAInit => Ledger
<1> SUFFICES ASSUME AAInit PROVE Ledger
  OBVIOUS
<1>1. attempts = <<>> /\ Len(attempts) = 0 /\ 1..Len(attempts) = {} /\ clock = 0
  BY DEF AAInit
<1>2. IsLedger /\ OncePerTask
  <2>1. attempts \in Seq({})
    BY <1>1
  <2> QED
    BY <1>1, <2>1 DEF IsLedger, OncePerTask
<1>3. ASSUME NEW end \in Int PROVE Cardinality(Within(end)) <= Limit
  <2>1. Within(end) = {}
    BY <1>1 DEF Within
  <2> QED
    BY <2>1, FS_EmptySet, AdoptionAssumption
<1> QED
  BY <1>2, <1>3 DEF Ledger, EveryWindow

(* Every step keeps the ledger within its limits.                          *)
THEOREM LedgerIsKept == AASpec => []Ledger
<1>1. ASSUME Ledger, [AANext]_aavars PROVE Ledger'
  <2>1. clock \in Nat
    BY <1>1 DEF Ledger, IsLedger
  <2>2. CASE UNCHANGED <<attempts, clock>>
    BY <1>1, <2>1, <2>2, Untouched, SameAttemptsKeep
  <2>3. CASE TimePasses
    <3>1. UNCHANGED attempts /\ clock' = clock + 1
      BY <2>3 DEF TimePasses
    <3> QED
      BY <1>1, <2>1, <3>1, Untouched, SameAttemptsKeep
  <2>4. CASE Settle
    BY <1>1, <2>4, SettleChangesStatus, SameAttemptsKeep
  <2>5. ASSUME NEW needs \in Scopes, NEW sound \in BOOLEAN, Reserve(needs, sound) PROVE Ledger'
    <3>1. UNCHANGED clock
      BY <2>5 DEF Reserve
    <3>2. CASE UNCHANGED attempts
      BY <2>2, <3>1, <3>2
    <3>3. CASE Allowed(needs) /\ attempts' = Append(attempts, New)
      BY <1>1, <3>1, <3>3, ReservationKeeps
    <3> QED
      BY <2>5, <3>2, <3>3 DEF Reserve, New
  <2>6. ASSUME NEW i \in Items, AutoConfirm(i) \/ ManualConfirm(i) \/ RecoverApplied(i) \/ RecoverBefore(i)
        PROVE  Ledger'
    BY <2>2, <2>6 DEF AutoConfirm, ManualConfirm, RecoverApplied, RecoverBefore
  <2>7. ASSUME NEW o \in Writers, AskWrite(o) \/ WriteJournaled(o) PROVE Ledger'
    BY <2>2, <2>7 DEF AskWrite, WriteJournaled
  <2>8. CASE \/ AskBudget \/ JournalWrite \/ ConfirmRefused \/ ConfirmMark \/ Apply
             \/ WriteFails \/ Crash \/ \E form \in GrantForms : RegisterGrant(form)
    BY <2>2, <2>8 DEF AskBudget, JournalWrite, ConfirmRefused, ConfirmMark, Apply, WriteFails,
                      Crash, RegisterGrant
  <2>9. CASE UNCHANGED aavars
    BY <2>2, <2>9 DEF aavars
  <2> QED
    BY <1>1, <2>3, <2>4, <2>5, <2>6, <2>7, <2>8, <2>9 DEF AANext
<1> QED
  BY <1>1, InitLedger, PTL DEF AASpec

(* A task adopts without a person once, and so does a trigger, whatever    *)
(* failed, crashed or was given back in between.                           *)
THEOREM OneAttemptEach == AASpec => []OncePerTask
  BY LedgerIsKept, PTL DEF Ledger

(* No window of the ledger, wherever it is laid, holds more attempts than  *)
(* its limit.                                                              *)
THEOREM WindowIsKept == AASpec => []WindowHolds
<1>1. Ledger => WindowHolds
  <2> SUFFICES ASSUME Ledger, NEW end \in 0..clock PROVE Cardinality(Within(end)) <= Limit
    BY DEF WindowHolds, Within
  <2> QED
    BY DEF Ledger, EveryWindow
<1> QED
  BY <1>1, LedgerIsKept, PTL

-----------------------------------------------------------------------------
(* The budget of writes: what is journaled, and who asked and has not      *)
(* journaled yet.                                                          *)
OpShape == op = [at |-> op.at, item |-> op.item, attempt |-> op.attempt, auto |-> op.auto]
Budgeted == IF op.at = "budgeted" THEN 1 ELSE 0
Waiting == Cardinality(asked) + Budgeted
HourTo(end) == {w \in 1..Len(journal) : journal[w] \in (end - Hour + 1)..end}
EveryHour == \A end \in Int : Cardinality(HourTo(end)) <= MaxHourly + Cardinality(Writers)

IsJournal ==
    /\ clock \in Nat
    /\ journal \in Seq(Nat)
    /\ \A w \in 1..Len(journal) : journal[w] <= clock

(* Whoever asked has a place in the overrun: it can be journaled whatever  *)
(* is journaled before it.                                                 *)
Budget ==
    /\ IsJournal
    /\ OpShape
    /\ asked \subseteq Writers
    /\ Len(journal) + Waiting <= MaxWrites + Cardinality(Writers)
    /\ Cardinality(ThisHour) + Waiting <= MaxHourly + Cardinality(Writers)
    /\ EveryHour

(* The numbers these are about are numbers.                                *)
LEMMA BudgetNumbers ==
    ASSUME Budget
    PROVE  /\ Len(journal) \in Nat /\ clock \in Nat
           /\ IsFiniteSet(ThisHour) /\ Cardinality(ThisHour) \in Nat
           /\ \A end \in Int : IsFiniteSet(HourTo(end)) /\ Cardinality(HourTo(end)) \in Nat
           /\ IsFiniteSet(Writers) /\ Cardinality(Writers) \in Nat
           /\ IsFiniteSet(asked) /\ Cardinality(asked) \in Nat
           /\ Cardinality(asked) <= Cardinality(Writers)
           /\ Budgeted \in Nat /\ Budgeted <= 1
           /\ MaxWrites \in Nat /\ MaxHourly \in Nat /\ Hour \in Nat /\ Hour > 0
<1>1. Len(journal) \in Nat /\ clock \in Nat
  BY LenProperties DEF Budget, IsJournal
<1>2. IsFiniteSet(1..Len(journal))
  BY <1>1, UpTo
<1>3. ThisHour \in SUBSET (1..Len(journal)) /\ \A end \in Int : HourTo(end) \in SUBSET (1..Len(journal))
  BY DEF ThisHour, HourTo
<1>4. IsFiniteSet(ThisHour) /\ Cardinality(ThisHour) \in Nat
  BY <1>2, <1>3, FS_Subset, FS_CardinalityType
<1>5. ASSUME NEW end \in Int PROVE IsFiniteSet(HourTo(end)) /\ Cardinality(HourTo(end)) \in Nat
  BY <1>2, <1>3, FS_Subset, FS_CardinalityType
<1>6. IsFiniteSet(Writers) /\ Cardinality(Writers) \in Nat
  BY AdoptionAssumption, FS_CardinalityType
<1>7. /\ IsFiniteSet(asked) /\ Cardinality(asked) \in Nat
      /\ Cardinality(asked) <= Cardinality(Writers)
  BY <1>6, FS_Subset, FS_CardinalityType DEF Budget
<1>8. Budgeted \in Nat /\ Budgeted <= 1
  BY DEF Budgeted
<1>9. MaxWrites \in Nat /\ MaxHourly \in Nat /\ Hour \in Nat /\ Hour > 0
  BY AdoptionAssumption
<1> QED
  BY <1>1, <1>4, <1>5, <1>6, <1>7, <1>8, <1>9

(* A step that journals nothing and lets nobody ask.                       *)
NobodyAsks ==
    /\ clock' \in Nat /\ clock <= clock' /\ journal' = journal
    /\ asked' \subseteq asked
    /\ op'.at = "budgeted" => op.at = "budgeted"
    /\ op' = [at |-> op'.at, item |-> op'.item, attempt |-> op'.attempt, auto |-> op'.auto]

LEMMA NobodyAsksKeeps ==
    ASSUME Budget, NobodyAsks PROVE Budget'
<1>0. /\ Len(journal) \in Nat /\ clock \in Nat /\ Cardinality(ThisHour) \in Nat
      /\ Cardinality(Writers) \in Nat /\ Cardinality(asked) \in Nat /\ Budgeted \in Nat
      /\ MaxWrites \in Nat /\ MaxHourly \in Nat /\ Hour \in Nat /\ Hour > 0
  BY BudgetNumbers
<1>1. IsJournal'
  BY DEF Budget, IsJournal, NobodyAsks
<1>2. asked' \subseteq Writers /\ Cardinality(asked') \in Nat /\ Cardinality(asked') <= Cardinality(asked)
  BY BudgetNumbers, FS_Subset, FS_CardinalityType DEF Budget, NobodyAsks
<1>3. Budgeted' \in Nat /\ Budgeted' <= Budgeted
  BY DEF Budgeted, NobodyAsks
<1>4. ThisHour' \subseteq ThisHour
  <2>1. \A w \in 1..Len(journal) : journal[w] \in Nat
    BY DEF Budget, IsJournal
  <2>2. clock' \in Nat /\ clock <= clock' /\ journal' = journal
    BY DEF NobodyAsks
  <2> SUFFICES ASSUME NEW w \in 1..Len(journal), clock' - journal[w] < Hour
               PROVE  clock - journal[w] < Hour
    BY <2>2 DEF ThisHour
  <2> QED
    BY <1>0, <2>1, <2>2
<1>5. Cardinality(ThisHour') \in Nat /\ Cardinality(ThisHour') <= Cardinality(ThisHour)
  BY <1>4, BudgetNumbers, FS_Subset, FS_CardinalityType
<1>6. Waiting' \in Nat /\ Waiting \in Nat /\ Waiting' <= Waiting
  BY <1>0, <1>2, <1>3 DEF Waiting
<1>7. Len(journal') = Len(journal)
  BY DEF NobodyAsks
<1>8. Len(journal') + Waiting' <= MaxWrites + Cardinality(Writers)
  <2>1. Len(journal) + Waiting <= MaxWrites + Cardinality(Writers)
    BY DEF Budget
  <2> QED
    BY <1>0, <1>6, <1>7, <2>1
<1>9. Cardinality(ThisHour') + Waiting' <= MaxHourly + Cardinality(Writers)
  <2>1. Cardinality(ThisHour) + Waiting <= MaxHourly + Cardinality(Writers)
    BY DEF Budget
  <2> QED
    BY <1>0, <1>5, <1>6, <2>1
<1>10. EveryHour'
  <2>1. \A end \in Int : HourTo(end)' = HourTo(end)
    BY DEF HourTo, NobodyAsks
  <2> QED
    BY <2>1 DEF Budget, EveryHour
<1> QED
  BY <1>1, <1>2, <1>8, <1>9, <1>10 DEF Budget, OpShape, NobodyAsks

(* Somebody asks while the budget is left: one more waits, and all that    *)
(* wait are one for each writer and the task service.                      *)
LEMMA AskKeeps ==
    ASSUME Budget, BudgetLeft, UNCHANGED <<clock, journal>>, asked' \subseteq Writers, OpShape'
    PROVE  Budget'
<1>0. /\ Len(journal) \in Nat /\ clock \in Nat /\ Cardinality(ThisHour) \in Nat
      /\ Cardinality(Writers) \in Nat /\ Cardinality(asked) \in Nat /\ Budgeted \in Nat
      /\ MaxWrites \in Nat /\ MaxHourly \in Nat /\ Hour \in Nat /\ Hour > 0
  BY BudgetNumbers
<1>1. IsJournal'
  BY DEF Budget, IsJournal
<1>2. Cardinality(asked') \in Nat /\ Cardinality(asked') <= Cardinality(Writers)
  BY BudgetNumbers, FS_Subset, FS_CardinalityType
<1>3. Budgeted' \in Nat /\ Budgeted' <= 1
  BY DEF Budgeted
<1>4. Waiting' \in Nat /\ Waiting' <= Cardinality(Writers) + 1
  BY <1>0, <1>2, <1>3 DEF Waiting
<1>5. ThisHour' = ThisHour /\ Len(journal') = Len(journal)
  BY DEF ThisHour
<1>6. Len(journal) < MaxWrites /\ Cardinality(ThisHour) < MaxHourly
  BY DEF BudgetLeft
<1>7. Len(journal') + Waiting' <= MaxWrites + Cardinality(Writers)
  BY <1>0, <1>4, <1>5, <1>6
<1>8. Cardinality(ThisHour') + Waiting' <= MaxHourly + Cardinality(Writers)
  <2>1. Cardinality(ThisHour') = Cardinality(ThisHour)
    BY <1>5
  <2> QED
    BY <1>0, <1>4, <1>6, <2>1
<1>9. EveryHour'
  <2>1. \A end \in Int : HourTo(end)' = HourTo(end)
    BY DEF HourTo
  <2> QED
    BY <2>1 DEF Budget, EveryHour
<1> QED
  BY <1>1, <1>7, <1>8, <1>9 DEF Budget

(* One of those that wait is journaled: it takes the place it had.         *)
LEMMA JournalKeeps ==
    ASSUME Budget, Journaled, UNCHANGED clock, asked' \subseteq Writers, OpShape',
           Waiting' \in Nat, Waiting' + 1 = Waiting
    PROVE  Budget'
<1> DEFINE n == Len(journal) + 1
<1>0. /\ Len(journal) \in Nat /\ clock \in Nat /\ Cardinality(ThisHour) \in Nat
      /\ Cardinality(Writers) \in Nat /\ Cardinality(asked) \in Nat /\ Budgeted \in Nat
      /\ MaxWrites \in Nat /\ MaxHourly \in Nat /\ Hour \in Nat /\ Hour > 0
  BY BudgetNumbers
<1>1. /\ journal' \in Seq(Nat) /\ Len(journal') = n /\ n \in Nat
      /\ 1..Len(journal') = (1..Len(journal)) \cup {n} /\ n \notin 1..Len(journal)
      /\ \A w \in 1..Len(journal) : journal'[w] = journal[w]
      /\ journal'[n] = clock
  BY AppendProperties, LenProperties DEF Budget, IsJournal, Journaled
<1>2. IsJournal'
  <2>1. \A w \in 1..Len(journal) : journal[w] <= clock
    BY DEF Budget, IsJournal
  <2>2. \A w \in 1..Len(journal') : journal'[w] <= clock
    BY <1>0, <1>1, <2>1
  <2> QED
    BY <1>0, <1>1, <2>2 DEF IsJournal
<1>3. Len(journal') + Waiting' <= MaxWrites + Cardinality(Writers)
  <2>1. Len(journal) + Waiting <= MaxWrites + Cardinality(Writers)
    BY DEF Budget
  <2> QED
    BY <1>0, <1>1, <2>1
<1>4. ThisHour' = ThisHour \cup {n} /\ n \notin ThisHour
  <2>1. clock - journal'[n] < Hour /\ UNCHANGED clock
    BY <1>0, <1>1
  <2> QED
    BY <1>1, <2>1 DEF ThisHour
<1>5. Cardinality(ThisHour') = Cardinality(ThisHour) + 1
  BY <1>4, BudgetNumbers, FS_AddElement
<1>6. Cardinality(ThisHour') + Waiting' <= MaxHourly + Cardinality(Writers)
  <2>1. Cardinality(ThisHour) + Waiting <= MaxHourly + Cardinality(Writers)
    BY DEF Budget
  <2> QED
    BY <1>0, <1>5, <2>1
<1>7. ASSUME NEW end \in Int PROVE Cardinality(HourTo(end)') <= MaxHourly + Cardinality(Writers)
  <2>1. CASE clock \notin (end - Hour + 1)..end
    <3>1. HourTo(end)' = HourTo(end)
      BY <1>1, <2>1 DEF HourTo
    <3> QED
      BY <3>1 DEF Budget, EveryHour
  <2>2. CASE clock \in (end - Hour + 1)..end
    <3>1. HourTo(end)' = HourTo(end) \cup {n} /\ n \notin HourTo(end)
      BY <1>1, <2>2 DEF HourTo
    <3>2. HourTo(end) \subseteq ThisHour
      <4> SUFFICES ASSUME NEW w \in 1..Len(journal), journal[w] \in (end - Hour + 1)..end
                   PROVE  clock - journal[w] < Hour
        BY DEF HourTo, ThisHour
      <4>1. journal[w] \in Nat
        BY DEF Budget, IsJournal
      <4> QED
        BY <1>0, <2>2, <4>1
    <3>3. Cardinality(HourTo(end)) <= Cardinality(ThisHour)
      BY <3>2, BudgetNumbers, FS_Subset
    <3>4. Cardinality(HourTo(end)') = Cardinality(HourTo(end)) + 1
      BY <3>1, BudgetNumbers, FS_AddElement
    <3>5. Cardinality(HourTo(end)) \in Nat
      BY BudgetNumbers
    <3> QED
      BY <1>0, <1>5, <1>6, <3>3, <3>4, <3>5
  <2> QED
    BY <2>1, <2>2
<1>8. EveryHour'
  BY <1>7 DEF EveryHour
<1> QED
  BY <1>2, <1>3, <1>6, <1>8 DEF Budget

(* An empty journal, and nobody asked.                                     *)
LEMMA InitBudget == AAInit => Budget
<1> SUFFICES ASSUME AAInit PROVE Budget
  OBVIOUS
<1>1. journal = <<>> /\ Len(journal) = 0 /\ 1..Len(journal) = {} /\ clock = 0 /\ asked = {} /\ op = NoOp
  BY DEF AAInit
<1>2. IsJournal /\ OpShape /\ asked \subseteq Writers
  BY <1>1 DEF IsJournal, OpShape, NoOp
<1>3. ThisHour = {} /\ \A end \in Int : HourTo(end) = {}
  BY <1>1 DEF ThisHour, HourTo
<1>4. Waiting = 0
  BY <1>1, FS_EmptySet DEF Waiting, Budgeted, NoOp
<1>5. Cardinality(ThisHour) = 0 /\ \A end \in Int : Cardinality(HourTo(end)) = 0
  BY <1>3, FS_EmptySet
<1>6. Cardinality(Writers) \in Nat /\ MaxWrites \in Nat /\ MaxHourly \in Nat
  BY AdoptionAssumption, FS_CardinalityType
<1> QED
  BY <1>1, <1>2, <1>4, <1>5, <1>6 DEF Budget, EveryHour

(* The steps that let nobody ask and journal nothing.                      *)
LEMMA QuietSteps ==
    ASSUME Budget,
           \/ \E form \in GrantForms : RegisterGrant(form)
           \/ \E i \in Items : \/ AutoConfirm(i) \/ ManualConfirm(i)
                               \/ RecoverApplied(i) \/ RecoverBefore(i)
           \/ \E needs \in Scopes, sound \in BOOLEAN : Reserve(needs, sound)
           \/ ConfirmRefused \/ ConfirmMark \/ Apply \/ Settle
           \/ WriteFails \/ TimePasses \/ Crash \/ UNCHANGED aavars
    PROVE  NobodyAsks
<1>1. /\ clock \in Nat /\ OpShape
      /\ NoOp = [at |-> NoOp.at, item |-> NoOp.item, attempt |-> NoOp.attempt, auto |-> NoOp.auto]
      /\ NoOp.at # "budgeted"
  BY DEF Budget, IsJournal, NoOp
<1>2. CASE TimePasses
  BY <1>1, <1>2 DEF TimePasses, NobodyAsks, OpShape
<1>3. CASE UNCHANGED <<clock, journal, asked, op>>
  BY <1>1, <1>3 DEF NobodyAsks, OpShape
<1>4. CASE op' = NoOp /\ asked' \subseteq asked /\ UNCHANGED <<clock, journal>>
  <2>1. op'.at # "budgeted"
    BY <1>1, <1>4
  <2> QED
    BY <1>1, <1>4, <2>1 DEF NobodyAsks
<1>5. ASSUME NEW i, UNCHANGED <<clock, journal, asked>>,
             NEW place, NEW attempt, NEW auto, place # "budgeted",
             op' = [at |-> place, item |-> i, attempt |-> attempt, auto |-> auto]
      PROVE  NobodyAsks
  BY <1>1, <1>5 DEF NobodyAsks
<1>6. ASSUME NEW i \in Items,
             AutoConfirm(i) \/ ManualConfirm(i) \/ RecoverApplied(i) \/ RecoverBefore(i)
      PROVE  NobodyAsks
  <2>1. CASE AutoConfirm(i)
    BY <1>5, <2>1 DEF AutoConfirm
  <2>2. CASE ManualConfirm(i)
    BY <1>5, <2>2 DEF ManualConfirm
  <2>3. CASE RecoverApplied(i)
    BY <1>5, <2>3 DEF RecoverApplied
  <2>4. CASE RecoverBefore(i)
    BY <1>3, <2>4 DEF RecoverBefore
  <2> QED
    BY <1>6, <2>1, <2>2, <2>3, <2>4
<1>7. ASSUME NEW needs \in Scopes, NEW sound \in BOOLEAN, Reserve(needs, sound) PROVE NobodyAsks
  <2>1. UNCHANGED <<clock, journal, asked>>
    BY <1>7 DEF Reserve
  <2>2. CASE op' = NoOp
    BY <1>4, <2>1, <2>2
  <2>3. CASE op' = [op EXCEPT !.at = "reserved", !.attempt = Len(attempts) + 1]
    <3>1. op' = [at |-> "reserved", item |-> op.item, attempt |-> Len(attempts) + 1, auto |-> op.auto]
      BY <1>1, <2>3 DEF OpShape
    <3> QED
      BY <1>5, <2>1, <3>1
  <2> QED
    BY <1>7, <2>2, <2>3 DEF Reserve
<1>8. ASSUME NEW place, place # "budgeted", GoOn(place), UNCHANGED <<clock, journal, asked>>
      PROVE  NobodyAsks
  <2>1. op' = [at |-> place, item |-> op.item, attempt |-> op.attempt, auto |-> op.auto]
    BY <1>1, <1>8 DEF OpShape, GoOn
  <2> QED
    BY <1>5, <1>8, <2>1
<1>9. CASE ConfirmMark \/ Apply
  BY <1>8, <1>9 DEF ConfirmMark, Apply
<1>10. CASE ConfirmRefused \/ Settle \/ Crash
  BY <1>4, <1>10 DEF ConfirmRefused, Settle, Crash
<1>11. CASE WriteFails
  <2>1. asked' \subseteq asked /\ UNCHANGED <<clock, journal, op>>
    BY <1>11 DEF WriteFails
  <2> QED
    BY <1>1, <2>1 DEF NobodyAsks, OpShape
<1>12. CASE UNCHANGED aavars
  BY <1>3, <1>12 DEF aavars
<1>13. CASE \E form \in GrantForms : RegisterGrant(form)
  BY <1>3, <1>13 DEF RegisterGrant
<1> QED
  BY <1>2, <1>6, <1>7, <1>9, <1>10, <1>11, <1>12, <1>13

(* No step lets the writes overrun the budget by more than one for each    *)
(* writer, whatever fails or crashes, and in whichever hour it is counted. *)
THEOREM BudgetHolds == AASpec => []Budget
<1>1. ASSUME Budget, [AANext]_aavars PROVE Budget'
  <2>0. /\ Cardinality(asked) \in Nat /\ IsFiniteSet(asked) /\ OpShape /\ asked \subseteq Writers
        /\ Budgeted \in Nat
    BY <1>1, BudgetNumbers DEF Budget
  <2>1. CASE AskBudget
    <3>1. CASE BudgetLeft /\ GoOn("budgeted")
      <4>1. UNCHANGED <<clock, journal, asked>>
        BY <2>1 DEF AskBudget
      <4>2. op' = [at |-> "budgeted", item |-> op.item, attempt |-> op.attempt, auto |-> op.auto]
        BY <2>0, <3>1 DEF GoOn, OpShape
      <4>3. OpShape' /\ asked' \subseteq Writers
        BY <2>0, <4>1, <4>2 DEF OpShape
      <4> QED
        BY <1>1, <3>1, <4>1, <4>3, AskKeeps
    <3>2. CASE op' = NoOp
      <4>1. NobodyAsks
        BY <1>1, <2>1, <3>2 DEF AskBudget, NobodyAsks, NoOp, Budget, IsJournal
      <4> QED
        BY <1>1, <4>1, NobodyAsksKeeps
    <3> QED
      BY <2>1, <3>1, <3>2 DEF AskBudget
  <2>2. ASSUME NEW o \in Writers, AskWrite(o) PROVE Budget'
    <3>1. BudgetLeft /\ UNCHANGED <<clock, journal, op>> /\ asked' = asked \cup {o}
      BY <2>2 DEF AskWrite
    <3>2. OpShape' /\ asked' \subseteq Writers
      BY <2>0, <3>1 DEF OpShape
    <3> QED
      BY <1>1, <3>1, <3>2, AskKeeps
  <2>3. CASE JournalWrite
    <3>1. Journaled /\ UNCHANGED <<clock, asked>> /\ op.at = "budgeted"
      BY <2>3 DEF JournalWrite
    <3>2. op' = [at |-> "journaled", item |-> op.item, attempt |-> op.attempt, auto |-> op.auto]
      BY <2>0, <2>3 DEF JournalWrite, GoOn, OpShape
    <3>3. Budgeted = 1 /\ Budgeted' = 0
      BY <3>1, <3>2 DEF Budgeted
    <3>4. Waiting' \in Nat /\ Waiting' + 1 = Waiting
      BY <2>0, <3>1, <3>3 DEF Waiting
    <3>5. OpShape' /\ asked' \subseteq Writers
      BY <2>0, <3>1, <3>2 DEF OpShape
    <3> QED
      BY <1>1, <3>1, <3>4, <3>5, JournalKeeps
  <2>4. ASSUME NEW o \in Writers, WriteJournaled(o) PROVE Budget'
    <3>1. Journaled /\ UNCHANGED <<clock, op>> /\ o \in asked /\ asked' = asked \ {o}
      BY <2>4 DEF WriteJournaled
    <3>2. Cardinality(asked') = Cardinality(asked) - 1 /\ Cardinality(asked') \in Nat
      <4>1. IsFiniteSet(asked') /\ Cardinality(asked') = Cardinality(asked) - 1
        BY <2>0, <3>1, FS_RemoveElement
      <4> QED
        BY <4>1, FS_CardinalityType
    <3>3. Budgeted' = Budgeted
      BY <3>1 DEF Budgeted
    <3>4. Waiting' \in Nat /\ Waiting' + 1 = Waiting
      BY <2>0, <3>2, <3>3 DEF Waiting
    <3>5. OpShape' /\ asked' \subseteq Writers
      BY <2>0, <3>1 DEF OpShape
    <3> QED
      BY <1>1, <3>1, <3>4, <3>5, JournalKeeps
  <2> QED
    BY <1>1, <2>1, <2>2, <2>3, <2>4, QuietSteps, NobodyAsksKeeps DEF AANext
<1> QED
  BY <1>1, InitBudget, PTL DEF AASpec

-----------------------------------------------------------------------------
(* The grant that governs: the least remaining time exists, and among the  *)
(* grants with it the first.                                               *)
LEMMA Least ==
    ASSUME NEW T \in SUBSET Nat, T # {}
    PROVE  \E x \in T : \A y \in T : x <= y
<1>1. PICK x \in T : \A y \in T : <<y, x>> \notin OpToRel(<, Nat)
  BY WFMin, NatLessThanWellFounded, Zenon
<1>2. \A y \in T : ~(y < x)
  BY <1>1, Zenon DEF OpToRel
<1> QED
  BY <1>2

IsGrants ==
    /\ clock \in Nat
    /\ \E S : grants \in Seq(S)
    /\ \A g \in 1..Len(grants) :
          grants[g].until \in Int /\ grants[g].created \in Nat /\ grants[g].created <= clock

LEMMA GrantGoverns ==
    ASSUME IsGrants, LiveGrants # {}
    PROVE  GrantFor \in LiveGrants
<1> DEFINE Worth == {Effective(grants[g]) : g \in LiveGrants}
<1>1. \A g \in LiveGrants : g \in 1..Len(grants) /\ Effective(grants[g]) \in Nat
  <2> SUFFICES ASSUME NEW g \in LiveGrants
               PROVE  g \in 1..Len(grants) /\ Effective(grants[g]) \in Nat
    OBVIOUS
  <2>1. g \in 1..Len(grants) /\ Effective(grants[g]) > clock
    BY DEF LiveGrants
  <2>2. grants[g].until \in Int /\ grants[g].created \in Nat /\ clock \in Nat
    BY <2>1 DEF IsGrants
  <2>3. GrantTtl \in Nat
    BY AdoptionAssumption
  <2>4. Effective(grants[g]) \in Int
    BY <2>2, <2>3 DEF Effective, Smaller
  <2> QED
    BY <2>1, <2>2, <2>4
<1>2. PICK e \in Worth : \A y \in Worth : e <= y
  <2>1. Worth \in SUBSET Nat /\ Worth # {}
    BY <1>1
  <2> HIDE DEF Worth
  <2> QED
    BY <2>1, Least
<1> DEFINE Firsts == {g \in LiveGrants : Effective(grants[g]) = e}
<1>3. PICK g \in Firsts : \A h \in Firsts : g <= h
  <2>1. Firsts \in SUBSET Nat /\ Firsts # {}
    BY <1>1, <1>2
  <2> HIDE DEF Firsts
  <2> QED
    BY <2>1, Least
<1>4. \A h \in LiveGrants :
          \/ Effective(grants[g]) < Effective(grants[h])
          \/ Effective(grants[g]) = Effective(grants[h]) /\ g <= h
  <2> SUFFICES ASSUME NEW h \in LiveGrants
               PROVE  \/ Effective(grants[g]) < Effective(grants[h])
                      \/ Effective(grants[g]) = Effective(grants[h]) /\ g <= h
    OBVIOUS
  <2>1. Effective(grants[g]) = e /\ e <= Effective(grants[h]) /\ e \in Nat
    BY <1>1, <1>2, <1>3
  <2>2. Effective(grants[h]) = e => g <= h
    BY <1>3
  <2>3. Effective(grants[h]) \in Nat
    BY <1>1
  <2> QED
    BY <2>1, <2>2, <2>3
<1>5. g \in LiveGrants
  BY <1>3
<1> HIDE DEF Worth, Firsts
<1> QED
  BY <1>4, <1>5, Zenon DEF GrantFor

(* Every attempt names a grant that had not outlived the cap of its time.  *)
Given(r) ==
    /\ r.grant \in 1..Len(grants)
    /\ r.at - grants[r.grant].created < GrantTtl

Granted == IsGrants /\ \A a \in 1..Len(attempts) : Given(attempts[a])

(* A grant that governs has time left of the cap.                          *)
LEMMA GoverningIsYoung ==
    ASSUME IsGrants, LiveGrants # {}
    PROVE  GrantFor \in 1..Len(grants) /\ clock - grants[GrantFor].created < GrantTtl
<1>1. GrantFor \in 1..Len(grants) /\ Effective(grants[GrantFor]) > clock
  BY GrantGoverns DEF LiveGrants
<1>2. PICK g : g = GrantFor
  OBVIOUS
<1>3. grants[g].until \in Int /\ grants[g].created \in Nat /\ clock \in Nat /\ GrantTtl \in Nat
  BY <1>1, <1>2, AdoptionAssumption DEF IsGrants
<1>4. Effective(grants[g]) <= grants[g].created + GrantTtl /\ Effective(grants[g]) \in Int
  BY <1>3 DEF Effective, Smaller
<1> QED
  BY <1>1, <1>2, <1>3, <1>4

(* Steps that register no grant: the grants of the attempts stay, and the  *)
(* one that may be added is given under the grant that governs.            *)
LEMMA SameGrantsKeep ==
    ASSUME Ledger, Granted, UNCHANGED grants, clock' \in Nat, clock <= clock',
           \/ SameAttempts
           \/ LiveGrants # {} /\ attempts' = Append(attempts, New)
    PROVE  Granted'
<1>1. IsGrants'
  <2>1. \A g \in 1..Len(grants) :
            grants[g].until \in Int /\ grants[g].created \in Nat /\ grants[g].created <= clock'
    <3> SUFFICES ASSUME NEW g \in 1..Len(grants)
                 PROVE  grants[g].until \in Int /\ grants[g].created \in Nat /\ grants[g].created <= clock'
      OBVIOUS
    <3>1. /\ grants[g].until \in Int /\ grants[g].created \in Nat /\ grants[g].created <= clock
          /\ clock \in Nat
      BY DEF Granted, IsGrants
    <3> QED
      BY <3>1
  <2> QED
    BY <2>1 DEF Granted, IsGrants
<1>2. CASE SameAttempts
  <2>1. \A a \in 1..Len(attempts') : a \in 1..Len(attempts) /\ Given(attempts[a])
    BY <1>2 DEF SameAttempts, Granted
  <2>2. \A a \in 1..Len(attempts) :
            attempts'[a].grant = attempts[a].grant /\ attempts'[a].at = attempts[a].at
    BY <1>2 DEF SameAttempts
  <2>3. \A a \in 1..Len(attempts') : Given(attempts[a])'
    BY <2>1, <2>2 DEF Given
  <2> QED
    BY <1>1, <2>3 DEF Granted
<1>3. CASE LiveGrants # {} /\ attempts' = Append(attempts, New)
  <2> DEFINE n == Len(attempts) + 1
  <2>1. /\ 1..Len(attempts') = (1..Len(attempts)) \cup {n}
        /\ \A a \in 1..Len(attempts) : attempts'[a] = attempts[a]
        /\ attempts'[n] = New
    <3>1. /\ Len(attempts) \in Nat /\ Len(attempts') = Len(attempts) + 1
          /\ \A a \in 1..Len(attempts) : attempts'[a] = attempts[a]
          /\ attempts'[Len(attempts) + 1] = New
      BY <1>3, Appended
    <3> QED
      BY <3>1
  <2>2. GrantFor \in 1..Len(grants) /\ clock - grants[GrantFor].created < GrantTtl
    BY <1>3, GoverningIsYoung DEF Granted
  <2>3. New.grant = GrantFor /\ New.at = clock
    BY DEF New
  <2> HIDE DEF n
  <2>4. ASSUME NEW a \in 1..Len(attempts') PROVE Given(attempts[a])'
    <3>1. CASE a = n
      BY <2>1, <2>2, <2>3, <3>1 DEF Given
    <3>2. CASE a \in 1..Len(attempts)
      BY <2>1, <3>2 DEF Given, Granted
    <3> QED
      BY <2>1, <2>4, <3>1, <3>2
  <2> QED
    BY <1>1, <2>4 DEF Granted
<1> QED
  BY <1>2, <1>3

(* A grant a person registers takes the last place.                        *)
LEMMA RegisterKeeps ==
    ASSUME Granted, NEW form \in GrantForms, RegisterGrant(form)
    PROVE  Granted'
<1> DEFINE given == [scope |-> form[1], until |-> form[2], created |-> clock]
           n == Len(grants) + 1
<1>1. PICK S : grants \in Seq(S)
  BY DEF Granted, IsGrants
<1>2. grants' = Append(grants, given) /\ UNCHANGED <<clock, attempts>>
  BY DEF RegisterGrant
<1>3. grants \in Seq(S \cup {given}) /\ given \in S \cup {given}
  BY <1>1
<1>4. form[2] \in Int
  BY AdoptionAssumption
<1>5. given.until \in Int /\ given.created = clock /\ clock \in Nat
  BY <1>4 DEF Granted, IsGrants
<1> HIDE DEF given
<1>6. /\ grants' \in Seq(S \cup {given}) /\ Len(grants) \in Nat /\ Len(grants') = n
      /\ \A g \in 1..Len(grants) : grants'[g] = grants[g]
      /\ grants'[n] = given
  BY <1>2, <1>3, AppendProperties, LenProperties
<1>7. 1..Len(grants') = (1..Len(grants)) \cup {n}
  BY <1>6
<1> HIDE DEF n
<1>8. IsGrants'
  <2>1. \A g \in 1..Len(grants') :
            grants'[g].until \in Int /\ grants'[g].created \in Nat /\ grants'[g].created <= clock
    BY <1>5, <1>6, <1>7 DEF Granted, IsGrants
  <2> QED
    BY <1>2, <1>5, <1>6, <2>1 DEF IsGrants
<1>9. \A a \in 1..Len(attempts') : Given(attempts[a])'
  BY <1>2, <1>6, <1>7 DEF Granted, Given
<1> QED
  BY <1>8, <1>9 DEF Granted

(* Every step keeps the attempts under grants that were young enough.      *)
THEOREM GrantsHold == AASpec => []Granted
<1>1. AAInit => Granted
  <2> SUFFICES ASSUME AAInit PROVE Granted
    OBVIOUS
  <2>1. /\ attempts = <<>> /\ grants = <<>> /\ clock = 0 /\ grants \in Seq({})
        /\ 1..Len(attempts) = {} /\ 1..Len(grants) = {}
    BY DEF AAInit
  <2> QED
    BY <2>1 DEF Granted, IsGrants
<1>2. ASSUME Ledger, Granted, [AANext]_aavars PROVE Granted'
  <2>1. clock \in Nat
    BY <1>2 DEF Ledger, IsLedger
  <2>2. CASE UNCHANGED <<attempts, grants, clock>>
    BY <1>2, <2>1, <2>2, Untouched, SameGrantsKeep
  <2>3. CASE TimePasses
    <3>1. UNCHANGED <<attempts, grants>> /\ clock' = clock + 1
      BY <2>3 DEF TimePasses
    <3>2. clock' \in Nat /\ clock <= clock'
      BY <2>1, <3>1
    <3> QED
      BY <1>2, <3>1, <3>2, Untouched, SameGrantsKeep
  <2>4. CASE Settle
    <3>1. UNCHANGED <<grants, clock>>
      BY <2>4 DEF Settle
    <3>2. SameAttempts
      BY <1>2, <2>4, SettleChangesStatus
    <3> QED
      BY <1>2, <2>1, <3>1, <3>2, SameGrantsKeep
  <2>5. ASSUME NEW needs \in Scopes, NEW sound \in BOOLEAN, Reserve(needs, sound) PROVE Granted'
    <3>1. UNCHANGED <<clock, grants>>
      BY <2>5 DEF Reserve
    <3>2. CASE UNCHANGED attempts
      BY <2>2, <3>1, <3>2
    <3>3. CASE Allowed(needs) /\ attempts' = Append(attempts, New)
      <4>1. LiveGrants # {}
        BY <3>3 DEF Allowed
      <4> QED
        BY <1>2, <2>1, <3>1, <3>3, <4>1, SameGrantsKeep
    <3> QED
      BY <2>5, <3>2, <3>3 DEF Reserve, New
  <2>6. ASSUME NEW i \in Items, AutoConfirm(i) \/ ManualConfirm(i) \/ RecoverApplied(i) \/ RecoverBefore(i)
        PROVE  Granted'
    BY <2>2, <2>6 DEF AutoConfirm, ManualConfirm, RecoverApplied, RecoverBefore
  <2>7. ASSUME NEW o \in Writers, AskWrite(o) \/ WriteJournaled(o) PROVE Granted'
    BY <2>2, <2>7 DEF AskWrite, WriteJournaled
  <2>8. CASE \/ AskBudget \/ JournalWrite \/ ConfirmRefused \/ ConfirmMark \/ Apply \/ WriteFails \/ Crash
    BY <2>2, <2>8 DEF AskBudget, JournalWrite, ConfirmRefused, ConfirmMark, Apply, WriteFails, Crash
  <2>9. CASE UNCHANGED aavars
    BY <2>2, <2>9 DEF aavars
  <2>10. ASSUME NEW form \in GrantForms, RegisterGrant(form) PROVE Granted'
    BY <1>2, <2>10, RegisterKeeps
  <2> QED
    BY <1>2, <2>3, <2>4, <2>5, <2>6, <2>7, <2>8, <2>9, <2>10 DEF AANext
<1> QED
  BY <1>1, <1>2, LedgerIsKept, PTL DEF AASpec

(* The limits of adoption without a person hold for any clock, any file of *)
(* grants and any crash: one attempt of a task and of a trigger, the       *)
(* window of attempts, the cap on the time of a grant, and the budget of   *)
(* writes with its overrun.                                                *)
THEOREM LimitsAreKept == AASpec => []LimitsHold
<1>1. Granted => WithinTtl
  BY DEF Granted, Given, WithinTtl
<1>2. Budget => OverrunBounded
  <2> SUFFICES ASSUME Budget PROVE OverrunBounded
    OBVIOUS
  <2>1. /\ Len(journal) \in Nat /\ clock \in Nat /\ Cardinality(ThisHour) \in Nat
        /\ Cardinality(asked) \in Nat /\ Budgeted \in Nat
        /\ MaxWrites \in Nat /\ Cardinality(Writers) \in Nat
    BY BudgetNumbers
  <2>2. Len(journal) + Waiting <= MaxWrites + Cardinality(Writers) /\ Waiting \in Nat
    BY <2>1 DEF Budget, Waiting
  <2>3. Len(journal) <= MaxWrites + Cardinality(Writers)
    BY <2>1, <2>2
  <2>4. ASSUME NEW end \in 0..clock PROVE Cardinality(HourTo(end)) <= MaxHourly + Cardinality(Writers)
    BY <2>1 DEF Budget, EveryHour
  <2> QED
    BY <2>3, <2>4 DEF OverrunBounded, HourTo
<1> QED
  BY <1>1, <1>2, GrantsHold, BudgetHolds, OneAttemptEach, WindowIsKept, PTL DEF LimitsHold

-----------------------------------------------------------------------------
(* The approval of plans.                                                  *)

PlanPlaces == {"idle", "compile", "compiled", "admitted", "loaded", "created", "checked", "compared", "leased",
               "frozen", "announced", "superseded", "linking", "cancelling", "cancelled"}

PlanRecord ==
    [status : Statuses, by : Callers, spec : Nat, target : Nat, request : Nat, drafted : Nat,
     parent : 0..MaxReviews, linked : BOOLEAN, lease : BOOLEAN, approvals : Nat, superseded : BOOLEAN,
     worker : {"none", "starting", "running", "finishing", "ended"}]

Errand == [review : 0..MaxReviews, parent : 0..MaxReviews, spec : Nat, target : Nat, within : BOOLEAN]

(* Types.                                                                  *)
PlanTypeOK ==
    /\ reviews \in [Ids -> PlanRecord]
    /\ live \in 0..MaxReviews /\ leased \in 0..MaxReviews /\ lock \in Callers \cup {"free"}
    /\ source \in [work : Nat, head : Nat, memory : BOOLEAN] /\ authorized \in BOOLEAN
    /\ at \in [Callers -> PlanPlaces] /\ job \in [Callers -> Errand]

(* A draft was drawn after its request was frozen, and not from a later    *)
(* source than the present one; a worker has the plan of its request.      *)
RecordSound(v) ==
    /\ v.status \in {"INTAKE", "AWAITING"} => v.request <= source.work
    /\ v.status = "AWAITING" => v.request <= v.drafted /\ v.drafted <= source.work
    /\ v.worker # "none" => v.status \notin {"none", "INTAKE"} /\ v.drafted = v.request /\ v.approvals > 0
    /\ v.superseded => v.status \in Terminal

RecordsSound == \A r \in Ids : RecordSound(reviews[r])

(* What the place of a caller says of its review.  A review being made     *)
(* belongs to the caller that holds the lock.                              *)
ErrandSound(c) ==
    LET r == job[c].review IN
    /\ at[c] \notin {"idle", "compile", "compiled"} => r # 0
    /\ r # 0 => Status(r) # "none"
    /\ at[c] \in {"admitted", "loaded"} =>
          lock = c /\ Status(r) = "INTAKE" /\ \A d \in Callers : d # c => job[d].review # r
    /\ job[c].within => lock = c
    /\ at[c] \in {"created", "checked", "compared", "leased", "frozen"} => Status(r) # "INTAKE"
    /\ at[c] \in {"compared", "leased", "frozen"} => reviews[r].drafted = reviews[r].request
    /\ at[c] \in {"leased", "frozen"} => reviews[r].approvals > 0

ErrandsSound == \A c \in Callers : ErrandSound(c)

(* An approval that took the lease for r and did not start its worker yet. *)
Bearing(c, r) == at[c] \in {"leased", "frozen"} /\ job[c].review = r

(* The lease of a review that was approved once is with its approval, and  *)
(* then with its worker.                                                   *)
LeaseBorne(r) ==
    reviews[r].approvals = 1 =>
        /\ reviews[r].worker \in {"starting", "running"} => leased = r
        /\ \A c \in Callers : Bearing(c, r) =>
              /\ leased = r /\ reviews[r].worker = "none"
              /\ \A d \in Callers : d # c => ~Bearing(d, r)

LeasesBorne == \A r \in Ids : LeaseBorne(r)

PlanIInv == PlanTypeOK /\ RecordsSound /\ ErrandsSound /\ LeasesBorne

(* How a record may change: once drafted it stays a plan of its request.   *)
Later(v, w) ==
    /\ w.status # "none"
    /\ w.status = "INTAKE" => v.status \in {"none", "INTAKE"}
    /\ v.status \notin {"none", "INTAKE"} =>
          w.drafted = v.drafted /\ w.request = v.request /\ w.approvals >= v.approvals

(* Caller c goes to p with errand j, and the record of review r becomes v. *)
PlanMoves(c, p, j, r, v) ==
    /\ at' = [at EXCEPT ![c] = p] /\ job' = [job EXCEPT ![c] = j] /\ reviews' = [reviews EXCEPT ![r] = v]
    /\ source' = source /\ authorized' = authorized /\ live' \in 0..MaxReviews
    /\ lock' = lock \/ {lock, lock'} \subseteq {c, "free"}

(* The other caller, if it is making a review, has another one.            *)
Apart(c, j, r, v) ==
    \A d \in Callers : d # c /\ at[d] \in {"admitted", "loaded"} =>
        job[d].review # j.review /\ (job[d].review = r => v.status = "INTAKE")

LEMMA MovesTo ==
    ASSUME PlanIInv, NEW c \in Callers, NEW p, NEW j, NEW r \in Ids, NEW v, PlanMoves(c, p, j, r, v)
    PROVE  /\ at'[c] = p /\ job'[c] = j /\ reviews'[r] = v
           /\ \A d \in Callers : d # c => at'[d] = at[d] /\ job'[d] = job[d]
           /\ \A q \in Ids : q # r => reviews'[q] = reviews[q]
  BY DEF PlanIInv, PlanTypeOK, PlanMoves

(* A caller that stays where it is, and whose review changes as a record   *)
(* may, still has a sound errand.                                          *)
LEMMA ErrandKept ==
    ASSUME PlanIInv, NEW d \in Callers, at'[d] = at[d], job'[d] = job[d],
           \A q \in Ids : Status(q) # "none" =>
               Later(reviews[q], reviews'[q]) /\ reviews'[q].approvals \in Nat,
           lock = d => lock' = lock,
           at[d] \in {"admitted", "loaded"} =>
               /\ reviews'[job[d].review].status = "INTAKE"
               /\ \A e \in Callers : e # d => job'[e].review # job[d].review
    PROVE  ErrandSound(d)'
<1> DEFINE q == job[d].review
<1>1. ErrandSound(d) /\ q \in 0..MaxReviews
  BY DEF PlanIInv, PlanTypeOK, ErrandsSound, Errand
<1>2. q # 0 => /\ q \in Ids /\ Status(q) # "none"
               /\ reviews[q].approvals \in Nat
  BY <1>1 DEF Ids, ErrandSound, PlanIInv, PlanTypeOK, PlanRecord
<1>3. q # 0 => Later(reviews[q], reviews'[q]) /\ reviews'[q].approvals \in Nat
  BY <1>2
<1>4. q # 0 => reviews'[q].status # "none"
  BY <1>3 DEF Later
<1>5. at[d] \in {"created", "checked", "compared", "leased", "frozen"} =>
          reviews'[q].status # "INTAKE" /\ reviews[q].status \notin {"none", "INTAKE"}
  BY <1>1, <1>2, <1>3 DEF ErrandSound, Later, Status
<1>6. /\ at[d] \in {"compared", "leased", "frozen"} => reviews'[q].drafted = reviews'[q].request
      /\ at[d] \in {"leased", "frozen"} => reviews'[q].approvals > 0
  BY <1>1, <1>2, <1>3, <1>5 DEF ErrandSound, Later
<1>7. at[d] \in {"admitted", "loaded"} \/ job[d].within => lock' = d
  BY <1>1 DEF ErrandSound
<1> QED  BY <1>1, <1>4, <1>5, <1>6, <1>7 DEF ErrandSound, Status

LEMMA OthersKeep ==
    ASSUME PlanIInv, NEW c \in Callers, NEW p, NEW j \in Errand, NEW r \in Ids, NEW v \in PlanRecord,
           PlanMoves(c, p, j, r, v), Later(reviews[r], v), Apart(c, j, r, v), NEW d \in Callers, d # c
    PROVE  ErrandSound(d)'
<1>1. at'[d] = at[d] /\ job'[d] = job[d] /\ job'[c] = j
  BY MovesTo
<1>2. ErrandSound(d) /\ job[d].review \in 0..MaxReviews
  BY DEF PlanIInv, PlanTypeOK, ErrandsSound, Errand
<1>3. \A q \in Ids : /\ reviews'[q] = reviews[q] \/ (q = r /\ reviews'[q] = v)
                     /\ reviews[q] \in PlanRecord
  BY MovesTo DEF PlanIInv, PlanTypeOK
<1>4. \A q \in Ids : Status(q) # "none" =>
          Later(reviews[q], reviews'[q]) /\ reviews'[q].approvals \in Nat
  BY <1>3 DEF Later, Status, PlanRecord
<1>5. lock = d => lock' = lock
  BY DEF PlanMoves, Callers
<1>6. at[d] \in {"admitted", "loaded"} =>
          /\ reviews'[job[d].review].status = "INTAKE"
          /\ \A e \in Callers : e # d => job'[e].review # job[d].review
  BY <1>1, <1>2, <1>3 DEF ErrandSound, Status, Callers, Apart, Ids
<1> QED  BY <1>1, <1>4, <1>5, <1>6, ErrandKept

(* A step keeps the invariant if the record it leaves, and the errand it   *)
(* goes on with, are sound.                                                *)
LEMMA MoveKeeps ==
    ASSUME PlanIInv, NEW c \in Callers, NEW p \in PlanPlaces, NEW j \in Errand, NEW r \in Ids,
           NEW v \in PlanRecord, PlanMoves(c, p, j, r, v), leased' \in 0..MaxReviews,
           RecordSound(v), Later(reviews[r], v), Apart(c, j, r, v), ErrandSound(c)', LeasesBorne'
    PROVE  PlanIInv'
<1>1. PlanTypeOK'
  BY DEF PlanIInv, PlanTypeOK, PlanMoves, Callers
<1>2. RecordsSound'
  BY MovesTo DEF PlanIInv, RecordsSound, RecordSound, PlanMoves
<1>3. ErrandsSound'
  BY OthersKeep DEF ErrandsSound, PlanRecord
<1> QED  BY <1>1, <1>2, <1>3 DEF PlanIInv

(* What a worker becomes while the lease stays where it is.                *)
Carried(was, is) ==
    \/ is = was
    \/ was # "none" /\ is # "none" /\ (is \in {"starting", "running"} => was \in {"starting", "running"})

LEMMA LeaseStays ==
    ASSUME PlanIInv, NEW c \in Callers, NEW p, NEW j, NEW r \in Ids, NEW v, PlanMoves(c, p, j, r, v),
           leased' = leased, v.approvals = reviews[r].approvals, Carried(reviews[r].worker, v.worker),
           p \in {"leased", "frozen"} => at[c] \in {"leased", "frozen"} /\ j.review = job[c].review
    PROVE  LeasesBorne'
<1>0. /\ at'[c] = p /\ job'[c] = j /\ reviews'[r] = v
      /\ \A d \in Callers : d # c => at'[d] = at[d] /\ job'[d] = job[d]
      /\ \A q \in Ids : q # r => reviews'[q] = reviews[q]
  BY DEF PlanIInv, PlanTypeOK, PlanMoves
<1>1. \A d \in Callers, q \in Ids : Bearing(d, q)' => Bearing(d, q)
  <2>1. \A d \in Callers, q \in Ids : d # c => (Bearing(d, q)' <=> Bearing(d, q))
    BY <1>0 DEF Bearing
  <2>2. \A q \in Ids : Bearing(c, q)' => Bearing(c, q)
    BY <1>0 DEF Bearing
  <2> QED  BY <2>1, <2>2
<1>2. \A q \in Ids : reviews'[q].approvals = reviews[q].approvals /\ Carried(reviews[q].worker, reviews'[q].worker)
  BY <1>0 DEF Carried
<1>3. \A q \in Ids : LeaseBorne(q)
  BY DEF PlanIInv, LeasesBorne
<1>4. ASSUME NEW q \in Ids PROVE LeaseBorne(q)'
  BY <1>1, <1>2, <1>3 DEF LeaseBorne, Carried
<1> QED  BY <1>4 DEF LeasesBorne

(* It is given back by an approval that ends, or by a worker that ends.    *)
LEMMA LeaseReturns ==
    ASSUME PlanIInv, NEW c \in Callers, NEW p, NEW j, NEW r \in Ids, NEW v, PlanMoves(c, p, j, r, v),
           leased' = Released(r), v.approvals = reviews[r].approvals,
           \/ Bearing(c, r) /\ p = "idle" /\ v.worker = reviews[r].worker
           \/ /\ reviews[r].worker # "none" /\ v.worker = "finishing"
              /\ p = at[c] /\ j = job[c]
    PROVE  LeasesBorne'
<1>0. /\ at'[c] = p /\ job'[c] = j /\ reviews'[r] = v
      /\ \A d \in Callers : d # c => at'[d] = at[d] /\ job'[d] = job[d]
      /\ \A q \in Ids : q # r => reviews'[q] = reviews[q]
  BY DEF PlanIInv, PlanTypeOK, PlanMoves
<1>1. \A d \in Callers, q \in Ids : Bearing(d, q)' => Bearing(d, q)
  <2>1. \A d \in Callers, q \in Ids : d # c => (Bearing(d, q)' <=> Bearing(d, q))
    BY <1>0 DEF Bearing
  <2>2. \A q \in Ids : Bearing(c, q)' => Bearing(c, q)
    BY <1>0 DEF Bearing
  <2> QED  BY <2>1, <2>2
<1>2. \A q \in Ids : LeaseBorne(q)
  BY DEF PlanIInv, LeasesBorne
<1>3. ASSUME NEW q \in Ids, q # r PROVE LeaseBorne(q)'
  <2>1. reviews'[q] = reviews[q] /\ (leased = q => leased' = q)
    BY <1>0, <1>3 DEF Released, Ids
  <2> QED  BY <1>1, <1>2, <2>1 DEF LeaseBorne
<1>4. LeaseBorne(r)'
  <2> SUFFICES ASSUME reviews[r].approvals = 1
               PROVE  v.worker \notin {"starting", "running"} /\ \A d \in Callers : ~Bearing(d, r)'
    BY <1>0 DEF LeaseBorne
  <2>1. CASE Bearing(c, r) /\ p = "idle" /\ v.worker = reviews[r].worker
    <3>1. v.worker = "none" /\ \A d \in Callers : d # c => ~Bearing(d, r)
      BY <1>2, <2>1 DEF LeaseBorne
    <3>2. ~Bearing(c, r)'
      BY <1>0, <2>1 DEF Bearing
    <3> QED  BY <1>1, <3>1, <3>2
  <2>2. CASE reviews[r].worker # "none" /\ v.worker = "finishing"
    BY <1>1, <1>2, <2>2 DEF LeaseBorne
  <2> QED  BY <2>1, <2>2
<1> QED  BY <1>3, <1>4 DEF LeasesBorne

(* Caller c goes to p with errand j, and no record changes.                *)
PlanWalks(c, p, j) ==
    /\ at' = [at EXCEPT ![c] = p] /\ job' = [job EXCEPT ![c] = j]
    /\ UNCHANGED <<reviews, leased, source, authorized>> /\ live' \in 0..MaxReviews
    /\ lock' = lock \/ {lock, lock'} \subseteq {c, "free"}

LEMMA WalkKeeps ==
    ASSUME PlanIInv, NEW c \in Callers, NEW p \in PlanPlaces, NEW j \in Errand, PlanWalks(c, p, j),
           p \notin {"leased", "frozen"}, ErrandSound(c)',
           \A d \in Callers : d # c /\ at[d] \in {"admitted", "loaded"} => job[d].review # j.review
    PROVE  PlanIInv'
<1>1. /\ at'[c] = p /\ job'[c] = j /\ reviews' = reviews /\ leased' = leased /\ source' = source
      /\ \A d \in Callers : d # c => at'[d] = at[d] /\ job'[d] = job[d]
  BY DEF PlanIInv, PlanTypeOK, PlanWalks
<1>2. PlanTypeOK'
  BY DEF PlanIInv, PlanTypeOK, PlanWalks, Callers
<1>3. RecordsSound'
  BY <1>1 DEF PlanIInv, RecordsSound, RecordSound
<1>4. ASSUME NEW d \in Callers, d # c PROVE ErrandSound(d)'
  <2>1. ErrandSound(d)
    BY DEF PlanIInv, ErrandsSound
  <2>2. lock = d => lock' = lock
    BY <1>4 DEF PlanWalks, Callers
  <2>3. \A e \in Callers : e # d => e = c
    BY <1>4 DEF Callers
  <2> QED  BY <1>1, <1>4, <2>1, <2>2, <2>3 DEF ErrandSound, Status
<1>5. LeasesBorne'
  <2>1. \A d \in Callers, q \in Ids : Bearing(d, q)' => Bearing(d, q)
    BY <1>1 DEF Bearing
  <2>2. \A q \in Ids : LeaseBorne(q)
    BY DEF PlanIInv, LeasesBorne
  <2>3. ASSUME NEW q \in Ids PROVE LeaseBorne(q)'
    BY <1>1, <2>1, <2>2 DEF LeaseBorne
  <2> QED  BY <2>3 DEF LeasesBorne
<1>6. ErrandsSound'
  BY <1>4 DEF ErrandsSound
<1> QED  BY <1>2, <1>3, <1>5, <1>6 DEF PlanIInv

(* What holds of the review a caller works on.                             *)
LEMMA AtWork ==
    ASSUME PlanIInv, NEW c \in Callers
    PROVE  /\ job[c] \in Errand /\ ErrandSound(c)
           /\ at[c] \notin {"idle", "compile", "compiled"} =>
                  /\ job[c].review \in Ids /\ Status(job[c].review) # "none"
                  /\ reviews[job[c].review] \in PlanRecord /\ RecordSound(reviews[job[c].review])
<1>1. job[c] \in Errand /\ ErrandSound(c)
  BY DEF PlanIInv, PlanTypeOK, ErrandsSound
<1>2. at[c] \notin {"idle", "compile", "compiled"} =>
          job[c].review \in Ids /\ Status(job[c].review) # "none"
  BY <1>1 DEF ErrandSound, Errand, Ids
<1> QED  BY <1>1, <1>2 DEF PlanIInv, PlanTypeOK, RecordsSound

(* Two callers never make or change one review while it is made.           *)
LEMMA OwnReview ==
    ASSUME PlanIInv, NEW c \in Callers, NEW d \in Callers, d # c, at[d] \in {"admitted", "loaded"}
    PROVE  job[d].review # job[c].review /\ job[d].review # 0 /\ Status(job[d].review) = "INTAKE" /\ lock = d
  BY DEF PlanIInv, ErrandsSound, ErrandSound

LEMMA LeaveKeeps ==
    ASSUME PlanIInv, NEW c \in Callers, Leave(c), UNCHANGED <<reviews, leased, source, authorized>>,
           live' \in 0..MaxReviews
    PROVE  PlanIInv'
<1>1. Nothing \in Errand /\ "idle" \in PlanPlaces /\ Nothing.review = 0 /\ ~Nothing.within
  BY PlanAssumption DEF Nothing, Errand, PlanPlaces
<1>2. PlanWalks(c, "idle", Nothing)
  BY DEF Leave, GoTo, PlanWalks
<1>3. at'[c] = "idle" /\ job'[c] = Nothing
  BY DEF PlanIInv, PlanTypeOK, Leave, GoTo
<1>4. ErrandSound(c)'
  BY <1>1, <1>3 DEF ErrandSound
<1> QED  BY <1>1, <1>2, <1>4, OwnReview, WalkKeeps

(* Without a new errand.                                                   *)
LEMMA GoOnKeeps ==
    ASSUME PlanIInv, NEW c \in Callers, NEW p \in PlanPlaces, NEW j \in Errand, PlanWalks(c, p, j),
           p \notin {"leased", "frozen"}, ErrandSound(c)', j.review = job[c].review
    PROVE  PlanIInv'
  BY OwnReview, WalkKeeps

LEMMA AskForReviewStep ==
    ASSUME PlanIInv, NEW c \in Callers, AskForReview(c) PROVE PlanIInv'
<1>1. PlanWalks(c, "compile", job[c]) /\ "compile" \in PlanPlaces
  BY DEF PlanIInv, PlanTypeOK, AskForReview, GoTo, PlanWalks, PlanPlaces
<1>2. at'[c] = "compile" /\ job'[c] = job[c] /\ reviews' = reviews /\ lock' = lock
  BY DEF PlanIInv, PlanTypeOK, AskForReview, GoTo
<1>3. ErrandSound(c)'
  BY <1>2, AtWork DEF ErrandSound, Status
<1> QED  BY <1>1, <1>3, AtWork, GoOnKeeps

LEMMA CompileStep ==
    ASSUME PlanIInv, NEW c \in Callers, Compile(c) PROVE PlanIInv'
<1>1. CASE source.memory /\ (job[c].parent # 0 => job[c].target = source.head)
  <2> DEFINE j == [job[c] EXCEPT !.spec = source.work, !.target = source.head]
  <2>1. j \in Errand /\ j.review = job[c].review /\ j.within = job[c].within
    BY AtWork DEF Errand, PlanIInv, PlanTypeOK
  <2>2. PlanWalks(c, "compiled", j) /\ "compiled" \in PlanPlaces
    BY <1>1 DEF PlanIInv, PlanTypeOK, Compile, GoTo, PlanWalks, PlanPlaces
  <2> HIDE DEF j
  <2>3. at'[c] = "compiled" /\ job'[c] = j /\ reviews' = reviews /\ lock' = lock
    BY <1>1, <2>2 DEF Compile, PlanIInv, PlanTypeOK, PlanWalks
  <2>4. ErrandSound(c)'
    BY <2>1, <2>3, AtWork DEF ErrandSound, Status
  <2> QED  BY <2>1, <2>2, <2>4, GoOnKeeps
<1>2. CASE ~(source.memory /\ (job[c].parent # 0 => job[c].target = source.head))
  <2>1. Leave(c) /\ UNCHANGED <<reviews, live, leased, source, authorized>>
    BY <1>2 DEF Compile
  <2> QED  BY <2>1, LeaveKeeps DEF PlanIInv, PlanTypeOK
<1> QED  BY <1>1, <1>2

LEMMA BusyStep ==
    ASSUME PlanIInv, NEW c \in Callers, Busy(c) PROVE PlanIInv'
  BY LeaveKeeps DEF Busy, PlanIInv, PlanTypeOK

LEMMA LoadMemoryStep ==
    ASSUME PlanIInv, NEW c \in Callers, LoadMemory(c) PROVE PlanIInv'
<1>1. CASE source.memory
  <2>1. PlanWalks(c, "loaded", job[c]) /\ "loaded" \in PlanPlaces /\ at[c] = "admitted"
    BY <1>1 DEF PlanIInv, PlanTypeOK, LoadMemory, GoTo, PlanWalks, PlanPlaces
  <2>2. at'[c] = "loaded" /\ job' = job /\ reviews' = reviews /\ lock' = lock
    BY <1>1 DEF PlanIInv, PlanTypeOK, LoadMemory, GoTo
  <2>3. ErrandSound(c)'
    BY <2>1, <2>2, AtWork DEF ErrandSound, Status
  <2> QED  BY <2>1, <2>3, AtWork, GoOnKeeps
<1>2. CASE ~source.memory
  BY <1>2, LeaveKeeps DEF LoadMemory, PlanIInv, PlanTypeOK
<1> QED  BY <1>1, <1>2

LEMMA StandingApprovesStep ==
    ASSUME PlanIInv, NEW c \in Callers, StandingApproves(c) PROVE PlanIInv'
<1> DEFINE j == [job[c] EXCEPT !.within = TRUE]
<1>1. j \in Errand /\ j.review = job[c].review
  BY AtWork DEF Errand
<1>2. PlanWalks(c, "checked", j) /\ "checked" \in PlanPlaces /\ at[c] = "created"
  BY DEF PlanIInv, PlanTypeOK, StandingApproves, GoTo, PlanWalks, PlanPlaces
<1> HIDE DEF j
<1>3. at'[c] = "checked" /\ job'[c] = j /\ reviews' = reviews /\ lock' = c
  BY <1>2 DEF StandingApproves, PlanIInv, PlanTypeOK, PlanWalks
<1>4. ErrandSound(c)'
  BY <1>1, <1>2, <1>3, AtWork DEF ErrandSound, Status
<1> QED  BY <1>1, <1>2, <1>4, GoOnKeeps

(* create() answers: where the caller goes on.                             *)
AnswerPlace(c, r) ==
    IF job[c].parent # 0 THEN "linking"
    ELSE IF c = "round" /\ Status(r) = "AWAITING" THEN "checked" ELSE "idle"

LEMMA NoStandingApprovalStep ==
    ASSUME PlanIInv, NEW c \in Callers, NoStandingApproval(c) PROVE PlanIInv'
<1> DEFINE j == [job[c] EXCEPT !.within = FALSE]  p == AnswerPlace(c, job[c].review)
<1>1. j \in Errand /\ j.review = job[c].review /\ ~j.within
  BY AtWork DEF Errand
<1>2. PlanWalks(c, p, j) /\ at[c] = "created"
  BY DEF PlanIInv, PlanTypeOK, NoStandingApproval, Answer, GoTo, PlanWalks, AnswerPlace
<1>3. p \in {"linking", "checked", "idle"} /\ p \in PlanPlaces
  BY DEF AnswerPlace, PlanPlaces
<1> HIDE DEF j, p
<1>4. at'[c] = p /\ job'[c] = j /\ reviews' = reviews
  BY <1>2 DEF PlanIInv, PlanTypeOK, PlanWalks
<1>5. ErrandSound(c)'
  BY <1>1, <1>2, <1>3, <1>4, AtWork DEF ErrandSound, Status
<1> QED  BY <1>1, <1>2, <1>3, <1>5, GoOnKeeps

(* The event loop turns to a review it did not work on.                    *)
LEMMA TurnKeeps ==
    ASSUME PlanIInv, NEW p \in {"checked", "announced", "cancelling"}, NEW j \in Errand, NEW r \in Ids,
           PlanWalks("loop", p, j), j.review = r, j.within = job["loop"].within, lock' = lock,
           Status(r) \in {"INTAKE", "AWAITING"},
           Status(r) = "AWAITING" \/ (lock = "free" /\ p = "cancelling")
    PROVE  PlanIInv'
<1>1. "loop" \in Callers /\ p \in PlanPlaces /\ p \notin {"leased", "frozen"}
  BY DEF Callers, PlanPlaces
<1>2. at'["loop"] = p /\ job'["loop"] = j /\ reviews' = reviews
  BY <1>1 DEF PlanIInv, PlanTypeOK, PlanWalks
<1>3. ErrandSound("loop")'
  BY <1>1, <1>2, AtWork DEF ErrandSound, Status, Ids
<1>4. \A d \in Callers : d # "loop" /\ at[d] \in {"admitted", "loaded"} => job[d].review # j.review
  BY <1>1, OwnReview DEF Callers
<1> QED  BY <1>1, <1>3, <1>4, WalkKeeps

LEMMA HumanApprovesStep ==
    ASSUME PlanIInv, NEW shown \in Ids, NEW r \in Ids, HumanApproves(shown, r) PROVE PlanIInv'
<1> DEFINE j == [job["loop"] EXCEPT !.review = r]
<1>1. j \in Errand /\ j.review = r /\ j.within = job["loop"].within
  BY AtWork DEF Errand, Ids, Callers
<1>2. PlanWalks("loop", "checked", j) /\ Status(r) = "AWAITING" /\ lock' = lock
  BY DEF PlanIInv, PlanTypeOK, HumanApproves, GoTo, PlanWalks, Callers
<1> QED  BY <1>1, <1>2, TurnKeeps

LEMMA ReviseStep ==
    ASSUME PlanIInv, NEW r \in Ids, Revise(r) PROVE PlanIInv'
<1> DEFINE j == [job["loop"] EXCEPT !.review = r, !.parent = r, !.target = reviews[r].target]
<1>1. j \in Errand /\ j.review = r /\ j.within = job["loop"].within
  <2>1. job["loop"] \in Errand
    BY AtWork DEF Callers
  <2>2. reviews[r].target \in Nat /\ r \in 0..MaxReviews
    BY DEF PlanIInv, PlanTypeOK, PlanRecord, Ids
  <2> QED  BY <2>1, <2>2 DEF Errand
<1>2. PlanWalks("loop", "announced", j) /\ Status(r) = "AWAITING" /\ lock' = lock
  BY DEF PlanIInv, PlanTypeOK, Revise, GoTo, PlanWalks, Callers
<1> QED  BY <1>1, <1>2, TurnKeeps

LEMMA CancelStep ==
    ASSUME PlanIInv, NEW r \in Ids, Cancel(r) PROVE PlanIInv'
<1> DEFINE j == [job["loop"] EXCEPT !.review = r]
<1>1. j \in Errand /\ j.review = r /\ j.within = job["loop"].within
  BY AtWork DEF Errand, Ids, Callers
<1>2. PlanWalks("loop", "cancelling", j) /\ Status(r) \in {"INTAKE", "AWAITING"} /\ lock = "free" /\ lock' = lock
  BY DEF PlanIInv, PlanTypeOK, Cancel, GoTo, PlanWalks, Callers
<1> QED  BY <1>1, <1>2, TurnKeeps

LEMMA VacatedType == ASSUME PlanIInv, NEW r PROVE Vacated(r) \in 0..MaxReviews /\ live \in 0..MaxReviews
  BY PlanAssumption DEF Vacated, PlanIInv, PlanTypeOK

LEMMA MakeRoomStep ==
    ASSUME PlanIInv, MakeRoom PROVE PlanIInv'
<1>1. /\ "loop" \in Callers /\ "compile" \in PlanPlaces /\ at["loop"] = "superseded"
      /\ job["loop"] \in Errand /\ ErrandSound("loop")
  BY AtWork DEF Callers, PlanPlaces, MakeRoom
<1>2. PlanWalks("loop", "compile", job["loop"])
  BY VacatedType DEF PlanIInv, PlanTypeOK, MakeRoom, GoTo, PlanWalks, Callers
<1>3. at'["loop"] = "compile" /\ job' = job /\ reviews' = reviews /\ lock' = lock
  BY <1>1 DEF PlanIInv, PlanTypeOK, MakeRoom, GoTo
<1>4. ErrandSound("loop")'
  BY <1>1, <1>3 DEF ErrandSound, Status
<1> QED  BY <1>1, <1>2, <1>4, GoOnKeeps

LEMMA CancelMakesRoomStep ==
    ASSUME PlanIInv, CancelMakesRoom PROVE PlanIInv'
<1>1. "loop" \in Callers /\ Leave("loop") /\ UNCHANGED <<reviews, leased, source, authorized>>
  BY DEF Callers, CancelMakesRoom
<1>2. live' \in 0..MaxReviews
  BY VacatedType DEF CancelMakesRoom
<1> QED  BY <1>1, <1>2, LeaveKeeps

(* The user edits, or the authorization expires.                           *)
LEMMA WorldKeeps ==
    ASSUME PlanIInv, UNCHANGED <<reviews, live, lock, leased, at, job>>, authorized' \in BOOLEAN,
           source' \in [work : Nat, head : Nat, memory : BOOLEAN], source'.work >= source.work
    PROVE  PlanIInv'
<1>1. PlanTypeOK'
  BY DEF PlanIInv, PlanTypeOK
<1>2. RecordsSound'
  <2>1. source.work \in Nat /\ source'.work \in Nat
    BY DEF PlanIInv, PlanTypeOK
  <2>2. \A r \in Ids : reviews[r].request \in Nat /\ reviews[r].drafted \in Nat /\ RecordSound(reviews[r])
    BY DEF PlanIInv, PlanTypeOK, PlanRecord, RecordsSound
  <2>3. ASSUME NEW r \in Ids PROVE RecordSound(reviews[r])'
    BY <2>1, <2>2 DEF RecordSound
  <2> QED  BY <2>3 DEF RecordsSound
<1>3. ErrandsSound' /\ LeasesBorne'
  BY DEF PlanIInv, ErrandsSound, ErrandSound, Status, LeasesBorne, LeaseBorne, Bearing
<1> QED  BY <1>1, <1>2, <1>3 DEF PlanIInv

LEMMA WorldStep ==
    ASSUME PlanIInv, Edit \/ Expire \/ UNCHANGED pavars PROVE PlanIInv'
<1>1. source.work \in Nat /\ source.head \in Nat /\ source \in [work : Nat, head : Nat, memory : BOOLEAN]
  BY DEF PlanIInv, PlanTypeOK
<1>2. ASSUME Edit PROVE source' \in [work : Nat, head : Nat, memory : BOOLEAN] /\ source'.work >= source.work
  BY <1>1, <1>2 DEF Edit
<1>3. CASE Edit
  BY <1>2, <1>3, WorldKeeps DEF Edit, PlanIInv, PlanTypeOK
<1>4. CASE Expire
  <2>1. UNCHANGED <<reviews, live, lock, leased, at, job>> /\ source' = source /\ authorized' \in BOOLEAN
    BY <1>4 DEF Expire
  <2> QED  BY <1>1, <2>1, WorldKeeps
<1>5. CASE UNCHANGED pavars
  BY <1>1, <1>5, WorldKeeps DEF pavars, PlanIInv, PlanTypeOK
<1> QED  BY <1>3, <1>4, <1>5

(* A handler ends and leaves the record of its review as v.                *)
LEMMA LeaveWrites ==
    ASSUME PlanIInv, NEW c \in Callers, at[c] \notin {"idle", "compile", "compiled"}, Leave(c),
           NEW v \in PlanRecord, reviews' = [reviews EXCEPT ![job[c].review] = v],
           UNCHANGED <<source, authorized>>, live' \in 0..MaxReviews, leased' \in 0..MaxReviews,
           RecordSound(v), Later(reviews[job[c].review], v),
           PlanMoves(c, "idle", Nothing, job[c].review, v) => LeasesBorne'
    PROVE  PlanIInv'
<1> DEFINE r == job[c].review
<1>1. Nothing \in Errand /\ "idle" \in PlanPlaces /\ Nothing.review = 0 /\ ~Nothing.within /\ r \in Ids
  BY PlanAssumption, AtWork DEF Nothing, Errand, PlanPlaces
<1>2. PlanMoves(c, "idle", Nothing, r, v)
  BY DEF Leave, GoTo, PlanMoves
<1>3. at'[c] = "idle" /\ job'[c] = Nothing
  BY DEF PlanIInv, PlanTypeOK, Leave, GoTo
<1>4. ErrandSound(c)'
  BY <1>1, <1>3 DEF ErrandSound
<1>5. Apart(c, Nothing, r, v)
  BY <1>1, OwnReview DEF Apart
<1> QED  BY <1>1, <1>2, <1>4, <1>5, MoveKeeps

(* _fail as it changes a record.                                           *)
FailedRecord(v) == [v EXCEPT !.status = IF @ \in Terminal THEN @ ELSE "FAILED"]

LEMMA FailedRecordIs ==
    ASSUME NEW v \in PlanRecord, RecordSound(v), v.status # "none"
    PROVE  LET w == FailedRecord(v) IN
           /\ w \in PlanRecord /\ RecordSound(w) /\ Later(v, w)
           /\ w.approvals = v.approvals /\ w.worker = v.worker /\ w.status \in Terminal
<1> DEFINE w == FailedRecord(v)
<1>1. /\ w \in PlanRecord /\ w.approvals = v.approvals /\ w.worker = v.worker /\ w.drafted = v.drafted
      /\ w.request = v.request /\ w.superseded = v.superseded /\ w.status \in Terminal
  BY DEF FailedRecord, PlanRecord, Terminal, Statuses
<1>2. v.approvals \in Nat
  BY DEF PlanRecord
<1> HIDE DEF w
<1>3. RecordSound(w) /\ Later(v, w)
  BY <1>1, <1>2 DEF RecordSound, Later, Terminal
<1> QED  BY <1>1, <1>3 DEF w

(* What an approval leaves of the record when it gives back the lease.     *)
LEMMA ReleasedRecordIs ==
    ASSUME NEW v \in PlanRecord, RecordSound(v), v.status # "none", NEW l \in BOOLEAN
    PROVE  LET w == [v EXCEPT !.lease = l] IN
           /\ w \in PlanRecord /\ RecordSound(w) /\ Later(v, w) /\ w.status = v.status
           /\ w.approvals = v.approvals /\ w.worker = v.worker
<1> DEFINE w == [v EXCEPT !.lease = l]
<1>1. /\ w \in PlanRecord /\ w.approvals = v.approvals /\ w.worker = v.worker /\ w.drafted = v.drafted
      /\ w.request = v.request /\ w.superseded = v.superseded /\ w.status = v.status
  BY DEF PlanRecord
<1>2. v.approvals \in Nat
  BY DEF PlanRecord
<1> HIDE DEF w
<1>3. RecordSound(w) /\ Later(v, w)
  BY <1>1, <1>2 DEF RecordSound, Later
<1> QED  BY <1>1, <1>3 DEF w

LEMMA ReleasedType == ASSUME PlanIInv, NEW r PROVE Released(r) \in 0..MaxReviews /\ leased \in 0..MaxReviews
  BY PlanAssumption DEF Released, PlanIInv, PlanTypeOK

(* An approval that ends in an error.                                      *)
LEMMA RefusedKeeps ==
    ASSUME PlanIInv, NEW c \in Callers, at[c] \in {"checked", "compared", "leased", "frozen"}, NEW l \in BOOLEAN,
           Refused(c, [reviews EXCEPT ![job[c].review].lease = l]), UNCHANGED <<source, authorized>>,
           leased' = leased \/ (leased' = Released(job[c].review) /\ at[c] \in {"leased", "frozen"})
    PROVE  PlanIInv'
<1> DEFINE r == job[c].review  u == [reviews[r] EXCEPT !.lease = l]
           v == IF job[c].within THEN FailedRecord(u) ELSE u
<1>1. r \in Ids /\ reviews[r] \in PlanRecord /\ RecordSound(reviews[r]) /\ reviews[r].status # "none"
  BY AtWork DEF Status
<1>2. /\ u \in PlanRecord /\ RecordSound(u) /\ Later(reviews[r], u) /\ u.status # "none"
      /\ u.approvals = reviews[r].approvals /\ u.worker = reviews[r].worker /\ u.status = reviews[r].status
  BY <1>1, ReleasedRecordIs
<1>3. Leave(c) /\ live' \in 0..MaxReviews /\ leased' \in 0..MaxReviews
  BY VacatedType, ReleasedType DEF Refused
<1>4. [reviews EXCEPT ![r].lease = l] = [reviews EXCEPT ![r] = u]
  OBVIOUS
<1>5. reviews' = [reviews EXCEPT ![r] = v]
  <2>1. CASE job[c].within
    BY <1>1, <1>4, <2>1 DEF Refused, Failed, FailedRecord, PlanIInv, PlanTypeOK
  <2>2. CASE ~job[c].within
    BY <1>4, <2>2 DEF Refused
  <2> QED  BY <2>1, <2>2
<1> HIDE DEF u
<1>6. /\ v \in PlanRecord /\ RecordSound(v) /\ v.approvals = reviews[r].approvals
      /\ v.worker = reviews[r].worker
  BY <1>2, FailedRecordIs
<1>7. Later(reviews[r], v)
  <2>1. CASE job[c].within
    <3>1. Later(u, v)
      BY <1>2, <2>1, FailedRecordIs
    <3> QED  BY <1>2, <1>6, <3>1 DEF Later, PlanRecord
  <2>2. CASE ~job[c].within
    BY <1>2, <2>2
  <2> QED  BY <2>1, <2>2
<1> HIDE DEF v
<1>8. ASSUME PlanMoves(c, "idle", Nothing, r, v) PROVE LeasesBorne'
  <2>1. CASE leased' = leased
    BY <1>1, <1>6, <1>8, <2>1, LeaseStays DEF Carried
  <2>2. CASE leased' = Released(r) /\ at[c] \in {"leased", "frozen"}
    BY <1>1, <1>6, <1>8, <2>2, LeaseReturns DEF Bearing
  <2> QED  BY <2>1, <2>2
<1> QED  BY <1>1, <1>3, <1>5, <1>6, <1>7, <1>8, LeaveWrites

(* An approval that is refused before it has the lease.                    *)
LEMMA RefusedEarly ==
    ASSUME PlanIInv, NEW c \in Callers, at[c] \in {"checked", "compared"}, Refused(c, reviews),
           UNCHANGED <<source, authorized, leased>>
    PROVE  PlanIInv'
<1> DEFINE r == job[c].review
<1>1. r \in Ids /\ reviews[r].lease \in BOOLEAN /\ reviews[r] \in PlanRecord
  BY AtWork DEF PlanRecord
<1>2. [reviews EXCEPT ![r].lease = reviews[r].lease] = reviews
  BY <1>1 DEF PlanIInv, PlanTypeOK, PlanRecord
<1>3. Refused(c, [reviews EXCEPT ![r].lease = reviews[r].lease])
  BY <1>2
<1> QED  BY <1>1, <1>3, RefusedKeeps

LEMMA CompareSourceStep ==
    ASSUME PlanIInv, NEW c \in Callers, CompareSource(c) PROVE PlanIInv'
<1> DEFINE r == job[c].review
<1>1. at[c] = "checked" /\ UNCHANGED <<leased, source, authorized>>
  BY DEF CompareSource
<1>2. CASE Status(r) = "AWAITING" /\ reviews[r].request = source.work
  <2>1. PlanWalks(c, "compared", job[c]) /\ "compared" \in PlanPlaces
    BY <1>2 DEF PlanIInv, PlanTypeOK, CompareSource, GoTo, PlanWalks, PlanPlaces
  <2>2. at'[c] = "compared" /\ job' = job /\ reviews' = reviews /\ lock' = lock
    BY <1>2 DEF PlanIInv, PlanTypeOK, CompareSource, GoTo
  <2>3. reviews[r].drafted = reviews[r].request
    <3>1. /\ RecordSound(reviews[r]) /\ reviews[r].drafted \in Nat /\ source.work \in Nat
          /\ reviews[r].request = source.work /\ reviews[r].status = "AWAITING"
      BY <1>1, <1>2, AtWork DEF PlanRecord, PlanIInv, PlanTypeOK, Status
    <3> QED  BY <3>1 DEF RecordSound
  <2>4. ErrandSound(c)'
    BY <1>1, <1>2, <2>2, <2>3, AtWork DEF ErrandSound, Status
  <2> QED  BY <2>1, <2>4, AtWork, GoOnKeeps
<1>3. CASE ~(Status(r) = "AWAITING" /\ reviews[r].request = source.work)
  <2>1. Refused(c, reviews)
    BY <1>3 DEF CompareSource
  <2> QED  BY <1>1, <2>1, RefusedEarly
<1> QED  BY <1>2, <1>3

LEMMA TakeLeaseStep ==
    ASSUME PlanIInv, NEW c \in Callers, TakeLease(c) PROVE PlanIInv'
<1>1. at[c] = "compared" /\ UNCHANGED <<source, authorized>>
  BY DEF TakeLease
<1>0. PICK r \in Ids : r = job[c].review
  BY <1>1, AtWork
<1>2. /\ reviews[r] \in PlanRecord /\ RecordSound(reviews[r]) /\ Status(r) \notin {"none", "INTAKE"}
      /\ job[c] \in Errand /\ reviews[r].drafted = reviews[r].request
  BY <1>0, <1>1, AtWork DEF ErrandSound
<1>3. CASE leased \in {0, r}
  <2> DEFINE v == [reviews[r] EXCEPT !.lease = TRUE, !.approvals = @ + 1]
  <2>0. reviews[r].approvals \in Nat /\ reviews[r].approvals + 1 \in Nat
    BY <1>2 DEF PlanRecord
  <2>1. /\ v \in PlanRecord /\ v.approvals = reviews[r].approvals + 1 /\ v.worker = reviews[r].worker
        /\ v.status = reviews[r].status /\ v.drafted = reviews[r].drafted /\ v.request = reviews[r].request
        /\ v.superseded = reviews[r].superseded
    BY <1>2, <2>0 DEF PlanRecord
  <2>2. reviews' = [reviews EXCEPT ![r] = v] /\ leased' = r
    BY <1>0, <1>2, <1>3 DEF TakeLease, PlanIInv, PlanTypeOK
  <2>3. PlanMoves(c, "leased", job[c], r, v) /\ "leased" \in PlanPlaces /\ leased' \in 0..MaxReviews
    BY <1>0, <1>1, <1>2, <1>3, <2>2, VacatedType DEF TakeLease, GoTo, PlanMoves, PlanPlaces, PlanIInv, PlanTypeOK, Ids
  <2> HIDE DEF v
  <2>4. RecordSound(v) /\ Later(reviews[r], v)
    BY <1>2, <2>0, <2>1 DEF RecordSound, Later, Status
  <2>5. /\ at'[c] = "leased" /\ job' = job /\ reviews'[r] = v /\ lock' = lock
        /\ \A d \in Callers : d # c => at'[d] = at[d]
        /\ \A q \in Ids : q # r => reviews'[q] = reviews[q]
    BY <1>0, <1>2, <1>3, <2>2, <2>3 DEF TakeLease, PlanIInv, PlanTypeOK, PlanMoves
  <2>6. ErrandSound(c)'
    BY AtWork, <1>0, <1>1, <1>2, <2>0, <2>1, <2>5 DEF ErrandSound, Status, Ids
  <2>7. Apart(c, job[c], r, v)
    BY <1>0, OwnReview DEF Apart
  <2>8. \A q \in Ids : LeaseBorne(q)
    BY DEF PlanIInv, LeasesBorne
  <2>9. ASSUME NEW q \in Ids, q # r PROVE LeaseBorne(q)'
    <3>1. leased # q /\ reviews'[q] = reviews[q]
      BY <1>3, <2>5, <2>9 DEF Ids
    <3>2. \A d \in Callers : Bearing(d, q)' => Bearing(d, q)
      BY <1>0, <2>5, <2>9 DEF Bearing
    <3> QED  BY <2>8, <3>1, <3>2 DEF LeaseBorne
  <2>10. LeaseBorne(r)'
    <3> SUFFICES ASSUME reviews[r].approvals = 0
                 PROVE  v.worker = "none" /\ \A d \in Callers : d # c => ~Bearing(d, r)'
      BY <2>0, <2>1, <2>2, <2>5 DEF LeaseBorne, Bearing
    <3>1. v.worker = "none"
      BY <1>2, <2>1 DEF RecordSound
    <3>2. \A d \in Callers : d # c => ~Bearing(d, r)
      BY AtWork DEF ErrandSound, Bearing
    <3> QED  BY <2>5, <3>1, <3>2 DEF Bearing
  <2>11. LeasesBorne'
    BY <2>9, <2>10 DEF LeasesBorne
  <2> QED  BY <1>2, <2>1, <2>3, <2>4, <2>6, <2>7, <2>11, MoveKeeps
<1>4. CASE leased \notin {0, r}
  <2>1. Refused(c, reviews) /\ UNCHANGED leased
    BY <1>0, <1>4 DEF TakeLease
  <2> QED  BY <1>1, <2>1, RefusedEarly
<1> QED  BY <1>3, <1>4

LEMMA FreezeStep ==
    ASSUME PlanIInv, NEW c \in Callers, Freeze(c) PROVE PlanIInv'
<1> DEFINE r == job[c].review
<1>1. at[c] = "leased" /\ UNCHANGED <<source, authorized>>
  BY DEF Freeze
<1>2. /\ r \in Ids /\ reviews[r] \in PlanRecord /\ RecordSound(reviews[r]) /\ job[c] \in Errand
      /\ reviews[r].drafted = reviews[r].request /\ reviews[r].approvals > 0
  BY <1>1, AtWork DEF ErrandSound
<1>3. CASE Status(r) = "AWAITING"
  <2> DEFINE v == [reviews[r] EXCEPT !.status = "FROZEN"]
  <2>1. /\ v \in PlanRecord /\ v.approvals = reviews[r].approvals /\ v.worker = reviews[r].worker
        /\ v.status = "FROZEN" /\ v.drafted = reviews[r].drafted /\ v.request = reviews[r].request
        /\ v.superseded = reviews[r].superseded /\ v.approvals \in Nat
    BY <1>2 DEF PlanRecord, Statuses
  <2>2. reviews' = [reviews EXCEPT ![r] = v] /\ leased' = leased
    BY <1>2, <1>3 DEF Freeze, Set, PlanIInv, PlanTypeOK, PlanRecord
  <2>3. PlanMoves(c, "frozen", job[c], r, v) /\ "frozen" \in PlanPlaces /\ leased' \in 0..MaxReviews
    BY <1>1, <1>2, <1>3, <2>2, VacatedType, ReleasedType DEF Freeze, GoTo, PlanMoves, PlanPlaces, PlanIInv, PlanTypeOK
  <2> HIDE DEF v
  <2>4. RecordSound(v) /\ Later(reviews[r], v)
    BY <1>2, <1>3, <2>1 DEF RecordSound, Later, Status, Terminal
  <2>5. at'[c] = "frozen" /\ job'[c] = job[c] /\ reviews'[r] = v /\ lock' = lock
    BY <1>2, <1>3, <2>2, <2>3 DEF Freeze, PlanIInv, PlanTypeOK, PlanMoves
  <2>6. ErrandSound(c)'
    BY <1>2, <2>1, <2>5, AtWork DEF ErrandSound, Status, Ids
  <2>7. Apart(c, job[c], r, v)
    BY OwnReview DEF Apart
  <2>8. LeasesBorne'
    BY <1>1, <1>2, <2>1, <2>2, <2>3, LeaseStays DEF Carried
  <2> QED  BY <1>2, <2>1, <2>3, <2>4, <2>6, <2>7, <2>8, MoveKeeps
<1>4. CASE Status(r) # "AWAITING"
  <2>1. Refused(c, [reviews EXCEPT ![r].lease = FALSE]) /\ leased' = Released(r)
    BY <1>4 DEF Freeze
  <2> QED  BY <1>1, <2>1, RefusedKeeps
<1> QED  BY <1>3, <1>4

LEMMA WorkerDoesNotStartStep ==
    ASSUME PlanIInv, NEW c \in Callers, WorkerDoesNotStart(c) PROVE PlanIInv'
  BY RefusedKeeps DEF WorkerDoesNotStart

LEMMA StartWorkerStep ==
    ASSUME PlanIInv, NEW c \in Callers, StartWorker(c) PROVE PlanIInv'
<1>1. at[c] = "frozen" /\ leased' = leased
  BY DEF StartWorker
<1>0. PICK r \in Ids : r = job[c].review
  BY <1>1, AtWork
<1> DEFINE v == [reviews[r] EXCEPT !.worker = "starting"]
           p == IF job[c].within THEN AnswerPlace(c, r) ELSE "idle"
           j == IF job[c].within THEN [job[c] EXCEPT !.within = FALSE] ELSE Nothing
<1>2. /\ reviews[r] \in PlanRecord /\ RecordSound(reviews[r]) /\ job[c] \in Errand
      /\ reviews[r].drafted = reviews[r].request /\ reviews[r].approvals > 0
      /\ reviews[r].status \notin {"none", "INTAKE"}
  BY <1>0, <1>1, AtWork DEF ErrandSound, Status
<1>3. /\ v \in PlanRecord /\ v.approvals = reviews[r].approvals /\ v.worker = "starting"
      /\ v.status = reviews[r].status /\ v.drafted = reviews[r].drafted /\ v.request = reviews[r].request
      /\ v.superseded = reviews[r].superseded /\ v.approvals \in Nat
  BY <1>2 DEF PlanRecord
<1>4. reviews' = [reviews EXCEPT ![r] = v]
  BY <1>0, <1>2 DEF StartWorker, Set, PlanIInv, PlanTypeOK, PlanRecord
<1>5. j \in Errand /\ j.review \in {0, r} /\ ~j.within
  <2>1. Nothing \in Errand /\ Nothing.review = 0 /\ ~Nothing.within
    BY PlanAssumption DEF Errand, Nothing
  <2>2. /\ [job[c] EXCEPT !.within = FALSE] \in Errand
        /\ [job[c] EXCEPT !.within = FALSE].review = r
        /\ ~[job[c] EXCEPT !.within = FALSE].within
    BY <1>0, <1>2 DEF Errand
  <2> QED  BY <2>1, <2>2
<1>6. p \in {"linking", "checked", "idle"} /\ p \in PlanPlaces /\ (p # "idle" => j.review = r)
  BY <1>0, <1>2 DEF AnswerPlace, PlanPlaces, Errand
<1>7. PlanMoves(c, p, j, r, v)
  <2>1. live' \in 0..MaxReviews /\ UNCHANGED <<source, authorized>>
    BY VacatedType DEF StartWorker
  <2>2. CASE job[c].within
    <3>1. lock = c
      BY <2>2, AtWork DEF ErrandSound
    <3> QED  BY <1>0, <1>4, <2>1, <2>2, <3>1 DEF StartWorker, Answer, GoTo, PlanMoves, AnswerPlace
  <2>3. CASE ~job[c].within
    BY <1>0, <1>4, <2>1, <2>3 DEF StartWorker, Leave, GoTo, PlanMoves
  <2> QED  BY <2>2, <2>3
<1> HIDE DEF v, p, j
<1>8. RecordSound(v) /\ Later(reviews[r], v)
  BY <1>2, <1>3 DEF RecordSound, Later
<1>9. /\ at'[c] = p /\ job'[c] = j /\ reviews'[r] = v
      /\ \A d \in Callers : d # c => at'[d] = at[d] /\ job'[d] = job[d]
      /\ \A q \in Ids : q # r => reviews'[q] = reviews[q]
  BY <1>2, <1>7 DEF PlanIInv, PlanTypeOK, PlanMoves
<1>10. ErrandSound(c)'
  BY <1>2, <1>3, <1>5, <1>6, <1>9 DEF ErrandSound, Status, Ids
<1>11. Apart(c, j, r, v)
  BY <1>0, <1>5, OwnReview DEF Apart
<1>12. \A q \in Ids : LeaseBorne(q)
  BY DEF PlanIInv, LeasesBorne
<1>13. \A d \in Callers, q \in Ids : Bearing(d, q)' => d # c /\ Bearing(d, q)
  BY <1>6, <1>9 DEF Bearing
<1>14. ASSUME NEW q \in Ids, q # r PROVE LeaseBorne(q)'
  BY <1>1, <1>9, <1>12, <1>13, <1>14 DEF LeaseBorne
<1>15. LeaseBorne(r)'
  <2> SUFFICES ASSUME reviews[r].approvals = 1
               PROVE  leased = r /\ \A d \in Callers : d # c => ~Bearing(d, r)
    BY <1>1, <1>3, <1>9, <1>13 DEF LeaseBorne
  <2>1. Bearing(c, r)
    BY <1>0, <1>1 DEF Bearing
  <2> QED  BY <1>12, <2>1 DEF LeaseBorne
<1>16. LeasesBorne'
  BY <1>14, <1>15 DEF LeasesBorne
<1>17. leased' \in 0..MaxReviews
  BY <1>1, ReleasedType
<1> QED  BY <1>2, <1>3, <1>5, <1>6, <1>7, <1>8, <1>10, <1>11, <1>16, <1>17, MoveKeeps

LEMMA NextIdIs ==
    ASSUME NEW r \in Ids, Status(r) = "none" PROVE NextId \in Ids /\ Status(NextId) = "none"
<1> DEFINE S == {q \in Ids : Status(q) = "none"}
<1>1. S \in SUBSET Nat /\ S # {}
  BY DEF Ids
<1>2. PICK n \in S : \A m \in S : n <= m
  BY <1>1, Least, Zenon
<1> QED  BY <1>2 DEF NextId

LEMMA AdmitStep ==
    ASSUME PlanIInv, NEW c \in Callers, Admit(c) PROVE PlanIInv'
<1>1. PICK r \in Ids : r = NextId /\ Status(r) = "none"
  BY NextIdIs DEF Admit
<1> DEFINE v == [Unborn EXCEPT !.status = "INTAKE", !.by = c, !.spec = job[c].spec,
                               !.target = job[c].target, !.request = source.work, !.parent = job[c].parent]
           j == [job[c] EXCEPT !.review = r]
<1>2. job[c] \in Errand /\ source.work \in Nat /\ MaxReviews \in Nat
  BY AtWork, PlanAssumption DEF PlanIInv, PlanTypeOK
<1>3. /\ job[c].spec \in Nat /\ job[c].target \in Nat /\ job[c].parent \in 0..MaxReviews
      /\ r \in 0..MaxReviews
  BY <1>2 DEF Errand, Ids
<1>4. /\ v \in PlanRecord /\ v.status = "INTAKE" /\ v.request = source.work /\ v.worker = "none"
      /\ ~v.superseded /\ v.approvals = 0
  BY <1>2, <1>3 DEF PlanRecord, Unborn, Statuses, Callers
<1>5. j \in Errand /\ j.review = r
  BY <1>2, <1>3 DEF Errand
<1>6. reviews' = [reviews EXCEPT ![r] = v] /\ leased' = leased /\ lock' = c
  BY <1>1 DEF Admit
<1>7. PlanMoves(c, "admitted", j, r, v) /\ "admitted" \in PlanPlaces
  BY <1>1, <1>3, <1>6 DEF Admit, GoTo, MayLock, PlanMoves, PlanPlaces
<1> HIDE DEF v, j
<1>8. /\ at'[c] = "admitted" /\ job'[c] = j /\ reviews'[r] = v
      /\ \A d \in Callers : d # c => at'[d] = at[d] /\ job'[d] = job[d]
      /\ \A q \in Ids : q # r => reviews'[q] = reviews[q]
  BY <1>7 DEF PlanIInv, PlanTypeOK, PlanMoves
<1>9. RecordSound(v) /\ Later(reviews[r], v)
  BY <1>1, <1>2, <1>4 DEF RecordSound, Later, Status
<1>10. \A d \in Callers : job[d].review # r
  BY <1>1, AtWork DEF ErrandSound, Ids
<1>11. ErrandSound(c)'
  BY <1>4, <1>5, <1>6, <1>8, <1>10 DEF ErrandSound, Status, Ids
<1>12. Apart(c, j, r, v)
  BY <1>5, <1>10 DEF Apart
<1>13. ASSUME NEW q \in Ids PROVE LeaseBorne(q)'
  <2>1. CASE q = r
    BY <1>4, <1>8, <2>1 DEF LeaseBorne
  <2>2. CASE q # r
    <3>1. \A d \in Callers : Bearing(d, q)' => Bearing(d, q)
      BY <1>8 DEF Bearing
    <3>2. LeaseBorne(q)
      BY DEF PlanIInv, LeasesBorne
    <3> QED  BY <1>6, <1>8, <2>2, <3>1, <3>2 DEF LeaseBorne
  <2> QED  BY <2>1, <2>2
<1>14. LeasesBorne' /\ leased' \in 0..MaxReviews
  BY <1>6, <1>13, ReleasedType DEF LeasesBorne
<1> QED  BY <1>4, <1>5, <1>7, <1>9, <1>11, <1>12, <1>14, MoveKeeps

LEMMA DraftStep ==
    ASSUME PlanIInv, NEW c \in Callers, Draft(c) PROVE PlanIInv'
<1> DEFINE r == job[c].review  v == [reviews[r] EXCEPT !.status = "AWAITING", !.drafted = source.work]
<1>1. at[c] = "loaded"
  BY DEF Draft
<1>2. /\ r \in Ids /\ reviews[r] \in PlanRecord /\ RecordSound(reviews[r]) /\ reviews[r].status = "INTAKE"
      /\ job[c] \in Errand /\ source.work \in Nat
  BY <1>1, AtWork DEF ErrandSound, Status, PlanIInv, PlanTypeOK
<1>3. /\ v \in PlanRecord /\ v.status = "AWAITING" /\ v.drafted = source.work /\ v.worker = reviews[r].worker
      /\ v.request = reviews[r].request /\ v.superseded = reviews[r].superseded
      /\ v.approvals = reviews[r].approvals
  BY <1>2 DEF PlanRecord, Statuses
<1>4. reviews' = [reviews EXCEPT ![r] = v] /\ leased' = leased /\ lock' = lock
  BY <1>2 DEF Draft, PlanIInv, PlanTypeOK
<1>5. PlanMoves(c, "created", job[c], r, v) /\ "created" \in PlanPlaces /\ leased' \in 0..MaxReviews
  BY <1>4, VacatedType, ReleasedType DEF Draft, GoTo, PlanMoves, PlanPlaces, PlanIInv, PlanTypeOK
<1> HIDE DEF v
<1>6. RecordSound(v) /\ Later(reviews[r], v)
  BY <1>2, <1>3 DEF RecordSound, Later, Terminal
<1>7. at'[c] = "created" /\ job'[c] = job[c] /\ reviews'[r] = v
  BY <1>2, <1>5 DEF PlanIInv, PlanTypeOK, PlanMoves
<1>8. ErrandSound(c)'
  BY <1>2, <1>3, <1>4, <1>7, AtWork DEF ErrandSound, Status, Ids
<1>9. Apart(c, job[c], r, v)
  BY OwnReview DEF Apart
<1>10. LeasesBorne'
  BY <1>2, <1>3, <1>4, <1>5, LeaseStays DEF Carried
<1> QED  BY <1>2, <1>3, <1>5, <1>6, <1>8, <1>9, <1>10, MoveKeeps

LEMMA DraftFailsStep ==
    ASSUME PlanIInv, NEW c \in Callers, DraftFails(c) PROVE PlanIInv'
<1> DEFINE r == job[c].review  v == FailedRecord(reviews[r])
<1>1. at[c] = "loaded" /\ Leave(c) /\ UNCHANGED <<leased, source, authorized>>
  BY DEF DraftFails
<1>2. r \in Ids /\ reviews[r] \in PlanRecord /\ RecordSound(reviews[r]) /\ reviews[r].status # "none"
  BY <1>1, AtWork DEF Status
<1>3. reviews' = [reviews EXCEPT ![r] = v]
  BY DEF DraftFails, Failed, FailedRecord
<1>4. live' \in 0..MaxReviews /\ leased' \in 0..MaxReviews
  BY <1>1, VacatedType, ReleasedType DEF DraftFails
<1>5. /\ v \in PlanRecord /\ RecordSound(v) /\ Later(reviews[r], v)
      /\ v.approvals = reviews[r].approvals /\ v.worker = reviews[r].worker
  BY <1>2, FailedRecordIs
<1> HIDE DEF v
<1>6. PlanMoves(c, "idle", Nothing, r, v) => LeasesBorne'
  BY <1>1, <1>2, <1>5, LeaseStays DEF Carried
<1> QED  BY <1>1, <1>3, <1>4, <1>5, <1>6, LeaveWrites

(* A record that is announced, aborted or linked.                          *)
LEMMA MarkedRecordIs ==
    ASSUME NEW v \in PlanRecord, RecordSound(v), v.status # "none", NEW b \in BOOLEAN
    PROVE  /\ LET w == [v EXCEPT !.status = "ABORTED", !.superseded = b]
              IN  /\ w \in PlanRecord /\ RecordSound(w) /\ Later(v, w) /\ w.status = "ABORTED"
                  /\ w.approvals = v.approvals /\ w.worker = v.worker
           /\ LET w == [v EXCEPT !.linked = TRUE]
              IN  /\ w \in PlanRecord /\ RecordSound(w) /\ Later(v, w)
                  /\ w.approvals = v.approvals /\ w.worker = v.worker
<1> DEFINE x == [v EXCEPT !.status = "ABORTED", !.superseded = b]  y == [v EXCEPT !.linked = TRUE]
<1>1. /\ x \in PlanRecord /\ x.approvals = v.approvals /\ x.worker = v.worker /\ x.drafted = v.drafted
      /\ x.request = v.request /\ x.status = "ABORTED"
  BY DEF PlanRecord, Statuses, Terminal
<1>2. /\ y \in PlanRecord /\ y.approvals = v.approvals /\ y.worker = v.worker /\ y.drafted = v.drafted
      /\ y.request = v.request /\ y.status = v.status /\ y.superseded = v.superseded
  BY DEF PlanRecord
<1>3. v.approvals \in Nat
  BY DEF PlanRecord
<1> HIDE DEF x, y
<1>4. RecordSound(x) /\ Later(v, x)
  BY <1>1, <1>3 DEF RecordSound, Later, Terminal
<1>5. RecordSound(y) /\ Later(v, y)
  BY <1>2, <1>3 DEF RecordSound, Later
<1> QED  BY <1>1, <1>2, <1>4, <1>5 DEF x, y

LEMMA LinkRevisionStep ==
    ASSUME PlanIInv, LinkRevision PROVE PlanIInv'
<1> DEFINE c == "loop"  r == job[c].review  v == [reviews[r] EXCEPT !.linked = TRUE]
<1>1. c \in Callers /\ at[c] = "linking" /\ Leave(c) /\ UNCHANGED <<live, leased, source, authorized>>
  BY DEF LinkRevision, Callers
<1>2. r \in Ids /\ reviews[r] \in PlanRecord /\ RecordSound(reviews[r]) /\ reviews[r].status # "none"
  BY <1>1, AtWork DEF Status
<1>3. reviews' = [reviews EXCEPT ![r] = v]
  BY <1>2 DEF LinkRevision, Set, PlanIInv, PlanTypeOK, PlanRecord
<1>4. live' \in 0..MaxReviews /\ leased' \in 0..MaxReviews
  BY <1>1, VacatedType, ReleasedType
<1>5. /\ v \in PlanRecord /\ RecordSound(v) /\ Later(reviews[r], v)
      /\ v.approvals = reviews[r].approvals /\ v.worker = reviews[r].worker
  BY <1>2, MarkedRecordIs
<1> HIDE DEF v
<1>6. PlanMoves(c, "idle", Nothing, r, v) => LeasesBorne'
  BY <1>1, <1>2, <1>5, LeaseStays DEF Carried
<1> QED  BY <1>1, <1>3, <1>4, <1>5, <1>6, LeaveWrites

(* A draft is aborted, and its caller goes on to make room.                *)
LEMMA AbortKeeps ==
    ASSUME PlanIInv, NEW b \in BOOLEAN, NEW p \in {"superseded", "cancelled"},
           at["loop"] \in {"announced", "cancelling"}, Abort(job["loop"].review, b), GoTo("loop", p),
           UNCHANGED <<live, lock, leased, source, authorized, job>>
    PROVE  PlanIInv'
<1> DEFINE c == "loop"  r == job[c].review  v == [reviews[r] EXCEPT !.status = "ABORTED", !.superseded = b]
<1>1. c \in Callers /\ p \in PlanPlaces /\ job[c] \in Errand
  BY AtWork DEF Callers, PlanPlaces
<1>2. r \in Ids /\ reviews[r] \in PlanRecord /\ RecordSound(reviews[r]) /\ reviews[r].status # "none"
  BY <1>1, AtWork DEF Status
<1>3. reviews' = [reviews EXCEPT ![r] = v]
  BY <1>2 DEF Abort, PlanIInv, PlanTypeOK
<1>4. leased' \in 0..MaxReviews /\ live' \in 0..MaxReviews
  BY VacatedType, ReleasedType
<1>5. /\ v \in PlanRecord /\ RecordSound(v) /\ Later(reviews[r], v) /\ v.status = "ABORTED"
      /\ v.approvals = reviews[r].approvals /\ v.worker = reviews[r].worker
  BY <1>2, MarkedRecordIs
<1>6. PlanMoves(c, p, job[c], r, v)
  BY <1>1, <1>3, <1>4 DEF GoTo, PlanMoves, PlanIInv, PlanTypeOK
<1> HIDE DEF v
<1>7. at'[c] = p /\ job' = job /\ reviews'[r] = v /\ lock' = lock
  BY <1>1, <1>2, <1>6 DEF PlanIInv, PlanTypeOK, PlanMoves
<1>8. ErrandSound(c)'
  BY <1>1, <1>2, <1>5, <1>7, AtWork DEF ErrandSound, Status, Ids
<1>9. Apart(c, job[c], r, v)
  BY <1>1, OwnReview DEF Apart
<1>10. LeasesBorne'
  BY <1>1, <1>2, <1>5, <1>6, LeaseStays DEF Carried
<1> QED  BY <1>1, <1>2, <1>4, <1>5, <1>6, <1>8, <1>9, <1>10, MoveKeeps

LEMMA AbortStep ==
    ASSUME PlanIInv, Supersede \/ CancelAborts PROVE PlanIInv'
<1>1. "loop" \in Callers /\ live \in 0..MaxReviews
  BY VacatedType DEF Callers
<1>2. CASE Supersede
  <2>1. CASE Status(job["loop"].review) \notin Terminal
    BY <1>2, <2>1, AbortKeeps DEF Supersede
  <2>2. CASE Status(job["loop"].review) \in Terminal
    BY <1>1, <1>2, <2>2, LeaveKeeps DEF Supersede
  <2> QED  BY <2>1, <2>2
<1>3. CASE CancelAborts
  <2>1. CASE Status(job["loop"].review) \notin Terminal
    BY <1>3, <2>1, AbortKeeps DEF CancelAborts
  <2>2. CASE Status(job["loop"].review) \in Terminal
    BY <1>1, <1>3, <2>2, LeaveKeeps DEF CancelAborts
  <2> QED  BY <2>1, <2>2
<1> QED  BY <1>2, <1>3

(* The worker moves on; no caller does.                                    *)
LEMMA WorkerKeeps ==
    ASSUME PlanIInv, NEW r \in Ids, NEW v \in PlanRecord, reviews' = [reviews EXCEPT ![r] = v],
           UNCHANGED <<lock, source, authorized, at, job>>, live' \in 0..MaxReviews,
           reviews[r].worker # "none", v.worker # "none", v.status \notin {"none", "INTAKE"},
           v.drafted = reviews[r].drafted, v.request = reviews[r].request, v.approvals = reviews[r].approvals,
           RecordSound(v),
           \/ leased' = leased /\ Carried(reviews[r].worker, v.worker)
           \/ leased' = Released(r) /\ v.worker = "finishing"
    PROVE  PlanIInv'
<1> DEFINE c == "loop"
<1>1. /\ c \in Callers /\ at[c] \in PlanPlaces /\ job[c] \in Errand /\ reviews[r] \in PlanRecord
      /\ RecordSound(reviews[r]) /\ leased' \in 0..MaxReviews /\ v.approvals \in Nat
  BY AtWork, ReleasedType DEF Callers, PlanIInv, PlanTypeOK, RecordsSound, PlanRecord
<1>2. PlanMoves(c, at[c], job[c], r, v)
  BY <1>1 DEF PlanMoves, PlanIInv, PlanTypeOK
<1>3. Later(reviews[r], v)
  BY <1>1 DEF Later
<1>4. \A d \in Callers : at[d] \in {"admitted", "loaded"} => job[d].review # r
  BY <1>1, AtWork DEF ErrandSound, RecordSound, Status
<1>5. Apart(c, job[c], r, v)
  BY <1>1, <1>4, OwnReview DEF Apart
<1>6. \A q \in Ids : (q = r /\ reviews'[q] = v) \/ (q # r /\ reviews'[q] = reviews[q])
  BY DEF PlanIInv, PlanTypeOK
<1>7. \A q \in Ids : Status(q) # "none" => Later(reviews[q], reviews'[q]) /\ reviews'[q].approvals \in Nat
  BY <1>1, <1>3, <1>6 DEF Later, Status, PlanIInv, PlanTypeOK, PlanRecord
<1>8. at[c] \in {"admitted", "loaded"} =>
          /\ reviews'[job[c].review].status = "INTAKE"
          /\ \A e \in Callers : e # c => job'[e].review # job[c].review
  BY <1>1, <1>4, <1>6, AtWork DEF ErrandSound, Status
<1>9. ErrandSound(c)'
  BY <1>1, <1>7, <1>8, ErrandKept
<1>10. LeasesBorne'
  <2>1. CASE leased' = leased /\ Carried(reviews[r].worker, v.worker)
    BY <1>1, <1>2, <2>1, LeaseStays
  <2>2. CASE leased' = Released(r) /\ v.worker = "finishing"
    BY <1>1, <1>2, <2>2, LeaseReturns
  <2> QED  BY <2>1, <2>2
<1> QED  BY <1>1, <1>2, <1>3, <1>5, <1>9, <1>10, MoveKeeps

LEMMA WorkerStep ==
    ASSUME PlanIInv, NEW r \in Ids, WorkerBegins(r) \/ WorkerPrepares(r) \/ WorkerEnds(r) PROVE PlanIInv'
<1>1. /\ reviews[r] \in PlanRecord /\ RecordSound(reviews[r]) /\ reviews[r].worker # "none"
      /\ UNCHANGED <<lock, source, authorized, at, job>> /\ live' \in 0..MaxReviews
  BY VacatedType DEF WorkerBegins, WorkerPrepares, WorkerEnds, PlanIInv, PlanTypeOK, RecordsSound
<1>2. ASSUME reviews[r].worker = "starting", Status(r) = "FROZEN", WorkerBegins(r) PROVE PlanIInv'
  <2> DEFINE v == [reviews[r] EXCEPT !.status = "RUNNING", !.worker = "running"]
  <2>1. /\ v \in PlanRecord /\ v.status = "RUNNING" /\ v.worker = "running" /\ v.superseded = reviews[r].superseded
        /\ v.drafted = reviews[r].drafted /\ v.request = reviews[r].request
        /\ v.approvals = reviews[r].approvals
    BY <1>1 DEF PlanRecord, Statuses
  <2>2. reviews' = [reviews EXCEPT ![r] = v] /\ leased' = leased
    BY <1>2 DEF WorkerBegins, PlanIInv, PlanTypeOK
  <2> HIDE DEF v
  <2>3. RecordSound(v) /\ Carried(reviews[r].worker, v.worker)
    BY <1>1, <1>2, <2>1 DEF RecordSound, Status, Terminal, Carried
  <2> QED  BY <1>1, <2>1, <2>2, <2>3, WorkerKeeps
<1>3. ASSUME reviews' = Prepared(r), leased' = Released(r) PROVE PlanIInv'
  <2> DEFINE v == [reviews[r] EXCEPT !.lease = FALSE, !.worker = "finishing"]
  <2>1. /\ v \in PlanRecord /\ v.status = reviews[r].status /\ v.worker = "finishing"
        /\ v.superseded = reviews[r].superseded /\ v.drafted = reviews[r].drafted
        /\ v.request = reviews[r].request /\ v.approvals = reviews[r].approvals
    BY <1>1 DEF PlanRecord
  <2>2. reviews' = [reviews EXCEPT ![r] = v]
    BY <1>3 DEF Prepared, PlanIInv, PlanTypeOK
  <2> HIDE DEF v
  <2>3. RecordSound(v) /\ v.status \notin {"none", "INTAKE"}
    BY <1>1, <2>1 DEF RecordSound
  <2> QED  BY <1>1, <1>3, <2>1, <2>2, <2>3, WorkerKeeps
<1>4. ASSUME NEW last \in {"COMPLETE", "FAILED"}, leased' = leased, reviews[r].worker = "finishing",
             reviews' = [reviews EXCEPT ![r].worker = "ended",
                                        ![r].status = IF @ \in Terminal THEN @ ELSE last]
      PROVE  PlanIInv'
  <2> DEFINE v == [reviews[r] EXCEPT !.worker = "ended", !.status = IF @ \in Terminal THEN @ ELSE last]
  <2>1. /\ v \in PlanRecord /\ v.status \in Terminal /\ v.worker = "ended"
        /\ v.superseded = reviews[r].superseded /\ v.drafted = reviews[r].drafted
        /\ v.request = reviews[r].request /\ v.approvals = reviews[r].approvals
    BY <1>1 DEF PlanRecord, Statuses, Terminal
  <2>2. reviews' = [reviews EXCEPT ![r] = v]
    BY <1>4 DEF PlanIInv, PlanTypeOK
  <2> HIDE DEF v
  <2>3. RecordSound(v) /\ v.status \notin {"none", "INTAKE"} /\ Carried(reviews[r].worker, v.worker)
    BY <1>1, <1>4, <2>1 DEF RecordSound, Carried, Terminal
  <2> QED  BY <1>1, <1>4, <2>1, <2>2, <2>3, WorkerKeeps
<1>5. CASE WorkerBegins(r)
  BY <1>2, <1>3, <1>5 DEF WorkerBegins
<1>6. CASE WorkerPrepares(r)
  BY <1>3, <1>6 DEF WorkerPrepares
<1>7. CASE WorkerEnds(r)
  BY <1>4, <1>7 DEF WorkerEnds
<1> QED  BY <1>5, <1>6, <1>7

LEMMA InitPlanIInv == PAInit => PlanIInv
<1> SUFFICES ASSUME PAInit PROVE PlanIInv
  OBVIOUS
<1>1. Unborn \in PlanRecord /\ Nothing \in Errand
  BY PlanAssumption DEF Unborn, Nothing, PlanRecord, Errand, Statuses, Callers
<1>2. PlanTypeOK
  BY <1>1, PlanAssumption DEF PAInit, PlanTypeOK, PlanPlaces
<1>3. RecordsSound
  BY DEF PAInit, RecordsSound, RecordSound, Unborn
<1>4. ErrandsSound
  BY DEF PAInit, ErrandsSound, ErrandSound, Nothing
<1>5. LeasesBorne
  BY DEF PAInit, LeasesBorne, LeaseBorne, Unborn
<1> QED  BY <1>2, <1>3, <1>4, <1>5 DEF PlanIInv

LEMMA NextPlanIInv == ASSUME PlanIInv, [PANext]_pavars PROVE PlanIInv'
<1>1. ASSUME NEW c \in Callers, CreateStep(c) PROVE PlanIInv'
  BY <1>1, AskForReviewStep, CompileStep, AdmitStep, BusyStep, LoadMemoryStep, DraftStep, DraftFailsStep,
     StandingApprovesStep, NoStandingApprovalStep DEF CreateStep
<1>2. ASSUME NEW c \in Callers, ApproveStep(c) PROVE PlanIInv'
  BY <1>2, CompareSourceStep, TakeLeaseStep, FreezeStep, StartWorkerStep, WorkerDoesNotStartStep DEF ApproveStep
<1>3. ASSUME NEW r \in Ids, WorkerBegins(r) \/ WorkerPrepares(r) \/ WorkerEnds(r) PROVE PlanIInv'
  BY <1>3, WorkerStep
<1>4. ASSUME NEW r \in Ids, NEW shown \in Ids, HumanApproves(shown, r) PROVE PlanIInv'
  BY <1>4, HumanApprovesStep
<1>5. ASSUME NEW r \in Ids, Revise(r) \/ Cancel(r) PROVE PlanIInv'
  BY <1>5, ReviseStep, CancelStep
<1>6. CASE Supersede \/ MakeRoom \/ LinkRevision \/ CancelAborts \/ CancelMakesRoom
  BY <1>6, AbortStep, MakeRoomStep, LinkRevisionStep, CancelMakesRoomStep
<1>7. CASE Edit \/ Expire \/ UNCHANGED pavars
  BY <1>7, WorldStep
<1> QED  BY <1>1, <1>2, <1>3, <1>4, <1>5, <1>6, <1>7 DEF PANext

(* What records, places of the callers, the lock and the lease imply of    *)
(* each other holds in every state, however the two threads interleave.    *)
THEOREM PlanIInvHolds == PASpec => []PlanIInv
  BY InitPlanIInv, NextPlanIInv, PTL DEF PASpec

(* A running worker has the plan drawn from the source its request froze,  *)
(* and, if it was approved once, the lease of the repository.              *)
THEOREM RunsAreSound == PASpec => []RunIsSound
<1>1. ASSUME PlanIInv PROVE PlanIsForItsSource
  BY <1>1 DEF PlanIInv, RecordsSound, RecordSound, PlanIsForItsSource
<1>2. ASSUME PlanIInv PROVE RunHoldsLease
  BY <1>2 DEF PlanIInv, LeasesBorne, LeaseBorne, RunHoldsLease
<1>3. PlanIInv => RunIsSound
  BY <1>1, <1>2 DEF RunIsSound
<1> QED  BY <1>3, PlanIInvHolds, PTL

(* Only the first step of a worker makes it run, and it asks the status.   *)
LEMMA OnlyFrozenBegins ==
    ASSUME PlanIInv, [PANext]_pavars, NEW r \in Ids,
           reviews[r].worker # "running", reviews'[r].worker = "running"
    PROVE  reviews[r].status = "FROZEN"
<1>1. reviews \in [Ids -> PlanRecord] /\ \A q \in Ids : reviews[q] \in PlanRecord
  BY DEF PlanIInv, PlanTypeOK
<1>2. ASSUME NEW c \in Callers, CreateStep(c) PROVE FALSE
  <2>1. ~Draft(c)
    BY <1>1 DEF Draft, PlanRecord
  <2>2. ~DraftFails(c)
    BY <1>1 DEF DraftFails, Failed, PlanRecord
  <2>3. ASSUME Admit(c) PROVE FALSE
    <3> DEFINE v == [Unborn EXCEPT !.status = "INTAKE", !.by = c, !.spec = job[c].spec,
                                   !.target = job[c].target, !.request = source.work,
                                   !.parent = job[c].parent]
    <3>1. reviews' = [reviews EXCEPT ![NextId] = v]
      BY <2>3 DEF Admit
    <3>2. v.worker = "none"
      BY DEF Unborn
    <3> HIDE DEF v
    <3> QED  BY <1>1, <3>1, <3>2
  <2> QED  BY <1>2, <2>1, <2>2, <2>3 DEF CreateStep, AskForReview, Compile, Busy, LoadMemory, StandingApproves,
                            NoStandingApproval
<1>3. ASSUME NEW c \in Callers, ApproveStep(c) PROVE FALSE
  <2> DEFINE n == job[c].review
  <2>1. ASSUME NEW l \in BOOLEAN, Refused(c, [reviews EXCEPT ![n].lease = l]) PROVE FALSE
    BY <1>1, <2>1 DEF Refused, Failed, PlanRecord
  <2>2. ~Refused(c, reviews)
    BY <1>1 DEF Refused, Failed, PlanRecord
  <2>3. ~CompareSource(c)
    BY <2>2 DEF CompareSource
  <2>4. ~TakeLease(c)
    BY <1>1, <2>2 DEF TakeLease, PlanRecord
  <2>5. ~Freeze(c)
    BY <1>1, <2>1 DEF Freeze, Set, PlanRecord
  <2>6. ~StartWorker(c)
    BY <1>1 DEF StartWorker, Set, PlanRecord
  <2>7. ~WorkerDoesNotStart(c)
    BY <2>1 DEF WorkerDoesNotStart
  <2> QED  BY <1>3, <2>3, <2>4, <2>5, <2>6, <2>7 DEF ApproveStep
<1>4. ASSUME NEW q \in Ids, WorkerPrepares(q) \/ WorkerEnds(q) PROVE FALSE
  BY <1>1, <1>4 DEF WorkerPrepares, WorkerEnds, Prepared, PlanRecord
<1>5. ASSUME NEW q \in Ids, WorkerBegins(q) PROVE reviews[r].status = "FROZEN"
  BY <1>1, <1>5 DEF WorkerBegins, Prepared, Status, PlanRecord
<1>6. ~(Supersede \/ CancelAborts \/ LinkRevision)
  BY <1>1 DEF Supersede, CancelAborts, LinkRevision, Abort, Set, PlanRecord
<1>7. ASSUME NEW q \in Ids, NEW shown \in Ids, HumanApproves(shown, q) \/ Revise(q) \/ Cancel(q) PROVE FALSE
  BY <1>7 DEF HumanApproves, Revise, Cancel
<1>8. ~(MakeRoom \/ CancelMakesRoom \/ Edit \/ Expire \/ UNCHANGED pavars)
  BY DEF MakeRoom, CancelMakesRoom, Edit, Expire, pavars
<1> QED  BY <1>2, <1>3, <1>4, <1>5, <1>6, <1>7, <1>8 DEF PANext

(* A superseded review never begins to run.                                *)
THEOREM SupersededStaysIdle == PASpec => SupersededNeverBegins
<1>1. PlanIInv /\ [PANext]_pavars =>
        [\A r \in Ids : reviews[r].superseded /\ reviews[r].worker # "running"
                            => reviews[r]'.worker # "running"]_pavars
  BY OnlyFrozenBegins DEF PlanIInv, RecordsSound, RecordSound, Terminal
<1> QED  BY <1>1, PlanIInvHolds, PTL DEF PASpec, SupersededNeverBegins
=============================================================================
