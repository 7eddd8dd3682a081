--------------------------- MODULE DeliveryProofs ---------------------------
(***************************************************************************)
(* Proofs about Delivery: the ledger of the edit sessions, the commits and *)
(* the exported packages are sound for any number of requests, patches,    *)
(* sessions, edits of the checkout and restarts of the server.             *)
(*                                                                         *)
(* The inductive invariant has a part for each property: what a request    *)
(* knows of the source (Compared), what it was allowed to write (Counted), *)
(* whose sessions are active (Owned), how a session came to its state      *)
(* (Earned), and what the holder of the lock is about to export (Sealed).  *)
(***************************************************************************)
EXTENDS Delivery, TLAPS

Outcomes == {"pending", "verified", "rejected", "delivered"}
States == {"absent"} \cup Active \cup Terminal
Files == Patches \cup {None}
SessionRecord == [st : States, owner : Nat, cands : SUBSET (Patches \X Outcomes), hops : SUBSET States]

(* The places of a request, by what it has done.                           *)
Outside == {"idle", "done"}
Asking == {"read", "budgeted"}
Before == {"checked", "entered", "leased", "built", "tested"}
After == {"failed", "rejected", "committed", "delivered", "manifest", "record", "patch",
          "ledger", "refuted", "verified", "counted"}
Places == Outside \cup Asking \cup Before \cup After

RequestRecord ==
    [at : Places, op : {"repair", "verify"}, s : 0..MaxSessions, p : Files, rec : SessionRecord,
     by : Threads \cup {None}, src : Nat, seen : Nat, edited : BOOLEAN]

Fingerprints == [source : Nat, patch : Files, manifest : Files, commit : Threads \cup {None}]

(* A request that has begun is about a patch.                              *)
HasPatch(t) == thread[t].at \notin Outside => thread[t].p \in Patches

(* Types.                                                                  *)
TypeOK ==
    /\ session \in [Sessions -> SessionRecord] /\ thread \in [Threads -> RequestRecord]
    /\ \A t \in Threads : HasPatch(t)
    /\ gate \in [at : {"free", "pin", "export"}, s : 0..MaxSessions, five : Fingerprints, raced : BOOLEAN]
    /\ source \in Nat /\ visible \in Nat
    /\ lease \in [op : {"free", "repair", "verify"}, by : Threads \cup {None}]
    /\ commit \in [Threads -> [src : Nat, p : Files, raced : BOOLEAN]]
    /\ artifact \in [manifest : Files, record : Threads \cup {None}, patch : Files]
    /\ approval \in [s : 0..MaxSessions, five : Fingerprints]
    /\ pinned \in [Sessions -> Fingerprints]
    /\ writes \in Nat /\ epoch \in Nat /\ overlap \in BOOLEAN

(* The holder of the lock exports what its session's pin says, and the     *)
(* files still have the fingerprints it computed, or were replaced since.  *)
Sealed ==
    /\ ExportMatchesApproval
    /\ gate.at = "export" =>
          /\ gate.s \in Sessions /\ gate.five = pinned[gate.s]
          /\ gate.raced \/ (artifact.patch = gate.five.patch /\ artifact.manifest = gate.five.manifest
                            /\ artifact.record = gate.five.commit)
    /\ gate.at = "pin" => gate.s \in Sessions

(* A request past its comparison is in the reviewed source and took its    *)
(* worktree from it, unless the checkout was edited since it began.        *)
Compared ==
    /\ CommitsReviewedSource
    /\ \A t \in Threads :
          /\ At(t, "read") \/ At(t, "budgeted") \/ At(t, "idle") => thread[t].src = 0
          /\ thread[t].at \in Before \cup After => thread[t].edited \/ (source = 0 /\ thread[t].src = 0)

(* While verifications come one after another, the only one there is has   *)
(* room for its event.                                                     *)
Counted ==
    /\ ~overlap =>
          /\ writes <= MaxWrites
          /\ \A t, u \in Verifying : t = u
          /\ \A t \in Verifying : thread[t].at # "counted" => writes < MaxWrites
    /\ \A t \in Threads : At(t, "verified") => thread[t].op = "verify"

(* An active session is of this process, and so is one that a request      *)
(* works on; the copy a request keeps has the owner of the record.         *)
Owned ==
    /\ \A s \in Sessions : /\ session[s].owner <= epoch
                           /\ session[s].st \in Active => session[s].owner = epoch
    /\ \A t \in Threads : thread[t].s # 0 /\ thread[t].at \notin Outside \cup {"budgeted"} =>
          /\ session[thread[t].s].owner = epoch /\ session[thread[t].s].st # "absent"
          /\ thread[t].at \in {"read", "checked"} =>
                thread[t].rec.owner = epoch /\ thread[t].rec.st \in Takes

(* The states a session went through are in its history; one that is       *)
(* delivered has the outcome of a request that committed and does not      *)
(* commit again.                                                           *)
Walked(rec) ==
    /\ rec.st \in {"patch_candidate", "verified", "awaiting_delivery", "delivered"} => "patch_candidate" \in rec.hops
    /\ rec.st \in {"verified", "awaiting_delivery", "delivered"} => "verified" \in rec.hops
    /\ rec.st \in {"awaiting_delivery", "delivered"} => "awaiting_delivery" \in rec.hops

HasCommitted == {"committed", "delivered", "manifest", "record", "patch", "ledger"}

Earned ==
    /\ \A s \in Sessions :
          /\ Walked(session[s])
          /\ session[s].st = "delivered" =>
                \E t \in Threads : /\ thread[t].at \in {"done"} \cup After
                                   /\ <<commit[t].p, "delivered">> \in session[s].cands
    /\ \A t \in Threads : thread[t].at \in HasCommitted => commit[t].p = thread[t].p

IInv == TypeOK /\ Sealed /\ Compared /\ Counted /\ Owned /\ Earned

-----------------------------------------------------------------------------
(* The operators on a session's record.                                    *)

LEMMA TransitionedRecord ==
    ASSUME NEW rec \in SessionRecord, NEW dst \in States
    PROVE  /\ Transitioned(rec, dst) \in SessionRecord
           /\ Transitioned(rec, dst).st = dst
           /\ Transitioned(rec, dst).owner = rec.owner
           /\ Transitioned(rec, dst).cands = rec.cands
           /\ Transitioned(rec, dst).hops = rec.hops \cup {dst}
  BY DEF Transitioned, SessionRecord

LEMMA WithCandidateRecord ==
    ASSUME NEW rec \in SessionRecord, NEW p \in Patches, NEW outcome \in Outcomes
    PROVE  /\ WithCandidate(rec, p, outcome) \in SessionRecord
           /\ WithCandidate(rec, p, outcome).st = rec.st
           /\ WithCandidate(rec, p, outcome).owner = rec.owner
           /\ WithCandidate(rec, p, outcome).cands = rec.cands \cup {<<p, outcome>>}
           /\ WithCandidate(rec, p, outcome).hops = rec.hops
  BY DEF WithCandidate, SessionRecord

LEMMA NoSessionRecord == NoSession \in SessionRecord /\ NoSession.st = "absent" /\ NoSession.hops = {}
  BY DEF NoSession, SessionRecord, States

(* A harvest closes the active sessions of other processes, and changes no *)
(* other.                                                                  *)
LEMMA HarvestedSessions ==
    ASSUME TypeOK, NEW now \in Nat
    PROVE  /\ Harvested(now) \in [Sessions -> SessionRecord]
           /\ \A s \in Sessions :
                 /\ Harvested(now)[s].owner = session[s].owner
                 /\ Harvested(now)[s].st = "absent" <=> session[s].st = "absent"
                 /\ session[s].st \in Active /\ session[s].owner # now
                        => Harvested(now)[s].st = "abandoned"
                 /\ ~(session[s].st \in Active /\ session[s].owner # now)
                        => Harvested(now)[s] = session[s]
<1> "abandoned" \in States /\ "abandoned" \notin Active /\ "absent" \notin Active
  BY DEF States, Terminal, Active
<1>1. \A s \in Sessions : session[s] \in SessionRecord
  BY DEF TypeOK
<1>2. \A s \in Sessions : /\ Transitioned(session[s], "abandoned") \in SessionRecord
                          /\ Transitioned(session[s], "abandoned").st = "abandoned"
                          /\ Transitioned(session[s], "abandoned").owner = session[s].owner
  BY <1>1, TransitionedRecord
<1>3. \A s \in Sessions :
         Harvested(now)[s] = IF session[s].st \in Active /\ session[s].owner # now
                             THEN Transitioned(session[s], "abandoned") ELSE session[s]
  BY DEF Harvested
<1>4. Harvested(now) \in [Sessions -> SessionRecord]
  BY <1>1, <1>2 DEF Harvested
<1> QED  BY <1>1, <1>2, <1>3, <1>4

(* What passed tests make of a session.                                    *)
LEMMA PassedRecord ==
    ASSUME NEW rec \in SessionRecord, NEW op \in {"repair", "verify"}
    PROVE  /\ Passed(op, rec) \in SessionRecord
           /\ Passed(op, rec).owner = rec.owner /\ Passed(op, rec).cands = rec.cands
           /\ Passed(op, rec).st = "absent" <=> rec.st = "absent"
           /\ Passed(op, rec).st = "delivered" <=> rec.st = "delivered"
           /\ Passed(op, rec).st \in Active <=> rec.st \in Active
           /\ Walked(rec) => Walked(Passed(op, rec))
<1> DEFINE once == IF rec.st = "patch_candidate" THEN Transitioned(rec, "verified") ELSE rec
<1> {"verified", "awaiting_delivery"} \subseteq States
  BY DEF States, Active
<1>1. /\ once \in SessionRecord /\ once.owner = rec.owner /\ once.cands = rec.cands
      /\ rec.st = "patch_candidate" => once.st = "verified" /\ once.hops = rec.hops \cup {"verified"}
      /\ rec.st # "patch_candidate" => once = rec
  BY TransitionedRecord
<1>2. Passed(op, rec) = IF op = "repair" /\ once.st = "verified"
                        THEN Transitioned(once, "awaiting_delivery") ELSE once
  BY DEF Passed
<1> HIDE DEF once
<1>3. /\ Transitioned(once, "awaiting_delivery") \in SessionRecord
      /\ Transitioned(once, "awaiting_delivery").st = "awaiting_delivery"
      /\ Transitioned(once, "awaiting_delivery").owner = once.owner
      /\ Transitioned(once, "awaiting_delivery").cands = once.cands
      /\ Transitioned(once, "awaiting_delivery").hops = once.hops \cup {"awaiting_delivery"}
  BY <1>1, TransitionedRecord
<1> QED  BY <1>1, <1>2, <1>3 DEF Walked, Active

-----------------------------------------------------------------------------
(* What the steps of a request change.                                     *)

(* Request t goes to a place, and keeps what it carries unless it ends.    *)
Moved(t, place) ==
    /\ thread' \in [Threads -> RequestRecord]
    /\ \A u \in Threads : u # t => thread'[u] = thread[u]
    /\ thread'[t].at = place
    /\ place # "done" => /\ thread'[t].op = thread[t].op /\ thread'[t].s = thread[t].s
                         /\ thread'[t].p = thread[t].p /\ (thread'[t].edited <=> thread[t].edited)

(* One session gets a new record.                                          *)
Written(s, rec) ==
    /\ session' \in [Sessions -> SessionRecord]
    /\ \A r \in Sessions : r # s => session'[r] = session[r]
    /\ s \in Sessions => session'[s] = rec

LEMMA GoMoves ==
    ASSUME TypeOK, NEW t \in Threads, NEW place \in Places, Go(t, place)
    PROVE  Moved(t, place) /\ thread'[t].src = thread[t].src /\ thread'[t].rec = thread[t].rec
  BY DEF TypeOK, Go, Moved, RequestRecord

LEMMA GoWithMoves ==
    ASSUME TypeOK, NEW t \in Threads, NEW place \in Places, NEW rec \in SessionRecord,
           GoWith(t, place, rec)
    PROVE  Moved(t, place) /\ thread'[t].src = thread[t].src /\ thread'[t].rec = rec
<1> DEFINE r == [thread[t] EXCEPT !.at = place, !.rec = rec]
<1>1. thread[t] \in RequestRecord
  BY DEF TypeOK
<1>2. /\ r \in RequestRecord /\ r.at = place /\ r.rec = rec
      /\ r.op = thread[t].op /\ r.s = thread[t].s /\ r.p = thread[t].p
      /\ r.edited = thread[t].edited /\ r.src = thread[t].src
  BY <1>1 DEF RequestRecord
<1>3. thread' = [thread EXCEPT ![t] = r]
  BY <1>1 DEF GoWith, TypeOK
<1> HIDE DEF r
<1> QED  BY <1>2, <1>3 DEF TypeOK, Moved

LEMMA EndMoves ==
    ASSUME TypeOK, NEW t \in Threads, End(t)
    PROVE  Moved(t, "done")
<1>1. Done \in RequestRecord /\ Done.at = "done"
  <2>1. MaxSessions \in Nat
    BY DeliveryAssumption
  <2>2. Idle \in RequestRecord
    BY <2>1, NoSessionRecord DEF Idle, RequestRecord, Places, Outside, Files
  <2> QED  BY <2>2 DEF Done, RequestRecord, Places, Outside
<1> QED  BY <1>1 DEF TypeOK, End, Moved

LEMMA PutWrites ==
    ASSUME TypeOK, NEW s, NEW rec \in SessionRecord, Put(s, rec)
    PROVE  Written(s, rec)
  BY DEF TypeOK, Put, Written

(* A request's session exists when it has one.                             *)
LEMMA SessionOf ==
    ASSUME TypeOK, NEW t \in Threads
    PROVE  /\ thread[t] \in RequestRecord /\ thread[t].rec \in SessionRecord
           /\ HasSession(t) => thread[t].s \in Sessions /\ session[thread[t].s] \in SessionRecord
<1>1. MaxSessions \in Nat
  BY DeliveryAssumption
<1>2. thread[t].s \in 0..MaxSessions
  BY DEF TypeOK, RequestRecord
<1> QED  BY <1>1, <1>2 DEF TypeOK, RequestRecord, HasSession, Sessions

-----------------------------------------------------------------------------
(* The handlers, one by one, in terms of these.                            *)

(* Everything of the types but the sessions and the requests.              *)
OthersTyped ==
    /\ gate \in [at : {"free", "pin", "export"}, s : 0..MaxSessions, five : Fingerprints, raced : BOOLEAN]
    /\ source \in Nat /\ visible \in Nat
    /\ lease \in [op : {"free", "repair", "verify"}, by : Threads \cup {None}]
    /\ commit \in [Threads -> [src : Nat, p : Files, raced : BOOLEAN]]
    /\ artifact \in [manifest : Files, record : Threads \cup {None}, patch : Files]
    /\ approval \in [s : 0..MaxSessions, five : Fingerprints]
    /\ pinned \in [Sessions -> Fingerprints]
    /\ writes \in Nat /\ epoch \in Nat /\ overlap \in BOOLEAN

Elsewhere == UNCHANGED <<gate, checkout, lease, commit, artifact, ceremony, budget, epoch>>

LEMMA ElsewhereTyped == ASSUME TypeOK, Elsewhere PROVE OthersTyped'
  BY DEF TypeOK, Elsewhere, OthersTyped, checkout, ceremony, budget

LEMMA CheckSourceMoves ==
    ASSUME TypeOK, NEW t \in Threads, CheckSource(t)
    PROVE  /\ At(t, "read") /\ Elsewhere
           /\ \/ Moved(t, "done") /\ session' = session
              \/ /\ Moved(t, "done") /\ HasSession(t)
                 /\ Written(thread[t].s, Transitioned(thread[t].rec, "stale"))
              \/ /\ Moved(t, "checked") /\ source = 0 /\ session' = session
                 /\ thread'[t].src = thread[t].src /\ thread'[t].rec = thread[t].rec
<1>1. "stale" \in States /\ "checked" \in Places
  BY DEF States, Terminal, Places, Before
<1>2. Transitioned(thread[t].rec, "stale") \in SessionRecord
  BY <1>1, SessionOf, TransitionedRecord
<1> QED  BY <1>1, <1>2, GoMoves, EndMoves, PutWrites DEF CheckSource, Reviewed, Elsewhere

LEMMA EnterCandidateMoves ==
    ASSUME TypeOK, NEW t \in Threads, EnterCandidate(t)
    PROVE  /\ At(t, "checked") /\ Elsewhere
           /\ Moved(t, "entered") /\ thread'[t].src = thread[t].src
           /\ IF HasSession(t)
              THEN /\ Entered(thread[t]) \in SessionRecord
                   /\ Written(thread[t].s, Entered(thread[t]))
                   /\ Entered(thread[t]).owner = IF thread[t].rec.st = "open" THEN thread[t].rec.owner
                                                 ELSE session[thread[t].s].owner
                   /\ \/ Entered(thread[t]).st = "patch_candidate" /\ "patch_candidate" \in Entered(thread[t]).hops
                      \/ /\ Entered(thread[t]).st = session[thread[t].s].st
                         /\ Entered(thread[t]).hops = session[thread[t].s].hops
                         /\ session[thread[t].s].cands \subseteq Entered(thread[t]).cands
              ELSE session' = session
<1> DEFINE base == IF thread[t].rec.st = "open" THEN Transitioned(thread[t].rec, "patch_candidate")
                   ELSE session[thread[t].s]
<1>1. "patch_candidate" \in States /\ "entered" \in Places /\ "pending" \in Outcomes
  BY DEF States, Active, Places, Before, Outcomes
<1>2. Moved(t, "entered") /\ thread'[t].src = thread[t].src /\ At(t, "checked") /\ Elsewhere
  BY <1>1, GoWithMoves, NoSessionRecord DEF EnterCandidate, Elsewhere
<1>3. ASSUME HasSession(t) PROVE base \in SessionRecord
  BY <1>1, <1>3, SessionOf, TransitionedRecord
<1>4. thread[t].p \in Patches
  BY <1>2 DEF TypeOK, HasPatch, At, Outside
<1>5. Entered(thread[t]) = WithCandidate(base, thread[t].p, "pending")
  BY DEF Entered
<1>6. CASE HasSession(t)
  <2>1. /\ Entered(thread[t]) \in SessionRecord /\ Entered(thread[t]).st = base.st
        /\ Entered(thread[t]).owner = base.owner /\ Entered(thread[t]).hops = base.hops
        /\ base.cands \subseteq Entered(thread[t]).cands
    <3> HIDE DEF base
    <3> QED  BY <1>1, <1>3, <1>4, <1>5, <1>6, WithCandidateRecord
  <2>2. Written(thread[t].s, Entered(thread[t]))
    BY <1>6, <2>1, PutWrites DEF EnterCandidate
  <2> QED  BY <1>1, <1>2, <1>6, <2>1, <2>2, SessionOf, TransitionedRecord
<1>7. CASE ~HasSession(t)
  BY <1>2, <1>7 DEF EnterCandidate
<1> QED  BY <1>6, <1>7

LEMMA AcquireLeaseMoves ==
    ASSUME TypeOK, NEW t \in Threads, AcquireLease(t)
    PROVE  /\ At(t, "entered") /\ OthersTyped'
           /\ UNCHANGED <<session, gate, checkout, commit, artifact, ceremony, budget, epoch>>
           /\ \/ Moved(t, "done")
              \/ Moved(t, "leased") /\ thread'[t].src = thread[t].src
<1>1. ASSUME NEW by \in Threads \cup {None},
             thread' = [thread EXCEPT ![t].at = "leased", ![t].by = by]
      PROVE  Moved(t, "leased") /\ thread'[t].src = thread[t].src
  <2> DEFINE r == [thread[t] EXCEPT !.at = "leased", !.by = by]
  <2>1. thread[t] \in RequestRecord
    BY DEF TypeOK
  <2>2. /\ r \in RequestRecord /\ r.at = "leased" /\ r.op = thread[t].op /\ r.s = thread[t].s
        /\ r.p = thread[t].p /\ r.edited = thread[t].edited /\ r.src = thread[t].src
    BY <2>1 DEF RequestRecord, Places, Before
  <2>3. thread' = [thread EXCEPT ![t] = r]
    BY <1>1, <2>1 DEF TypeOK
  <2> HIDE DEF r
  <2> QED  BY <2>2, <2>3 DEF TypeOK, Moved
<1>2. /\ At(t, "entered")
      /\ UNCHANGED <<session, gate, checkout, commit, artifact, ceremony, budget, epoch>>
  BY DEF AcquireLease
<1>3. CASE lease.op \in {"free", thread[t].op}
  <2>1. thread' = [thread EXCEPT ![t].at = "leased",
                                 ![t].by = IF lease.op = "free" THEN t ELSE lease.by]
    BY <1>3 DEF AcquireLease
  <2>2. (IF lease.op = "free" THEN t ELSE lease.by) \in Threads \cup {None}
    BY DEF TypeOK
  <2>3. Moved(t, "leased") /\ thread'[t].src = thread[t].src
    BY <2>1, <2>2, <1>1
  <2>4. lease' \in [op : {"free", "repair", "verify"}, by : Threads \cup {None}]
    BY <1>3, SessionOf DEF AcquireLease, TypeOK, RequestRecord
  <2> QED  BY <1>2, <2>3, <2>4 DEF TypeOK, OthersTyped, checkout, ceremony, budget
<1>4. CASE lease.op \notin {"free", thread[t].op}
  <2>1. Moved(t, "done") /\ lease' = lease
    BY <1>4, EndMoves DEF AcquireLease
  <2> QED  BY <1>2, <2>1 DEF TypeOK, OthersTyped, checkout, ceremony, budget
<1> QED  BY <1>3, <1>4

LEMMA BuildMoves ==
    ASSUME TypeOK, NEW t \in Threads, Build(t)
    PROVE  /\ At(t, "leased") /\ Elsewhere /\ session' = session
           /\ \/ Moved(t, "built") /\ thread'[t].src = source
              \/ /\ Moved(t, "failed") \/ Moved(t, "rejected")
                 /\ thread'[t].src = thread[t].src
<1>1. {"failed", "rejected"} \subseteq Places
  BY DEF Places, After
<1>2. ASSUME thread' = [thread EXCEPT ![t].at = "built", ![t].src = source, ![t].seen = visible]
      PROVE  Moved(t, "built") /\ thread'[t].src = source
  <2> DEFINE r == [thread[t] EXCEPT !.at = "built", !.src = source, !.seen = visible]
  <2>1. thread[t] \in RequestRecord /\ source \in Nat /\ visible \in Nat
    BY DEF TypeOK
  <2>2. /\ r \in RequestRecord /\ r.at = "built" /\ r.op = thread[t].op /\ r.s = thread[t].s
        /\ r.p = thread[t].p /\ r.edited = thread[t].edited /\ r.src = source
    BY <2>1 DEF RequestRecord, Places, Before
  <2>3. thread' = [thread EXCEPT ![t] = r]
    BY <1>2, <2>1 DEF TypeOK
  <2> HIDE DEF r
  <2> QED  BY <2>2, <2>3 DEF TypeOK, Moved
<1> QED  BY <1>1, <1>2, GoMoves DEF Build, Refuse, Elsewhere

(* A request writes on the session it is about: the owner stays, history   *)
(* and candidates only grow, and nothing becomes delivered by it.          *)
Grows(s) ==
    /\ session' \in [Sessions -> SessionRecord]
    /\ \A r \in Sessions : r # s => session'[r] = session[r]
    /\ s \in Sessions =>
          /\ session'[s].owner = session[s].owner
          /\ session[s].st # "absent" => session'[s].st # "absent"
          /\ session'[s].st \in Active => session[s].st \in Active
          /\ Walked(session[s]) => Walked(session'[s])
          /\ session'[s].st = "delivered" => session[s].st = "delivered"
          /\ session[s].cands \subseteq session'[s].cands

LEMMA SameGrows == ASSUME TypeOK, session' = session, NEW s PROVE Grows(s)
  BY DEF TypeOK, Grows

(* An outcome entered in the ledger.                                       *)
LEMMA CandidateGrows ==
    ASSUME TypeOK, NEW t \in Threads, thread[t].at \notin Outside, NEW outcome \in Outcomes, HasSession(t),
           Put(thread[t].s, WithCandidate(session[thread[t].s], thread[t].p, outcome))
    PROVE  Grows(thread[t].s)
<1> DEFINE s == thread[t].s
           rec == WithCandidate(session[s], thread[t].p, outcome)
<1>1. s \in Sessions /\ session[s] \in SessionRecord
  BY SessionOf
<1>2. thread[t].p \in Patches
  BY DEF TypeOK, HasPatch
<1>3. /\ rec \in SessionRecord /\ rec.st = session[s].st /\ rec.owner = session[s].owner
      /\ session[s].cands \subseteq rec.cands /\ rec.hops = session[s].hops
  BY <1>1, <1>2, WithCandidateRecord
<1>4. Written(s, rec)
  BY <1>3, PutWrites
<1> HIDE DEF rec
<1> QED  BY <1>1, <1>3, <1>4 DEF Written, Grows, Walked

LEMMA TestMoves ==
    ASSUME TypeOK, NEW t \in Threads, Test(t)
    PROVE  /\ At(t, "built") /\ Elsewhere /\ Grows(thread[t].s)
           /\ Moved(t, "tested") \/ Moved(t, "failed")
           /\ thread'[t].src = thread[t].src
<1>1. {"tested", "failed"} \subseteq Places
  BY DEF Places, Before, After
<1>2. /\ At(t, "built") /\ Elsewhere /\ (Moved(t, "tested") \/ Moved(t, "failed"))
      /\ thread'[t].src = thread[t].src
  BY <1>1, GoMoves DEF Test, Elsewhere
<1>3. CASE HasSession(t) /\ Put(thread[t].s, Passed(thread[t].op, session[thread[t].s]))
  <2> DEFINE s == thread[t].s
             rec == Passed(thread[t].op, session[s])
  <2>1. s \in Sessions /\ session[s] \in SessionRecord /\ thread[t].op \in {"repair", "verify"}
    BY <1>3, SessionOf DEF RequestRecord
  <2>2. /\ rec \in SessionRecord /\ rec.owner = session[s].owner /\ rec.cands = session[s].cands
        /\ rec.st = "absent" <=> session[s].st = "absent"
        /\ rec.st = "delivered" <=> session[s].st = "delivered"
        /\ rec.st \in Active <=> session[s].st \in Active
        /\ Walked(session[s]) => Walked(rec)
    BY <2>1, PassedRecord
  <2>3. Written(s, rec)
    BY <1>3, <2>2, PutWrites
  <2> HIDE DEF rec
  <2> QED  BY <1>2, <2>1, <2>2, <2>3 DEF Written, Grows
<1>4. CASE session' = session
  BY <1>2, <1>4, SameGrows
<1> QED  BY <1>3, <1>4 DEF Test

LEMMA CommitMoves ==
    ASSUME TypeOK, NEW t \in Threads, Commit(t)
    PROVE  /\ At(t, "tested") /\ thread[t].op = "repair" /\ OthersTyped'
           /\ UNCHANGED <<session, gate, checkout, lease, artifact, ceremony, budget, epoch>>
           /\ thread'[t].src = thread[t].src
           /\ \/ Moved(t, "failed") /\ commit' = commit
              \/ /\ Moved(t, "committed") /\ commit' = [commit EXCEPT ![t] = CommitOf(thread[t])]
                 /\ commit'[t].src = thread[t].src /\ commit'[t].p = thread[t].p
                 /\ commit'[t].raced = thread[t].edited
<1>1. {"failed", "committed"} \subseteq Places
  BY DEF Places, After
<1>2. /\ CommitOf(thread[t]) \in [src : Nat, p : Files, raced : BOOLEAN]
      /\ CommitOf(thread[t]).src = thread[t].src /\ CommitOf(thread[t]).p = thread[t].p
      /\ CommitOf(thread[t]).raced = thread[t].edited
  BY SessionOf DEF CommitOf, RequestRecord
<1>3. commit' \in [Threads -> [src : Nat, p : Files, raced : BOOLEAN]]
  BY <1>2 DEF Commit, TypeOK
<1>4. OthersTyped'
  BY <1>3 DEF Commit, TypeOK, OthersTyped, checkout, ceremony, budget
<1>5. CASE visible # thread[t].seen
  BY <1>1, <1>4, <1>5, GoMoves DEF Commit
<1>6. CASE visible = thread[t].seen
  <2>1. /\ Moved(t, "committed") /\ thread'[t].src = thread[t].src
        /\ commit' = [commit EXCEPT ![t] = CommitOf(thread[t])]
    BY <1>1, <1>6, GoMoves DEF Commit
  <2>2. commit'[t] = CommitOf(thread[t])
    BY <2>1 DEF TypeOK
  <2> QED  BY <1>2, <1>4, <2>1, <2>2 DEF Commit
<1> QED  BY <1>5, <1>6

LEMMA RecheckMoves ==
    ASSUME TypeOK, NEW t \in Threads, Recheck(t)
    PROVE  /\ At(t, "committed") /\ Elsewhere /\ session' = session
           /\ Moved(t, "failed") \/ Moved(t, "delivered")
           /\ thread'[t].src = thread[t].src
  BY GoMoves DEF Recheck, Elsewhere, Places, After

LEMMA RejectDeliveryMoves ==
    ASSUME TypeOK, NEW t \in Threads, RejectDelivery(t)
    PROVE  /\ At(t, "failed") /\ Elsewhere /\ Grows(thread[t].s)
           /\ Moved(t, "rejected") /\ thread'[t].src = thread[t].src
<1>1. "rejected" \in Places /\ "rejected" \in Outcomes
  BY DEF Places, After, Outcomes
<1>2. /\ At(t, "failed") /\ Elsewhere /\ Moved(t, "rejected") /\ thread'[t].src = thread[t].src
  BY <1>1, GoMoves DEF RejectDelivery, Elsewhere
<1>3. thread[t].at \notin Outside
  BY <1>2 DEF At, Outside
<1>4. Grows(thread[t].s)
  BY <1>1, <1>3, CandidateGrows, SameGrows DEF RejectDelivery
<1> QED  BY <1>2, <1>4

(* Where Release sends a request: only a delivery goes on to its files.    *)
LEMMA ReleaseMoves ==
    ASSUME TypeOK, NEW t \in Threads, Release(t)
    PROVE  /\ thread[t].at \in {"delivered", "rejected", "tested", "failed"} /\ OthersTyped'
           /\ thread[t].at = "tested" => thread[t].op = "verify"
           /\ UNCHANGED <<session, gate, checkout, commit, artifact, ceremony, budget, epoch>>
           /\ \/ Moved(t, "done")
              \/ /\ thread'[t].src = thread[t].src
                 /\ \/ Moved(t, "manifest") /\ At(t, "delivered")
                    \/ Moved(t, "verified") /\ At(t, "tested")
                    \/ Moved(t, "refuted") /\ At(t, "failed")
<1>1. {"manifest", "verified", "refuted", "done"} \subseteq Places
  BY DEF Places, After, Outside
<1>2. \/ AfterWorktree(thread[t]) = "done"
      \/ AfterWorktree(thread[t]) = "manifest" /\ At(t, "delivered")
      \/ AfterWorktree(thread[t]) = "verified" /\ At(t, "tested")
      \/ AfterWorktree(thread[t]) = "refuted" /\ At(t, "failed")
  BY DEF AfterWorktree, At
<1>3. PICK next \in {AfterWorktree(thread[t]), "done"} : Go(t, next)
  BY DEF Release
<1>4. next \in Places
  BY <1>1, <1>2, <1>3
<1>5. Moved(t, next) /\ thread'[t].src = thread[t].src
  BY <1>3, <1>4, GoMoves
<1>6. lease' \in [op : {"free", "repair", "verify"}, by : Threads \cup {None}]
  BY DEF Release, TypeOK
<1>7. /\ thread[t].at \in {"delivered", "rejected", "tested", "failed"}
      /\ thread[t].at = "tested" => thread[t].op = "verify"
      /\ UNCHANGED <<session, gate, checkout, commit, artifact, ceremony, budget, epoch>>
  BY DEF Release
<1>8. OthersTyped'
  BY <1>6, <1>7 DEF TypeOK, OthersTyped, checkout, ceremony, budget
<1> QED  BY <1>2, <1>3, <1>5, <1>7, <1>8

(* The files are written one after the other, and whoever holds the lock   *)
(* is marked.                                                              *)
LEMMA SaveDeliveryMoves ==
    ASSUME TypeOK, NEW t \in Threads, SaveDelivery(t)
    PROVE  /\ UNCHANGED <<session, checkout, lease, commit, ceremony, budget, epoch>>
           /\ OthersTyped' /\ gate' = [gate EXCEPT !.raced = ~Unlocked]
           /\ thread'[t].src = thread[t].src
           /\ \/ At(t, "manifest") /\ Moved(t, "record")
              \/ At(t, "record") /\ Moved(t, "patch")
              \/ At(t, "patch") /\ Moved(t, "ledger") /\ HasSession(t)
              \/ At(t, "patch") /\ Moved(t, "done")
<1>1. {"record", "patch", "ledger", "done"} \subseteq Places
  BY DEF Places, After, Outside
<1>2. gate' = [gate EXCEPT !.raced = ~Unlocked]
  BY DEF SaveDelivery, SaveArtifact
<1>3. gate' \in [at : {"free", "pin", "export"}, s : 0..MaxSessions, five : Fingerprints, raced : BOOLEAN]
  BY <1>2 DEF TypeOK
<1>4. thread[t].p \in Files
  BY SessionOf DEF RequestRecord
<1>5. UNCHANGED <<session, checkout, lease, commit, ceremony, budget, epoch>>
  BY DEF SaveDelivery, SaveArtifact
<1>6. artifact' \in [manifest : Files, record : Threads \cup {None}, patch : Files]
  BY <1>4 DEF SaveDelivery, SaveArtifact, TypeOK
<1>7. OthersTyped'
  BY <1>3, <1>5, <1>6 DEF TypeOK, OthersTyped, checkout, ceremony, budget
<1>8. CASE SaveArtifact(t, "manifest", thread[t].p, "record")
  BY <1>1, <1>2, <1>5, <1>7, <1>8, GoMoves DEF SaveArtifact
<1>9. CASE SaveArtifact(t, "record", t, "patch")
  BY <1>1, <1>2, <1>5, <1>7, <1>9, GoMoves DEF SaveArtifact
<1>10. CASE SaveArtifact(t, "patch", thread[t].p, IF HasSession(t) THEN "ledger" ELSE "done")
  <2>1. CASE HasSession(t)
    BY <1>1, <1>2, <1>5, <1>7, <1>10, <2>1, GoMoves DEF SaveArtifact
  <2>2. CASE ~HasSession(t)
    BY <1>1, <1>2, <1>5, <1>7, <1>10, <2>2, GoMoves DEF SaveArtifact
  <2> QED  BY <2>1, <2>2
<1> QED  BY <1>8, <1>9, <1>10 DEF SaveDelivery

LEMMA PutNowhere ==
    ASSUME TypeOK, NEW s, s \notin Sessions, NEW rec, Put(s, rec)
    PROVE  session' = session
  BY DEF TypeOK, Put

(* The record of a delivery: the outcome, and the state if it can change.  *)
LEMMA RecordDeliveredMoves ==
    ASSUME TypeOK, NEW t \in Threads, RecordDelivered(t)
    PROVE  /\ At(t, "ledger") /\ Elsewhere /\ Moved(t, "done")
           /\ LET s == thread[t].s
              IN  \/ Grows(s)
                  \/ /\ s \in Sessions /\ session[s].st = "awaiting_delivery"
                     /\ session' \in [Sessions -> SessionRecord]
                     /\ \A r \in Sessions : r # s => session'[r] = session[r]
                     /\ session'[s].st = "delivered" /\ session'[s].owner = session[s].owner
                     /\ session[s].hops \subseteq session'[s].hops
                     /\ <<thread[t].p, "delivered">> \in session'[s].cands
<1> DEFINE s == thread[t].s
           rec == WithCandidate(session[s], thread[t].p, "delivered")
           new == IF CanTransition(rec.st, "delivered") THEN Transitioned(rec, "delivered") ELSE rec
<1>1. At(t, "ledger") /\ Elsewhere /\ Moved(t, "done") /\ Put(s, new)
  BY EndMoves DEF RecordDelivered, Elsewhere
<1>2. CASE s \notin Sessions
  <2>1. session' = session
    <3> HIDE DEF new
    <3> QED  BY <1>1, <1>2, PutNowhere
  <2> QED  BY <1>1, <2>1, SameGrows
<1>3. CASE s \in Sessions
  <2>1. "delivered" \in Outcomes /\ "delivered" \in States /\ "delivered" \notin Active
    BY DEF Outcomes, States, Terminal, Active
  <2>2. session[s] \in SessionRecord /\ thread[t].p \in Patches
    BY <1>1, <1>3 DEF TypeOK, HasPatch, At, Outside
  <2>3. /\ rec \in SessionRecord /\ rec.st = session[s].st /\ rec.owner = session[s].owner
        /\ rec.cands = session[s].cands \cup {<<thread[t].p, "delivered">>}
        /\ rec.hops = session[s].hops
    BY <2>1, <2>2, WithCandidateRecord
  <2> HIDE DEF rec
  <2>4. CASE CanTransition(rec.st, "delivered")
    <3>1. rec.st = "awaiting_delivery"
      BY <2>4 DEF CanTransition
    <3>2. /\ new \in SessionRecord /\ new.st = "delivered" /\ new.owner = rec.owner
          /\ new.cands = rec.cands /\ new.hops = rec.hops \cup {"delivered"}
      BY <2>1, <2>3, <2>4, TransitionedRecord
    <3> HIDE DEF new
    <3>3. Written(s, new)
      BY <1>1, <3>2, PutWrites
    <3> QED  BY <1>1, <1>3, <2>3, <3>1, <3>2, <3>3 DEF Written
  <2>5. CASE ~CanTransition(rec.st, "delivered")
    <3>1. new = rec
      BY <2>5
    <3> HIDE DEF new
    <3>2. Written(s, rec)
      BY <1>1, <2>3, <3>1, PutWrites
    <3>3. Grows(s)
      BY <1>3, <2>3, <3>2 DEF Written, Grows, Walked
    <3> QED  BY <1>1, <3>3
  <2> QED  BY <2>4, <2>5
<1> QED  BY <1>2, <1>3

LEMMA CheckCandidateMoves ==
    ASSUME TypeOK, NEW t \in Threads, CheckCandidate(t)
    PROVE  /\ At(t, "budgeted") /\ Elsewhere
           /\ \/ Moved(t, "done") /\ session' = session
              \/ /\ Moved(t, "done") /\ HasSession(t) /\ session[thread[t].s].st \in Takes
                 /\ Written(thread[t].s, Transitioned(session[thread[t].s], "stale"))
              \/ /\ source = 0 /\ session' = session /\ thread'[t].src = thread[t].src
                 /\ HasSession(t) => session[thread[t].s].st \in Takes
                 /\ \/ Moved(t, "refuted")
                    \/ Moved(t, "checked") /\ (HasSession(t) => thread'[t].rec = session[thread[t].s])
<1> DEFINE rec == session[thread[t].s]
           refused == HasSession(t) /\ (rec.st \notin Takes
                                        \/ HasCandidate(rec, thread[t].p, {"verified", "rejected"}))
<1>1. {"refuted", "checked"} \subseteq Places /\ "stale" \in States
  BY DEF Places, Before, After, States, Terminal
<1>2. At(t, "budgeted") /\ Elsewhere
  BY DEF CheckCandidate, Elsewhere
<1>3. CASE refused
  BY <1>2, <1>3, EndMoves DEF CheckCandidate
<1>4. CASE ~refused /\ ~Reviewed
  <2>1. Moved(t, "done")
    BY <1>4, EndMoves DEF CheckCandidate
  <2>2. CASE HasSession(t)
    <3>1. Transitioned(rec, "stale") \in SessionRecord
      BY <1>1, <2>2, SessionOf, TransitionedRecord
    <3>2. Written(thread[t].s, Transitioned(rec, "stale"))
      BY <1>4, <2>2, <3>1, PutWrites DEF CheckCandidate
    <3> QED  BY <1>2, <1>4, <2>1, <2>2, <3>2
  <2>3. CASE ~HasSession(t)
    BY <1>2, <1>4, <2>1, <2>3 DEF CheckCandidate
  <2> QED  BY <2>2, <2>3
<1>5. CASE ~refused /\ Reviewed
  <2>1. source = 0 /\ (HasSession(t) => rec.st \in Takes)
    BY <1>5 DEF Reviewed
  <2>2. /\ session' = session
        /\ \/ GoWith(t, "checked", IF HasSession(t) THEN rec ELSE NoSession)
           \/ Go(t, "refuted")
    BY <1>5 DEF CheckCandidate, Refuse
  <2>3. (IF HasSession(t) THEN rec ELSE NoSession) \in SessionRecord
    BY SessionOf, NoSessionRecord
  <2>4. CASE Go(t, "refuted")
    BY <1>1, <1>2, <2>1, <2>2, <2>4, GoMoves
  <2>5. CASE GoWith(t, "checked", IF HasSession(t) THEN rec ELSE NoSession)
    <3>1. /\ Moved(t, "checked") /\ thread'[t].src = thread[t].src
          /\ thread'[t].rec = IF HasSession(t) THEN rec ELSE NoSession
      BY <1>1, <2>3, <2>5, GoWithMoves
    <3> QED  BY <1>2, <2>1, <2>2, <3>1
  <2> QED  BY <2>2, <2>4, <2>5
<1> QED  BY <1>3, <1>4, <1>5

LEMMA RejectCandidateMoves ==
    ASSUME TypeOK, NEW t \in Threads, RejectCandidate(t)
    PROVE  At(t, "refuted") /\ Elsewhere /\ Moved(t, "done") /\ Grows(thread[t].s)
<1>1. At(t, "refuted") /\ Elsewhere /\ Moved(t, "done")
  BY EndMoves DEF RejectCandidate, Elsewhere
<1>2. thread[t].at \notin Outside /\ "rejected" \in Outcomes
  BY <1>1 DEF At, Outside, Outcomes
<1> QED  BY <1>1, <1>2, CandidateGrows, SameGrows DEF RejectCandidate

LEMMA CountVerifiedMoves ==
    ASSUME TypeOK, NEW t \in Threads, CountVerified(t)
    PROVE  /\ At(t, "verified") /\ writes' = writes + 1 /\ OthersTyped'
           /\ UNCHANGED <<session, gate, checkout, lease, commit, artifact, ceremony, overlap, epoch>>
           /\ Moved(t, "counted") \/ Moved(t, "done")
           /\ thread'[t].src = thread[t].src
<1>1. {"counted", "done"} \subseteq Places
  BY DEF Places, After, Outside
<1>2. /\ At(t, "verified") /\ writes' = writes + 1
      /\ UNCHANGED <<session, gate, checkout, lease, commit, artifact, ceremony, overlap, epoch>>
      /\ Go(t, IF HasSession(t) THEN "counted" ELSE "done")
  BY DEF CountVerified
<1>3. OthersTyped'
  BY <1>2 DEF TypeOK, OthersTyped, checkout, ceremony
<1>4. (Moved(t, "counted") \/ Moved(t, "done")) /\ thread'[t].src = thread[t].src
  <2>1. CASE HasSession(t)
    BY <1>1, <1>2, <2>1, GoMoves
  <2>2. CASE ~HasSession(t)
    BY <1>1, <1>2, <2>2, GoMoves
  <2> QED  BY <2>1, <2>2
<1> QED  BY <1>2, <1>3, <1>4

LEMMA RecordVerifiedMoves ==
    ASSUME TypeOK, NEW t \in Threads, RecordVerified(t)
    PROVE  At(t, "counted") /\ Elsewhere /\ Moved(t, "done") /\ Grows(thread[t].s)
<1>1. At(t, "counted") /\ Elsewhere /\ Moved(t, "done")
  BY EndMoves DEF RecordVerified, Elsewhere
<1>2. thread[t].at \notin Outside /\ "verified" \in Outcomes
  BY <1>1 DEF At, Outside, Outcomes
<1>3. thread[t].s \in 0..MaxSessions
  BY SessionOf DEF RequestRecord
<1>4. CASE HasSession(t)
  BY <1>1, <1>2, <1>4, CandidateGrows DEF RecordVerified
<1>5. CASE ~HasSession(t)
  <2>1. thread[t].s \notin Sessions
    BY <1>5, DeliveryAssumption DEF HasSession, Sessions
  <2>2. session' = session
    BY <2>1, PutNowhere DEF RecordVerified
  <2> QED  BY <1>1, <2>2, SameGrows
<1> QED  BY <1>4, <1>5

(* A request that begins.                                                  *)
Begins(t, s, p, op, place, rec) ==
    /\ thread' \in [Threads -> RequestRecord]
    /\ \A u \in Threads : u # t => thread'[u] = thread[u]
    /\ thread'[t].at = place /\ thread'[t].op = op /\ thread'[t].s = s /\ thread'[t].p = p
    /\ thread'[t].src = 0 /\ thread'[t].rec = rec

LEMMA IdleRecord == Idle \in RequestRecord /\ Idle.src = 0 /\ Idle.rec = NoSession
<1>1. MaxSessions \in Nat
  BY DeliveryAssumption
<1> QED  BY <1>1, NoSessionRecord DEF Idle, RequestRecord, Places, Outside, Files

LEMMA DeliverRepairMoves ==
    ASSUME TypeOK, NEW t \in Threads, NEW s \in 0..MaxSessions, NEW p \in Patches, DeliverRepair(t, s, p)
    PROVE  /\ At(t, "idle") /\ Elsewhere /\ session' = session
           /\ Begins(t, s, p, "repair", "read", IF s = 0 THEN NoSession ELSE session[s])
           /\ s # 0 => s \in Sessions /\ session[s].st \in Takes
<1> DEFINE rec == IF s = 0 THEN NoSession ELSE session[s]
           r == [Idle EXCEPT !.at = "read", !.s = s, !.p = p, !.rec = rec]
<1>1. s # 0 => s \in Sessions
  BY DeliveryAssumption DEF Sessions
<1>2. rec \in SessionRecord
  BY <1>1, NoSessionRecord DEF TypeOK
<1> HIDE DEF rec
<1>3. /\ r \in RequestRecord /\ r.at = "read" /\ r.op = "repair" /\ r.s = s /\ r.p = p
      /\ r.src = 0 /\ r.rec = rec
  BY <1>2, IdleRecord DEF RequestRecord, Places, Asking, Files, Idle
<1>4. thread' = [thread EXCEPT ![t] = r]
  BY DEF DeliverRepair, rec
<1> HIDE DEF r
<1>5. Begins(t, s, p, "repair", "read", rec)
  BY <1>3, <1>4 DEF TypeOK, Begins
<1> QED  BY <1>1, <1>5 DEF DeliverRepair, Elsewhere, rec

LEMMA VerifyCandidateMoves ==
    ASSUME TypeOK, NEW t \in Threads, NEW s \in 0..MaxSessions, NEW p \in Patches, VerifyCandidate(t, s, p)
    PROVE  /\ At(t, "idle") /\ OthersTyped' /\ writes < MaxWrites
           /\ UNCHANGED <<session, gate, checkout, lease, commit, artifact, ceremony, writes, epoch>>
           /\ overlap' = (overlap \/ Verifying # {})
           /\ Begins(t, s, p, "verify", "budgeted", NoSession)
<1> DEFINE r == [Idle EXCEPT !.at = "budgeted", !.op = "verify", !.s = s, !.p = p]
<1>1. /\ r \in RequestRecord /\ r.at = "budgeted" /\ r.op = "verify" /\ r.s = s /\ r.p = p
      /\ r.src = 0 /\ r.rec = NoSession
  BY IdleRecord DEF RequestRecord, Places, Asking, Files, Idle
<1>2. /\ thread' = [thread EXCEPT ![t] = r] /\ overlap' = (overlap \/ Verifying # {})
      /\ UNCHANGED <<session, gate, checkout, lease, commit, artifact, ceremony, writes, epoch>>
      /\ At(t, "idle") /\ writes < MaxWrites
  BY DEF VerifyCandidate, BudgetLeft
<1> HIDE DEF r
<1>3. Begins(t, s, p, "verify", "budgeted", NoSession)
  BY <1>1, <1>2 DEF TypeOK, Begins
<1>4. OthersTyped'
  BY <1>2 DEF TypeOK, OthersTyped, checkout, ceremony
<1> QED  BY <1>2, <1>3, <1>4

-----------------------------------------------------------------------------
(* Types.                                                                  *)

(* A request that moves on is still about a patch.                         *)
LEMMA MovedTyped ==
    ASSUME TypeOK, NEW t \in Threads, NEW place, Moved(t, place), thread[t].at \notin Outside
    PROVE  thread' \in [Threads -> RequestRecord] /\ \A u \in Threads : HasPatch(u)'
  BY DEF TypeOK, HasPatch, Moved, Outside

LEMMA BegunTyped ==
    ASSUME TypeOK, NEW t \in Threads, NEW s, NEW p \in Patches, NEW op, NEW place, NEW rec,
           Begins(t, s, p, op, place, rec)
    PROVE  thread' \in [Threads -> RequestRecord] /\ \A u \in Threads : HasPatch(u)'
  BY DEF TypeOK, HasPatch, Begins

LEMMA StepTyped ==
    ASSUME TypeOK, NEW t \in Threads, NEW place, Moved(t, place), thread[t].at \notin Outside,
           session' \in [Sessions -> SessionRecord], OthersTyped'
    PROVE  TypeOK'
  BY MovedTyped DEF TypeOK, OthersTyped

LEMMA SameTyped == ASSUME TypeOK, session' = session PROVE session' \in [Sessions -> SessionRecord]
  BY DEF TypeOK

LEMMA GrowsTyped == ASSUME NEW s, Grows(s) PROVE session' \in [Sessions -> SessionRecord]
  BY DEF Grows

LEMMA RequestTyped ==
    ASSUME TypeOK, NEW t \in Threads, Request(t)
    PROVE  TypeOK'
<1>1. ASSUME NEW s \in 0..MaxSessions, NEW p \in Patches, DeliverRepair(t, s, p) PROVE TypeOK'
  <2>1. /\ thread' \in [Threads -> RequestRecord] /\ \A u \in Threads : HasPatch(u)'
        /\ session' = session /\ OthersTyped'
    BY <1>1, DeliverRepairMoves, BegunTyped, ElsewhereTyped
  <2> QED  BY <2>1 DEF TypeOK, OthersTyped
<1>2. ASSUME NEW s \in 0..MaxSessions, NEW p \in Patches, VerifyCandidate(t, s, p) PROVE TypeOK'
  BY <1>2, VerifyCandidateMoves, BegunTyped DEF TypeOK, OthersTyped
<1>3. CASE CheckSource(t)
  BY <1>3, CheckSourceMoves, StepTyped, ElsewhereTyped, SameTyped DEF At, Outside, Written
<1>4. CASE CheckCandidate(t)
  BY <1>4, CheckCandidateMoves, StepTyped, ElsewhereTyped, SameTyped DEF At, Outside, Written
<1>5. CASE EnterCandidate(t)
  BY <1>5, EnterCandidateMoves, StepTyped, ElsewhereTyped, SameTyped DEF At, Outside, Written
<1>6. CASE AcquireLease(t)
  BY <1>6, AcquireLeaseMoves, StepTyped, SameTyped DEF At, Outside
<1>7. CASE Build(t)
  BY <1>7, BuildMoves, StepTyped, ElsewhereTyped, SameTyped DEF At, Outside
<1>8. CASE Test(t)
  BY <1>8, TestMoves, StepTyped, ElsewhereTyped, GrowsTyped DEF At, Outside
<1>9. CASE Commit(t)
  BY <1>9, CommitMoves, StepTyped, SameTyped DEF At, Outside
<1>10. CASE Recheck(t)
  BY <1>10, RecheckMoves, StepTyped, ElsewhereTyped, SameTyped DEF At, Outside
<1>11. CASE RejectDelivery(t)
  BY <1>11, RejectDeliveryMoves, StepTyped, ElsewhereTyped, GrowsTyped DEF At, Outside
<1>12. CASE Release(t)
  BY <1>12, ReleaseMoves, StepTyped, SameTyped DEF At, Outside
<1>13. CASE SaveDelivery(t)
  BY <1>13, SaveDeliveryMoves, StepTyped, SameTyped DEF At, Outside
<1>14. CASE RecordDelivered(t)
  BY <1>14, RecordDeliveredMoves, StepTyped, ElsewhereTyped, GrowsTyped DEF At, Outside
<1>15. CASE RejectCandidate(t)
  BY <1>15, RejectCandidateMoves, StepTyped, ElsewhereTyped, GrowsTyped DEF At, Outside
<1>16. CASE CountVerified(t)
  BY <1>16, CountVerifiedMoves, StepTyped, SameTyped DEF At, Outside
<1>17. CASE RecordVerified(t)
  BY <1>17, RecordVerifiedMoves, StepTyped, ElsewhereTyped, GrowsTyped DEF At, Outside
<1> QED  BY <1>1, <1>2, <1>3, <1>4, <1>5, <1>6, <1>7, <1>8, <1>9, <1>10, <1>11, <1>12, <1>13, <1>14,
            <1>15, <1>16, <1>17 DEF Request

-----------------------------------------------------------------------------
(* The source a request compared.                                          *)

LEMMA StepCompared ==
    ASSUME TypeOK, Compared, NEW t \in Threads, NEW place, Moved(t, place),
           source' = source, commit' = commit,
           \/ place = "done"
           \/ /\ place \in Before \cup After
              /\ thread[t].edited \/ (source = 0 /\ thread'[t].src = 0)
    PROVE  Compared'
<1>1. CommitsReviewedSource'
  BY DEF Compared, CommitsReviewedSource
<1>2. place \notin {"read", "budgeted", "idle"}
  BY DEF Before, After
<1> QED  BY <1>1, <1>2 DEF Compared, Moved, At, Before, After

LEMMA OnwardCompared ==
    ASSUME TypeOK, Compared, NEW t \in Threads, NEW place, Moved(t, place),
           source' = source, commit' = commit, thread[t].at \in Before \cup After,
           \/ place = "done"
           \/ place \in Before \cup After /\ thread'[t].src \in {source, thread[t].src}
    PROVE  Compared'
  BY StepCompared DEF Compared

LEMMA BegunCompared ==
    ASSUME TypeOK, Compared, NEW t \in Threads, NEW s, NEW p, NEW op, NEW place \in Asking, NEW rec,
           Begins(t, s, p, op, place, rec), source' = source, commit' = commit
    PROVE  Compared'
<1>1. CommitsReviewedSource'
  BY DEF Compared, CommitsReviewedSource
<1>2. place \notin Before \cup After
  BY DEF Asking, Before, After
<1> QED  BY <1>1, <1>2 DEF Compared, Begins, At

LEMMA RequestCompared ==
    ASSUME TypeOK, Compared, NEW t \in Threads, Request(t)
    PROVE  Compared'
<1>1. ASSUME NEW s \in 0..MaxSessions, NEW p \in Patches, DeliverRepair(t, s, p) PROVE Compared'
  BY <1>1, DeliverRepairMoves, BegunCompared DEF Elsewhere, checkout, Asking
<1>2. ASSUME NEW s \in 0..MaxSessions, NEW p \in Patches, VerifyCandidate(t, s, p) PROVE Compared'
  BY <1>2, VerifyCandidateMoves, BegunCompared DEF checkout, Asking
<1>3. CASE CheckSource(t)
  <2>1. thread[t].src = 0
    BY <1>3, CheckSourceMoves DEF Compared
  <2> QED  BY <1>3, <2>1, CheckSourceMoves, StepCompared DEF Before, Elsewhere, checkout
<1>4. CASE CheckCandidate(t)
  <2>1. thread[t].src = 0
    BY <1>4, CheckCandidateMoves DEF Compared
  <2> QED  BY <1>4, <2>1, CheckCandidateMoves, StepCompared DEF Before, After, Elsewhere, checkout
<1>5. CASE EnterCandidate(t)
  BY <1>5, EnterCandidateMoves, OnwardCompared DEF At, Before, After, Elsewhere, checkout
<1>6. CASE AcquireLease(t)
  BY <1>6, AcquireLeaseMoves, OnwardCompared DEF At, Before, After, Elsewhere, checkout
<1>7. CASE Build(t)
  BY <1>7, BuildMoves, OnwardCompared DEF At, Before, After, Elsewhere, checkout
<1>8. CASE Test(t)
  BY <1>8, TestMoves, OnwardCompared DEF At, Before, After, Elsewhere, checkout
<1>9. CASE Commit(t)
  <2>1. source' = source /\ thread[t].at \in Before \cup After
    BY <1>9, CommitMoves DEF At, Before, checkout
  <2>2. CASE Moved(t, "failed") /\ commit' = commit
    BY <1>9, <2>1, <2>2, CommitMoves, OnwardCompared DEF After
  <2>3. CASE /\ Moved(t, "committed") /\ commit' = [commit EXCEPT ![t] = CommitOf(thread[t])]
             /\ commit'[t].src = thread[t].src /\ commit'[t].raced = thread[t].edited
    <3>1. thread[t].edited \/ (source = 0 /\ thread[t].src = 0)
      BY <2>1 DEF Compared
    <3>2. \A u \in Threads : u # t => commit'[u] = commit[u]
      BY <2>3 DEF TypeOK
    <3>3. CommitsReviewedSource'
      BY <2>3, <3>1, <3>2 DEF Compared, CommitsReviewedSource
    <3>4. thread'[t].src = thread[t].src
      BY <1>9, CommitMoves
    <3> QED  BY <2>1, <2>3, <3>1, <3>3, <3>4 DEF Compared, Moved, At, Before, After
  <2> QED  BY <1>9, <2>2, <2>3, CommitMoves
<1>10. CASE Recheck(t)
  BY <1>10, RecheckMoves, OnwardCompared DEF At, Before, After, Elsewhere, checkout
<1>11. CASE RejectDelivery(t)
  BY <1>11, RejectDeliveryMoves, OnwardCompared DEF At, Before, After, Elsewhere, checkout
<1>12. CASE Release(t)
  BY <1>12, ReleaseMoves, OnwardCompared DEF At, Before, After, Elsewhere, checkout
<1>13. CASE SaveDelivery(t)
  BY <1>13, SaveDeliveryMoves, OnwardCompared DEF At, Before, After, Elsewhere, checkout
<1>14. CASE RecordDelivered(t)
  BY <1>14, RecordDeliveredMoves, OnwardCompared DEF At, Before, After, Elsewhere, checkout
<1>15. CASE RejectCandidate(t)
  BY <1>15, RejectCandidateMoves, OnwardCompared DEF At, Before, After, Elsewhere, checkout
<1>16. CASE CountVerified(t)
  BY <1>16, CountVerifiedMoves, OnwardCompared DEF At, Before, After, Elsewhere, checkout
<1>17. CASE RecordVerified(t)
  BY <1>17, RecordVerifiedMoves, OnwardCompared DEF At, Before, After, Elsewhere, checkout
<1> QED  BY <1>1, <1>2, <1>3, <1>4, <1>5, <1>6, <1>7, <1>8, <1>9, <1>10, <1>11, <1>12, <1>13, <1>14,
            <1>15, <1>16, <1>17 DEF Request

-----------------------------------------------------------------------------
(* The events of the budget.                                               *)

LEMMA StepCounted ==
    ASSUME TypeOK, Counted, NEW t \in Threads, NEW place, Moved(t, place), thread[t].at \notin Outside,
           writes' = writes, overlap' = overlap,
           thread[t].at # "counted" \/ place = "done",
           place = "verified" => thread[t].op = "verify"
    PROVE  Counted'
<1>1. Verifying' \subseteq Verifying
  BY DEF Verifying, Moved, Outside
<1>2. \A u \in Verifying' : thread'[u].at # "counted" => thread[u].at # "counted"
  BY DEF Verifying, Moved
<1>3. \A u \in Threads : At(u, "verified")' => thread'[u].op = "verify"
  BY DEF Counted, Moved, At
<1> QED  BY <1>1, <1>2, <1>3 DEF Counted

LEMMA RequestCounted ==
    ASSUME TypeOK, Counted, NEW t \in Threads, Request(t)
    PROVE  Counted'
<1>1. ASSUME NEW s \in 0..MaxSessions, NEW p \in Patches, DeliverRepair(t, s, p) PROVE Counted'
  <2>1. Verifying' \subseteq Verifying
    BY <1>1, DeliverRepairMoves DEF Begins, Verifying
  <2>2. \A u \in Verifying' : u # t /\ thread'[u] = thread[u]
    BY <1>1, DeliverRepairMoves DEF Begins, Verifying
  <2>3. \A u \in Threads : At(u, "verified")' => thread'[u].op = "verify"
    BY <1>1, DeliverRepairMoves DEF Begins, At, Counted
  <2> QED  BY <1>1, <2>1, <2>2, <2>3, DeliverRepairMoves DEF Counted, Elsewhere, budget
<1>2. ASSUME NEW s \in 0..MaxSessions, NEW p \in Patches, VerifyCandidate(t, s, p) PROVE Counted'
  <2>1. Verifying' \subseteq Verifying \cup {t}
    BY <1>2, VerifyCandidateMoves DEF Begins, Verifying
  <2>2. \A u \in Threads : At(u, "verified")' => thread'[u].op = "verify"
    BY <1>2, VerifyCandidateMoves DEF Begins, At, Counted
  <2>3. writes < MaxWrites /\ writes' = writes /\ overlap' = (overlap \/ Verifying # {})
    BY <1>2, VerifyCandidateMoves
  <2>4. CASE overlap'
    BY <2>2, <2>4 DEF Counted
  <2>5. CASE ~overlap'
    <3>1. Verifying = {}
      BY <2>3, <2>5
    <3>2. writes <= MaxWrites
      BY <2>3, DeliveryAssumption DEF TypeOK
    <3> QED  BY <2>1, <2>2, <2>3, <3>1, <3>2 DEF Counted
  <2> QED  BY <2>4, <2>5
<1>3. CASE CheckSource(t)
  BY <1>3, CheckSourceMoves, StepCounted DEF At, Outside, Elsewhere, budget
<1>4. CASE CheckCandidate(t)
  BY <1>4, CheckCandidateMoves, StepCounted DEF At, Outside, Elsewhere, budget
<1>5. CASE EnterCandidate(t)
  BY <1>5, EnterCandidateMoves, StepCounted DEF At, Outside, Elsewhere, budget
<1>6. CASE AcquireLease(t)
  BY <1>6, AcquireLeaseMoves, StepCounted DEF At, Outside, Elsewhere, budget
<1>7. CASE Build(t)
  BY <1>7, BuildMoves, StepCounted DEF At, Outside, Elsewhere, budget
<1>8. CASE Test(t)
  BY <1>8, TestMoves, StepCounted DEF At, Outside, Elsewhere, budget
<1>9. CASE Commit(t)
  BY <1>9, CommitMoves, StepCounted DEF At, Outside, Elsewhere, budget
<1>10. CASE Recheck(t)
  BY <1>10, RecheckMoves, StepCounted DEF At, Outside, Elsewhere, budget
<1>11. CASE RejectDelivery(t)
  BY <1>11, RejectDeliveryMoves, StepCounted DEF At, Outside, Elsewhere, budget
<1>12. CASE Release(t)
  BY <1>12, ReleaseMoves, StepCounted DEF At, Outside, Elsewhere, budget
<1>13. CASE SaveDelivery(t)
  BY <1>13, SaveDeliveryMoves, StepCounted DEF At, Outside, budget
<1>14. CASE RecordDelivered(t)
  BY <1>14, RecordDeliveredMoves, StepCounted DEF At, Outside, Elsewhere, budget
<1>15. CASE RejectCandidate(t)
  BY <1>15, RejectCandidateMoves, StepCounted DEF At, Outside, Elsewhere, budget
<1>16. CASE CountVerified(t)
  <2>1. /\ At(t, "verified") /\ writes' = writes + 1 /\ overlap' = overlap
        /\ Moved(t, "counted") \/ Moved(t, "done")
    BY <1>16, CountVerifiedMoves
  <2>2. t \in Verifying /\ thread[t].at # "counted"
    BY <2>1 DEF Counted, Verifying, At
  <2>3. Verifying' \subseteq Verifying
    BY <2>1 DEF Verifying, Moved, At
  <2>4. t \in Verifying' => thread'[t].at = "counted"
    BY <2>1 DEF Verifying, Moved
  <2>5. \A u \in Threads : At(u, "verified")' => thread'[u].op = "verify"
    BY <2>1 DEF Counted, Moved, At
  <2>6. ASSUME ~overlap' PROVE writes' <= MaxWrites /\ Verifying \subseteq {t}
    BY <2>1, <2>2, <2>6, DeliveryAssumption DEF Counted, TypeOK
  <2> QED  BY <2>3, <2>4, <2>5, <2>6 DEF Counted
<1>17. CASE RecordVerified(t)
  BY <1>17, RecordVerifiedMoves, StepCounted DEF At, Outside, Elsewhere, budget
<1> QED  BY <1>1, <1>2, <1>3, <1>4, <1>5, <1>6, <1>7, <1>8, <1>9, <1>10, <1>11, <1>12, <1>13, <1>14,
            <1>15, <1>16, <1>17 DEF Request

-----------------------------------------------------------------------------
(* Whose sessions they are.                                                *)

LEMMA TakesActive == Takes \subseteq Active /\ "absent" \notin Active /\ "stale" \notin Active
  BY DEF Takes, Active

(* The session a request works on.                                         *)
Own(t) == session[thread[t].s].owner = epoch /\ session[thread[t].s].st # "absent"

LEMMA OwnedSession ==
    ASSUME TypeOK, Owned, NEW t \in Threads, HasSession(t), thread[t].at \notin Outside \cup {"budgeted"}
    PROVE  thread[t].s \in Sessions /\ Own(t)
  BY SessionOf DEF Owned, HasSession, Own

(* What a step of a request must leave so.                                 *)
LEMMA StepOwned ==
    ASSUME TypeOK, Owned, NEW t \in Threads, NEW place, Moved(t, place), epoch' = epoch,
           session' \in [Sessions -> SessionRecord],
           \A s \in Sessions : s # thread[t].s => session'[s] = session[s],
           thread[t].s \in Sessions =>
              /\ session'[thread[t].s].owner = session[thread[t].s].owner
              /\ session[thread[t].s].st # "absent" => session'[thread[t].s].st # "absent"
              /\ session'[thread[t].s].st \in Active => session[thread[t].s].owner = epoch,
           HasSession(t) => \/ place = "done"
                            \/ /\ Own(t)
                               /\ place \in {"read", "checked"} =>
                                    thread'[t].rec.owner = epoch /\ thread'[t].rec.st \in Takes
    PROVE  Owned'
<1>1. \A s \in Sessions : /\ session'[s].owner = session[s].owner
                          /\ session[s].st # "absent" => session'[s].st # "absent"
                          /\ session'[s].st \in Active => session'[s].owner = epoch
  BY DEF Owned
<1>2. \A u \in Threads : thread[u].s # 0 => thread[u].s \in Sessions
  BY SessionOf DEF HasSession
<1>3. \A s \in Sessions : /\ session'[s].owner <= epoch'
                          /\ session'[s].st \in Active => session'[s].owner = epoch'
  BY <1>1 DEF Owned
<1>4. ASSUME NEW u \in Threads, thread'[u].s # 0, thread'[u].at \notin Outside \cup {"budgeted"}
      PROVE  /\ session'[thread'[u].s].owner = epoch' /\ session'[thread'[u].s].st # "absent"
             /\ thread'[u].at \in {"read", "checked"} =>
                   thread'[u].rec.owner = epoch' /\ thread'[u].rec.st \in Takes
  <2>1. CASE u # t
    BY <1>1, <1>2, <1>4, <2>1 DEF Owned, Moved
  <2>2. CASE u = t
    <3>1. place # "done" /\ thread'[t].s = thread[t].s /\ thread'[t].at = place
      BY <1>4, <2>2 DEF Moved, Outside
    <3>2. Own(t) /\ thread[t].s \in Sessions
      BY <1>2, <1>4, <2>2, <3>1 DEF HasSession
    <3> QED  BY <1>1, <1>4, <2>2, <3>1, <3>2 DEF Own, HasSession
  <2> QED  BY <2>1, <2>2
<1> QED  BY <1>3, <1>4 DEF Owned

(* A step past the comparison that only adds to the session.               *)
LEMMA OnwardOwned ==
    ASSUME TypeOK, Owned, NEW t \in Threads, NEW place, Moved(t, place), epoch' = epoch,
           Grows(thread[t].s), thread[t].at \notin Outside \cup {"budgeted"},
           place \notin {"read", "checked"}
    PROVE  Owned'
<1>1. thread[t].s \in Sessions =>
        /\ session'[thread[t].s].owner = session[thread[t].s].owner
        /\ session[thread[t].s].st # "absent" => session'[thread[t].s].st # "absent"
        /\ session'[thread[t].s].st \in Active => session[thread[t].s].owner = epoch
  BY DEF Grows, Owned
<1>2. HasSession(t) => Own(t)
  BY OwnedSession
<1> QED  BY <1>1, <1>2, StepOwned DEF Grows

LEMMA BegunOwned ==
    ASSUME TypeOK, Owned, NEW t \in Threads, NEW s \in 0..MaxSessions, NEW p, NEW op, NEW place, NEW rec,
           Begins(t, s, p, op, place, rec), session' = session, epoch' = epoch,
           place = "budgeted" \/ (s # 0 => /\ session[s].owner = epoch /\ session[s].st # "absent"
                                          /\ rec.owner = epoch /\ rec.st \in Takes)
    PROVE  Owned'
<1>1. ASSUME NEW u \in Threads, thread'[u].s # 0, thread'[u].at \notin Outside \cup {"budgeted"}
      PROVE  /\ session[thread'[u].s].owner = epoch /\ session[thread'[u].s].st # "absent"
             /\ thread'[u].at \in {"read", "checked"} =>
                   thread'[u].rec.owner = epoch /\ thread'[u].rec.st \in Takes
  BY <1>1 DEF Owned, Begins
<1> QED  BY <1>1 DEF Owned

LEMMA RequestOwned ==
    ASSUME TypeOK, Owned, NEW t \in Threads, Request(t)
    PROVE  Owned'
<1>1. ASSUME NEW s \in 0..MaxSessions, NEW p \in Patches, DeliverRepair(t, s, p) PROVE Owned'
  <2>1. s # 0 => /\ session[s].owner = epoch /\ session[s].st # "absent"
    BY <1>1, DeliverRepairMoves, TakesActive DEF Owned
  <2> QED  BY <1>1, <2>1, DeliverRepairMoves, BegunOwned DEF Elsewhere
<1>2. ASSUME NEW s \in 0..MaxSessions, NEW p \in Patches, VerifyCandidate(t, s, p) PROVE Owned'
  BY <1>2, VerifyCandidateMoves, BegunOwned
<1>3. CASE CheckSource(t)
  <2> DEFINE s == thread[t].s
  <2>1. At(t, "read") /\ epoch' = epoch
    BY <1>3, CheckSourceMoves DEF Elsewhere
  <2>2. HasSession(t) => /\ s \in Sessions /\ Own(t) /\ thread[t].rec \in SessionRecord
                         /\ thread[t].rec.owner = epoch /\ thread[t].rec.st \in Takes
    BY <2>1, OwnedSession, SessionOf DEF Owned, At, Outside, HasSession
  <2>3. CASE Moved(t, "done") /\ session' = session
    BY <2>1, <2>3, OnwardOwned, SameGrows DEF At, Outside
  <2>4. CASE Moved(t, "done") /\ HasSession(t) /\ Written(s, Transitioned(thread[t].rec, "stale"))
    <3>1. /\ Transitioned(thread[t].rec, "stale").owner = epoch
          /\ Transitioned(thread[t].rec, "stale").st = "stale"
      BY <2>2, <2>4, TransitionedRecord DEF States, Terminal
    <3>2. session'[s].owner = epoch /\ session'[s].st = "stale" /\ session[s].owner = epoch
      BY <2>2, <2>4, <3>1 DEF Written, Own
    <3> QED  BY <2>1, <2>4, <3>2, StepOwned DEF Written
  <2>5. CASE /\ Moved(t, "checked") /\ session' = session /\ thread'[t].rec = thread[t].rec
    <3>1. s \in Sessions => (session[s].st \in Active => session[s].owner = epoch)
      BY DEF Owned
    <3> QED  BY <2>1, <2>2, <2>5, <3>1, SameTyped, StepOwned
  <2> QED  BY <1>3, <2>3, <2>4, <2>5, CheckSourceMoves
<1>4. CASE CheckCandidate(t)
  <2> DEFINE s == thread[t].s
  <2>1. At(t, "budgeted") /\ epoch' = epoch
    BY <1>4, CheckCandidateMoves DEF Elsewhere
  <2>2. s \in Sessions => (session[s].st \in Active => session[s].owner = epoch)
    BY DEF Owned
  <2>3. CASE Moved(t, "done") /\ session' = session
    BY <2>1, <2>2, <2>3, SameTyped, StepOwned
  <2>4. CASE /\ Moved(t, "done") /\ HasSession(t) /\ session[s].st \in Takes
             /\ Written(s, Transitioned(session[s], "stale"))
    <3>1. s \in Sessions /\ session[s] \in SessionRecord
      BY <2>4, SessionOf
    <3>2. /\ Transitioned(session[s], "stale").owner = session[s].owner
          /\ Transitioned(session[s], "stale").st = "stale"
      BY <3>1, TransitionedRecord DEF States, Terminal
    <3>3. session'[s].owner = session[s].owner /\ session'[s].st = "stale" /\ session[s].owner = epoch
      BY <2>2, <2>4, <3>1, <3>2, TakesActive DEF Written
    <3> QED  BY <2>1, <2>4, <3>3, StepOwned DEF Written
  <2>5. CASE /\ session' = session /\ (HasSession(t) => session[s].st \in Takes)
             /\ \/ Moved(t, "refuted")
                \/ Moved(t, "checked") /\ (HasSession(t) => thread'[t].rec = session[s])
    <3>1. HasSession(t) => s \in Sessions /\ Own(t)
      BY <2>2, <2>5, SessionOf, TakesActive DEF Own
    <3> QED  BY <2>1, <2>2, <2>5, <3>1, SameTyped, StepOwned DEF Own
  <2> QED  BY <1>4, <2>3, <2>4, <2>5, CheckCandidateMoves
<1>5. CASE EnterCandidate(t)
  <2> DEFINE s == thread[t].s
  <2>1. At(t, "checked") /\ epoch' = epoch /\ Moved(t, "entered")
    BY <1>5, EnterCandidateMoves DEF Elsewhere
  <2>2. CASE ~HasSession(t)
    BY <1>5, <2>1, <2>2, EnterCandidateMoves, OnwardOwned, SameGrows DEF At, Outside
  <2>3. CASE HasSession(t)
    <3>1. s \in Sessions /\ Own(t) /\ thread[t].rec.owner = epoch
      BY <2>1, <2>3, OwnedSession DEF Owned, At, Outside, HasSession
    <3>2. /\ Written(s, Entered(thread[t])) /\ Entered(thread[t]).owner = epoch
          /\ Entered(thread[t]).st # "absent"
      BY <1>5, <2>3, <3>1, EnterCandidateMoves DEF Own
    <3>3. session'[s].owner = epoch /\ session'[s].st # "absent" /\ session[s].owner = epoch
      BY <3>1, <3>2 DEF Written, Own
    <3> QED  BY <2>1, <3>1, <3>2, <3>3, StepOwned DEF Written
  <2> QED  BY <2>2, <2>3
<1>6. CASE AcquireLease(t)
  BY <1>6, AcquireLeaseMoves, OnwardOwned, SameGrows DEF At, Outside
<1>7. CASE Build(t)
  BY <1>7, BuildMoves, OnwardOwned, SameGrows DEF At, Outside, Elsewhere
<1>8. CASE Test(t)
  BY <1>8, TestMoves, OnwardOwned DEF At, Outside, Elsewhere
<1>9. CASE Commit(t)
  BY <1>9, CommitMoves, OnwardOwned, SameGrows DEF At, Outside
<1>10. CASE Recheck(t)
  BY <1>10, RecheckMoves, OnwardOwned, SameGrows DEF At, Outside, Elsewhere
<1>11. CASE RejectDelivery(t)
  BY <1>11, RejectDeliveryMoves, OnwardOwned DEF At, Outside, Elsewhere
<1>12. CASE Release(t)
  BY <1>12, ReleaseMoves, OnwardOwned, SameGrows DEF At, Outside
<1>13. CASE SaveDelivery(t)
  BY <1>13, SaveDeliveryMoves, OnwardOwned, SameGrows DEF At, Outside
<1>14. CASE RecordDelivered(t)
  <2> DEFINE s == thread[t].s
  <2>1. At(t, "ledger") /\ epoch' = epoch /\ Moved(t, "done")
    BY <1>14, RecordDeliveredMoves DEF Elsewhere
  <2>2. CASE Grows(s)
    BY <2>1, <2>2, OnwardOwned DEF At, Outside
  <2>3. CASE /\ s \in Sessions /\ session' \in [Sessions -> SessionRecord]
             /\ \A r \in Sessions : r # s => session'[r] = session[r]
             /\ session'[s].st = "delivered" /\ session'[s].owner = session[s].owner
    <3>1. "delivered" \notin Active
      BY DEF Active
    <3> QED  BY <2>1, <2>3, <3>1, StepOwned
  <2> QED  BY <1>14, <2>2, <2>3, RecordDeliveredMoves
<1>15. CASE RejectCandidate(t)
  BY <1>15, RejectCandidateMoves, OnwardOwned DEF At, Outside, Elsewhere
<1>16. CASE CountVerified(t)
  BY <1>16, CountVerifiedMoves, OnwardOwned, SameGrows DEF At, Outside
<1>17. CASE RecordVerified(t)
  BY <1>17, RecordVerifiedMoves, OnwardOwned DEF At, Outside, Elsewhere
<1> QED  BY <1>1, <1>2, <1>3, <1>4, <1>5, <1>6, <1>7, <1>8, <1>9, <1>10, <1>11, <1>12, <1>13, <1>14,
            <1>15, <1>16, <1>17 DEF Request
-----------------------------------------------------------------------------
(* How a session came to its state.                                        *)

(* A step after which the request that delivered is still one that did, on *)
(* a session that did not become delivered by it.                          *)
LEMMA StepEarned ==
    ASSUME TypeOK, Earned, NEW t \in Threads, NEW place, Moved(t, place), commit' = commit,
           thread[t].at \in {"done"} \cup After => place \in {"done"} \cup After,
           place \in HasCommitted => thread[t].at \in HasCommitted,
           \A s \in Sessions : s # thread[t].s => session'[s] = session[s],
           thread[t].s \in Sessions =>
              /\ Walked(session'[thread[t].s])
              /\ session'[thread[t].s].st = "delivered" =>
                    /\ session[thread[t].s].st = "delivered"
                    /\ session[thread[t].s].cands \subseteq session'[thread[t].s].cands
    PROVE  Earned'
<1>1. ASSUME NEW s \in Sessions
      PROVE  /\ Walked(session[s])'
             /\ session'[s].st = "delivered" =>
                   session[s].st = "delivered" /\ session[s].cands \subseteq session'[s].cands
  BY DEF Earned, Walked
<1>2. ASSUME NEW s \in Sessions, session'[s].st = "delivered"
      PROVE  \E u \in Threads : /\ thread'[u].at \in {"done"} \cup After
                                /\ <<commit'[u].p, "delivered">> \in session'[s].cands
  <2>1. PICK u \in Threads : /\ thread[u].at \in {"done"} \cup After
                             /\ <<commit[u].p, "delivered">> \in session[s].cands
    BY <1>1, <1>2 DEF Earned
  <2>2. thread'[u].at \in {"done"} \cup After
    BY <2>1 DEF Moved
  <2> QED  BY <1>1, <1>2, <2>1, <2>2
<1>3. "done" \notin HasCommitted
  BY DEF HasCommitted
<1>4. \A u \in Threads : thread'[u].at \in HasCommitted => commit'[u].p = thread'[u].p
  BY <1>3 DEF Earned, Moved
<1> QED  BY <1>1, <1>2, <1>4 DEF Earned

LEMMA OnwardEarned ==
    ASSUME TypeOK, Earned, NEW t \in Threads, NEW place, Moved(t, place), commit' = commit,
           Grows(thread[t].s),
           thread[t].at \in {"done"} \cup After => place \in {"done"} \cup After,
           place \in HasCommitted => thread[t].at \in HasCommitted
    PROVE  Earned'
<1>1. thread[t].s \in Sessions => Walked(session[thread[t].s])
  BY DEF Earned
<1> QED  BY <1>1, StepEarned DEF Grows

LEMMA BegunEarned ==
    ASSUME TypeOK, Earned, NEW t \in Threads, At(t, "idle"), NEW s, NEW p, NEW op, NEW place \in Asking,
           NEW rec, Begins(t, s, p, op, place, rec), session' = session, commit' = commit
    PROVE  Earned'
<1>1. "idle" \notin {"done"} \cup After /\ place \notin HasCommitted
  BY DEF After, Asking, HasCommitted
<1>2. \A u \in Threads : thread[u].at \in {"done"} \cup After => thread'[u] = thread[u]
  BY <1>1 DEF At, Begins
<1>3. \A u \in Threads : thread'[u].at \in HasCommitted => commit'[u].p = thread'[u].p
  BY <1>1 DEF Earned, Begins
<1>4. ASSUME NEW r \in Sessions, session'[r].st = "delivered"
      PROVE  \E u \in Threads : /\ thread'[u].at \in {"done"} \cup After
                                /\ <<commit'[u].p, "delivered">> \in session'[r].cands
  <2>1. PICK u \in Threads : /\ thread[u].at \in {"done"} \cup After
                             /\ <<commit[u].p, "delivered">> \in session[r].cands
    BY <1>4 DEF Earned
  <2> QED  BY <1>2, <2>1
<1>5. \A r \in Sessions : Walked(session[r])'
  BY DEF Earned, Walked
<1> QED  BY <1>3, <1>4, <1>5 DEF Earned

LEMMA RequestEarned ==
    ASSUME TypeOK, Earned, NEW t \in Threads, Request(t)
    PROVE  Earned'
<1>1. ASSUME NEW s \in 0..MaxSessions, NEW p \in Patches, DeliverRepair(t, s, p) PROVE Earned'
  BY <1>1, DeliverRepairMoves, BegunEarned DEF Elsewhere, Asking
<1>2. ASSUME NEW s \in 0..MaxSessions, NEW p \in Patches, VerifyCandidate(t, s, p) PROVE Earned'
  BY <1>2, VerifyCandidateMoves, BegunEarned DEF Asking
<1>3. CASE CheckSource(t)
  <2> DEFINE s == thread[t].s
  <2>1. At(t, "read") /\ commit' = commit /\ "checked" \notin HasCommitted /\ "done" \notin HasCommitted
    BY <1>3, CheckSourceMoves DEF Elsewhere, HasCommitted
  <2>2. CASE session' = session /\ (Moved(t, "done") \/ Moved(t, "checked"))
    BY <2>1, <2>2, SameGrows, OnwardEarned DEF At, After
  <2>3. CASE Moved(t, "done") /\ HasSession(t) /\ Written(s, Transitioned(thread[t].rec, "stale"))
    <3>1. s \in Sessions /\ Transitioned(thread[t].rec, "stale").st = "stale"
      BY <2>3, SessionOf, TransitionedRecord DEF States, Terminal
    <3>2. session'[s].st = "stale" /\ Walked(session'[s])
      BY <2>3, <3>1 DEF Written, Walked
    <3> QED  BY <2>1, <2>3, <3>2, StepEarned DEF Written
  <2> QED  BY <1>3, <2>2, <2>3, CheckSourceMoves
<1>4. CASE CheckCandidate(t)
  <2> DEFINE s == thread[t].s
  <2>1. /\ At(t, "budgeted") /\ commit' = commit
        /\ "checked" \notin HasCommitted /\ "done" \notin HasCommitted /\ "refuted" \notin HasCommitted
    BY <1>4, CheckCandidateMoves DEF Elsewhere, HasCommitted
  <2>2. CASE session' = session /\ (Moved(t, "done") \/ Moved(t, "checked") \/ Moved(t, "refuted"))
    BY <2>1, <2>2, SameGrows, OnwardEarned DEF At, After
  <2>3. CASE Moved(t, "done") /\ HasSession(t) /\ Written(s, Transitioned(session[s], "stale"))
    <3>1. s \in Sessions /\ Transitioned(session[s], "stale").st = "stale"
      BY <2>3, SessionOf, TransitionedRecord DEF States, Terminal
    <3>2. session'[s].st = "stale" /\ Walked(session'[s])
      BY <2>3, <3>1 DEF Written, Walked
    <3> QED  BY <2>1, <2>3, <3>2, StepEarned DEF Written
  <2> QED  BY <1>4, <2>2, <2>3, CheckCandidateMoves
<1>5. CASE EnterCandidate(t)
  <2> DEFINE s == thread[t].s
             e == Entered(thread[t])
  <2>1. At(t, "checked") /\ commit' = commit /\ Moved(t, "entered") /\ "entered" \notin HasCommitted
    BY <1>5, EnterCandidateMoves DEF Elsewhere, HasCommitted
  <2>2. CASE ~HasSession(t)
    BY <1>5, <2>1, <2>2, EnterCandidateMoves, OnwardEarned, SameGrows DEF At, After
  <2>3. CASE HasSession(t)
    <3>1. s \in Sessions /\ Walked(session[s])
      BY <2>3, SessionOf DEF Earned
    <3>2. /\ Written(s, e)
          /\ \/ e.st = "patch_candidate" /\ "patch_candidate" \in e.hops
             \/ e.st = session[s].st /\ e.hops = session[s].hops /\ session[s].cands \subseteq e.cands
      BY <1>5, <2>3, EnterCandidateMoves
    <3> HIDE DEF e
    <3>3. Walked(e) /\ (e.st = "delivered" => session[s].st = "delivered" /\ session[s].cands \subseteq e.cands)
      BY <3>1, <3>2 DEF Walked
    <3> QED  BY <2>1, <3>1, <3>2, <3>3, StepEarned DEF Written, At, After
  <2> QED  BY <2>2, <2>3
<1>6. CASE AcquireLease(t)
  BY <1>6, AcquireLeaseMoves, OnwardEarned, SameGrows DEF At, Asking, Before, After, HasCommitted
<1>7. CASE Build(t)
  BY <1>7, BuildMoves, OnwardEarned, SameGrows DEF At, Asking, Before, After, HasCommitted, Elsewhere
<1>8. CASE Test(t)
  BY <1>8, TestMoves, OnwardEarned DEF At, Asking, Before, After, HasCommitted, Elsewhere
<1>9. CASE Commit(t)
  <2>1. At(t, "tested") /\ session' = session
    BY <1>9, CommitMoves
  <2>2. CASE Moved(t, "failed") /\ commit' = commit
    BY <2>1, <2>2, OnwardEarned, SameGrows DEF At, After, HasCommitted
  <2>3. CASE /\ Moved(t, "committed") /\ commit' = [commit EXCEPT ![t] = CommitOf(thread[t])]
             /\ commit'[t].p = thread[t].p
    <3>1. thread[t].at \notin {"done"} \cup After
      BY <2>1 DEF At, After
    <3>2. \A u \in Threads : u # t => commit'[u] = commit[u] /\ thread'[u] = thread[u]
      BY <2>3 DEF TypeOK, Moved
    <3>3. \A u \in Threads : thread'[u].at \in HasCommitted => commit'[u].p = thread'[u].p
      BY <2>3, <3>2 DEF Earned, Moved
    <3>4. ASSUME NEW r \in Sessions, session'[r].st = "delivered"
          PROVE  \E u \in Threads : /\ thread'[u].at \in {"done"} \cup After
                                    /\ <<commit'[u].p, "delivered">> \in session'[r].cands
      <4>1. PICK u \in Threads : /\ thread[u].at \in {"done"} \cup After
                                 /\ <<commit[u].p, "delivered">> \in session[r].cands
        BY <2>1, <3>4 DEF Earned
      <4> QED  BY <2>1, <3>1, <3>2, <4>1
    <3>5. \A r \in Sessions : Walked(session[r])'
      BY <2>1 DEF Earned, Walked
    <3> QED  BY <3>3, <3>4, <3>5 DEF Earned
  <2> QED  BY <1>9, <2>2, <2>3, CommitMoves
<1>10. CASE Recheck(t)
  BY <1>10, RecheckMoves, OnwardEarned, SameGrows DEF At, Asking, Before, After, HasCommitted, Elsewhere
<1>11. CASE RejectDelivery(t)
  BY <1>11, RejectDeliveryMoves, OnwardEarned DEF At, Asking, Before, After, HasCommitted, Elsewhere
<1>12. CASE Release(t)
  BY <1>12, ReleaseMoves, OnwardEarned, SameGrows DEF At, Asking, Before, After, HasCommitted
<1>13. CASE SaveDelivery(t)
  BY <1>13, SaveDeliveryMoves, OnwardEarned, SameGrows DEF At, Asking, Before, After, HasCommitted
<1>14. CASE RecordDelivered(t)
  <2> DEFINE s == thread[t].s
  <2>1. At(t, "ledger") /\ commit' = commit /\ Moved(t, "done") /\ "done" \notin HasCommitted
    BY <1>14, RecordDeliveredMoves DEF Elsewhere, HasCommitted
  <2>2. CASE Grows(s)
    BY <2>1, <2>2, OnwardEarned
  <2>3. CASE /\ s \in Sessions /\ session[s].st = "awaiting_delivery"
             /\ \A r \in Sessions : r # s => session'[r] = session[r]
             /\ session'[s].st = "delivered" /\ session[s].hops \subseteq session'[s].hops
             /\ <<thread[t].p, "delivered">> \in session'[s].cands
    <3>1. Walked(session'[s])
      BY <2>3 DEF Earned, Walked
    <3>2. commit'[t].p = thread[t].p
      BY <2>1 DEF Earned, At, HasCommitted
    <3>3. ASSUME NEW r \in Sessions, session'[r].st = "delivered"
          PROVE  \E u \in Threads : /\ thread'[u].at \in {"done"} \cup After
                                    /\ <<commit'[u].p, "delivered">> \in session'[r].cands
      <4>1. CASE r = s
        BY <2>1, <2>3, <3>2, <4>1 DEF Moved
      <4>2. CASE r # s
        <5>1. PICK u \in Threads : /\ thread[u].at \in {"done"} \cup After
                                   /\ <<commit[u].p, "delivered">> \in session[r].cands
          BY <2>3, <3>3, <4>2 DEF Earned
        <5>2. thread'[u].at \in {"done"} \cup After
          BY <2>1, <5>1 DEF Moved
        <5> QED  BY <2>1, <2>3, <4>2, <5>1, <5>2
      <4> QED  BY <4>1, <4>2
    <3>4. \A r \in Sessions : Walked(session[r])'
      <4>1. ASSUME NEW r \in Sessions PROVE Walked(session'[r])
        BY <2>3, <3>1 DEF Earned
      <4> QED  BY <4>1 DEF Walked
    <3>5. \A u \in Threads : thread'[u].at \in HasCommitted => commit'[u].p = thread'[u].p
      BY <2>1 DEF Earned, Moved
    <3> QED  BY <3>3, <3>4, <3>5 DEF Earned
  <2> QED  BY <1>14, <2>2, <2>3, RecordDeliveredMoves
<1>15. CASE RejectCandidate(t)
  BY <1>15, RejectCandidateMoves, OnwardEarned DEF At, Asking, Before, After, HasCommitted, Elsewhere
<1>16. CASE CountVerified(t)
  BY <1>16, CountVerifiedMoves, OnwardEarned, SameGrows DEF At, Asking, Before, After, HasCommitted
<1>17. CASE RecordVerified(t)
  BY <1>17, RecordVerifiedMoves, OnwardEarned DEF At, Asking, Before, After, HasCommitted, Elsewhere
<1> QED  BY <1>1, <1>2, <1>3, <1>4, <1>5, <1>6, <1>7, <1>8, <1>9, <1>10, <1>11, <1>12, <1>13, <1>14,
            <1>15, <1>16, <1>17 DEF Request
-----------------------------------------------------------------------------
(* What the holder of the lock is about to export.                         *)

LEMMA SameSealed ==
    ASSUME Sealed, UNCHANGED <<gate, artifact, pinned, exports>>
    PROVE  Sealed'
  BY DEF Sealed, ExportMatchesApproval

(* A delivery that writes its files marks an export under way.             *)
LEMMA SaveDeliverySealed ==
    ASSUME TypeOK, Sealed, NEW t \in Threads, SaveDelivery(t)
    PROVE  Sealed'
<1>1. /\ gate' = [gate EXCEPT !.raced = ~Unlocked] /\ pinned' = pinned /\ exports' = exports
  BY SaveDeliveryMoves DEF ceremony
<1>2. /\ gate'.at = gate.at /\ gate'.s = gate.s /\ gate'.five = gate.five
      /\ gate.at = "export" => gate'.raced
  BY <1>1 DEF TypeOK, Unlocked
<1>3. ExportMatchesApproval'
  BY <1>1 DEF Sealed, ExportMatchesApproval
<1> QED  BY <1>1, <1>2, <1>3 DEF Sealed

LEMMA RequestSealed ==
    ASSUME TypeOK, Sealed, NEW t \in Threads, Request(t)
    PROVE  Sealed'
<1>1. ASSUME NEW s \in 0..MaxSessions, NEW p \in Patches, DeliverRepair(t, s, p) PROVE Sealed'
  BY <1>1, SameSealed DEF DeliverRepair, ceremony
<1>2. ASSUME NEW s \in 0..MaxSessions, NEW p \in Patches, VerifyCandidate(t, s, p) PROVE Sealed'
  BY <1>2, SameSealed DEF VerifyCandidate, ceremony
<1>3. CASE CheckSource(t)
  BY <1>3, SameSealed DEF CheckSource, ceremony
<1>4. CASE CheckCandidate(t)
  BY <1>4, SameSealed DEF CheckCandidate, ceremony
<1>5. CASE EnterCandidate(t)
  BY <1>5, SameSealed DEF EnterCandidate, ceremony
<1>6. CASE AcquireLease(t)
  BY <1>6, SameSealed DEF AcquireLease, ceremony
<1>7. CASE Build(t)
  BY <1>7, SameSealed DEF Build, ceremony
<1>8. CASE Test(t)
  BY <1>8, SameSealed DEF Test, ceremony
<1>9. CASE Commit(t)
  BY <1>9, SameSealed DEF Commit, ceremony
<1>10. CASE Recheck(t)
  BY <1>10, SameSealed DEF Recheck, ceremony
<1>11. CASE RejectDelivery(t)
  BY <1>11, SameSealed DEF RejectDelivery, ceremony
<1>12. CASE Release(t)
  BY <1>12, SameSealed DEF Release, ceremony
<1>13. CASE SaveDelivery(t)
  BY <1>13, SaveDeliverySealed
<1>14. CASE RecordDelivered(t)
  BY <1>14, SameSealed DEF RecordDelivered, ceremony
<1>15. CASE RejectCandidate(t)
  BY <1>15, SameSealed DEF RejectCandidate, ceremony
<1>16. CASE CountVerified(t)
  BY <1>16, SameSealed DEF CountVerified, ceremony
<1>17. CASE RecordVerified(t)
  BY <1>17, SameSealed DEF RecordVerified, ceremony
<1> QED  BY <1>1, <1>2, <1>3, <1>4, <1>5, <1>6, <1>7, <1>8, <1>9, <1>10, <1>11, <1>12, <1>13, <1>14,
            <1>15, <1>16, <1>17 DEF Request

LEMMA RequestStep ==
    ASSUME IInv, NEW t \in Threads, Request(t)
    PROVE  IInv'
  BY RequestTyped, RequestSealed, RequestCompared, RequestCounted, RequestOwned, RequestEarned DEF IInv

-----------------------------------------------------------------------------
(* The person's requests: a session is opened or abandoned.                *)

LEMMA SameRequests ==
    ASSUME UNCHANGED <<thread, source, commit, writes, overlap>>
    PROVE  /\ Compared => Compared'
           /\ Counted => Counted'
  BY DEF Compared, CommitsReviewedSource, Counted, Verifying, At

(* A record that is closed or begun, and no request that works on another. *)
LEMMA SessionsOwned ==
    ASSUME TypeOK, Owned, UNCHANGED <<thread, epoch>>,
           \A s \in Sessions : /\ session'[s].owner <= epoch
                               /\ session'[s].st \in Active => session'[s].owner = epoch
                               /\ session[s].st # "absent" =>
                                     session'[s].owner = session[s].owner /\ session'[s].st # "absent"
    PROVE  Owned'
<1>1. \A t \in Threads : thread[t].s # 0 => thread[t].s \in Sessions
  BY SessionOf DEF HasSession
<1> QED  BY <1>1 DEF Owned

LEMMA SessionsEarned ==
    ASSUME Earned, UNCHANGED <<thread, commit>>,
           \A s \in Sessions : session'[s] = session[s] \/ session'[s].st \in {"open", "abandoned"}
    PROVE  Earned'
<1>1. \A s \in Sessions : Walked(session[s])'
  BY DEF Earned, Walked
<1> QED  BY <1>1 DEF Earned

LEMMA OpenSessionStep ==
    ASSUME IInv, NEW s \in Sessions, OpenSession(s)
    PROVE  IInv'
<1> DEFINE new == [NoSession EXCEPT !.st = "open", !.owner = epoch]
<1> TypeOK /\ Sealed /\ Compared /\ Counted /\ Owned /\ Earned
  BY DEF IInv
<1>1. /\ session[s].st = "absent" /\ session' = [Harvested(epoch) EXCEPT ![s] = new]
      /\ UNCHANGED <<thread, gate, checkout, lease, commit, artifact, ceremony, budget, epoch>>
  BY DEF OpenSession
<1>2. new \in SessionRecord /\ new.st = "open" /\ new.owner = epoch
  BY NoSessionRecord DEF TypeOK, SessionRecord, States, Active
<1>3. epoch \in Nat
  BY DEF TypeOK
<1> HIDE DEF new
<1>4. /\ session' \in [Sessions -> SessionRecord] /\ session'[s] = new
      /\ \A r \in Sessions : r # s => session'[r] = Harvested(epoch)[r]
  BY <1>1, <1>2, <1>3, HarvestedSessions
<1>5. "abandoned" \notin Active /\ "absent" \notin Active
  BY DEF Active
<1>6. \A r \in Sessions : session'[r] = session[r] \/ session'[r].st \in {"open", "abandoned"}
  BY <1>2, <1>3, <1>4, HarvestedSessions
<1>7. \A r \in Sessions : /\ session'[r].owner <= epoch
                          /\ session'[r].st \in Active => session'[r].owner = epoch
                          /\ session[r].st # "absent" =>
                                session'[r].owner = session[r].owner /\ session'[r].st # "absent"
  <2>1. ASSUME NEW r \in Sessions, r # s
        PROVE  /\ session'[r].owner <= epoch
               /\ session'[r].st \in Active => session'[r].owner = epoch
               /\ session[r].st # "absent" =>
                     session'[r].owner = session[r].owner /\ session'[r].st # "absent"
    BY <1>3, <1>4, <1>5, <2>1, HarvestedSessions DEF Owned
  <2> QED  BY <1>1, <1>2, <1>3, <1>4, <2>1
<1>8. TypeOK'
  BY <1>1, <1>4 DEF TypeOK, HasPatch, checkout, ceremony, budget
<1>9. Compared' /\ Counted'
  BY <1>1, SameRequests DEF checkout, budget
<1>10. Sealed'
  BY <1>1, SameSealed DEF ceremony
<1>11. Owned' /\ Earned'
  BY <1>1, <1>6, <1>7, SessionsOwned, SessionsEarned
<1> QED  BY <1>8, <1>9, <1>10, <1>11 DEF IInv

LEMMA AbandonSessionStep ==
    ASSUME IInv, NEW s \in Sessions, AbandonSession(s)
    PROVE  IInv'
<1> DEFINE new == Transitioned(session[s], "abandoned")
<1> TypeOK /\ Sealed /\ Compared /\ Counted /\ Owned /\ Earned
  BY DEF IInv
<1>1. /\ session' = [session EXCEPT ![s] = new]
      /\ UNCHANGED <<thread, gate, checkout, lease, commit, artifact, ceremony, budget, epoch>>
  BY DEF AbandonSession
<1>2. new \in SessionRecord /\ new.st = "abandoned" /\ new.owner = session[s].owner
  <2>1. session[s] \in SessionRecord /\ "abandoned" \in States
    BY DEF TypeOK, States, Terminal
  <2> QED  BY <2>1, TransitionedRecord
<1> HIDE DEF new
<1>3. /\ session' \in [Sessions -> SessionRecord] /\ session'[s] = new
      /\ \A r \in Sessions : r # s => session'[r] = session[r]
  BY <1>1, <1>2 DEF TypeOK
<1>4. "abandoned" \notin Active
  BY DEF Active
<1>5. \A r \in Sessions : /\ session'[r].owner <= epoch
                          /\ session'[r].st \in Active => session'[r].owner = epoch
                          /\ session[r].st # "absent" =>
                                session'[r].owner = session[r].owner /\ session'[r].st # "absent"
  BY <1>2, <1>3, <1>4 DEF Owned
<1>6. TypeOK'
  BY <1>1, <1>3 DEF TypeOK, HasPatch, checkout, ceremony, budget
<1>7. Compared' /\ Counted'
  BY <1>1, SameRequests DEF checkout, budget
<1>8. Sealed'
  BY <1>1, SameSealed DEF ceremony
<1>9. Owned' /\ Earned'
  BY <1>1, <1>2, <1>3, <1>5, SessionsOwned, SessionsEarned
<1> QED  BY <1>6, <1>7, <1>8, <1>9 DEF IInv

-----------------------------------------------------------------------------
(* The ceremony.                                                           *)

LEMMA SameSessions ==
    ASSUME UNCHANGED <<session, thread, commit, epoch>>
    PROVE  (Owned => Owned') /\ (Earned => Earned')
<1>1. (\A s \in Sessions : Walked(session[s])) => \A s \in Sessions : Walked(session[s])'
  BY DEF Walked
<1> QED  BY <1>1 DEF Owned, Earned

(* The ceremony changes nothing of the requests or the sessions.           *)
LEMMA CeremonyStep ==
    ASSUME IInv, UNCHANGED <<session, thread, checkout, lease, commit, artifact, budget, epoch>>,
           gate' \in [at : {"free", "pin", "export"}, s : 0..MaxSessions, five : Fingerprints, raced : BOOLEAN],
           approval' \in [s : 0..MaxSessions, five : Fingerprints],
           pinned' \in [Sessions -> Fingerprints], Sealed'
    PROVE  IInv'
<1>1. TypeOK'
  BY DEF IInv, TypeOK, HasPatch, checkout, budget
<1>2. Compared' /\ Counted'
  BY SameRequests DEF IInv, checkout, budget
<1>3. Owned' /\ Earned'
  BY SameSessions DEF IInv
<1> QED  BY <1>1, <1>2, <1>3 DEF IInv

LEMMA Recomputing == ASSUME TypeOK PROVE Recomputed \in Fingerprints
  BY DEF TypeOK, Recomputed, Fingerprints

LEMMA NoGateTyped ==
    /\ NoGate \in [at : {"free", "pin", "export"}, s : 0..MaxSessions, five : Fingerprints, raced : BOOLEAN]
    /\ NoGate.at = "free" /\ NoFingerprints \in Fingerprints
<1>1. NoFingerprints \in Fingerprints
  BY DEF NoFingerprints, Fingerprints, Files
<1> QED  BY <1>1, DeliveryAssumption DEF NoGate

LEMMA ApproveDeliveryStep ==
    ASSUME IInv, NEW s \in Sessions, ApproveDelivery(s)
    PROVE  IInv'
<1>1. /\ gate' = [at |-> "pin", s |-> s, five |-> Recomputed, raced |-> FALSE]
      /\ approval' = [s |-> s, five |-> Recomputed]
      /\ UNCHANGED <<session, thread, checkout, lease, commit, artifact, pinned, exports, budget, epoch>>
  BY DEF ApproveDelivery, ApprovalRecord
<1>2. Recomputed \in Fingerprints /\ s \in 0..MaxSessions
  BY Recomputing DEF IInv, Sessions
<1>3. Sealed'
  BY <1>1 DEF IInv, Sealed, ExportMatchesApproval
<1>4. pinned' \in [Sessions -> Fingerprints]
  BY <1>1 DEF IInv, TypeOK
<1> QED  BY <1>1, <1>2, <1>3, <1>4, CeremonyStep

LEMMA PinApprovalStep ==
    ASSUME IInv, PinApproval
    PROVE  IInv'
<1>1. /\ gate.at = "pin" /\ pinned' = [pinned EXCEPT ![gate.s] = gate.five] /\ gate' = NoGate
      /\ UNCHANGED <<session, thread, checkout, lease, commit, artifact, approval, exports, budget, epoch>>
  BY DEF PinApproval
<1>2. Sealed'
  BY <1>1, NoGateTyped DEF IInv, Sealed, ExportMatchesApproval
<1>3. pinned' \in [Sessions -> Fingerprints] /\ approval' \in [s : 0..MaxSessions, five : Fingerprints]
  BY <1>1 DEF IInv, TypeOK
<1> QED  BY <1>1, <1>2, <1>3, NoGateTyped, CeremonyStep

LEMMA ExportDeliveryStep ==
    ASSUME IInv, NEW s \in Sessions, ExportDelivery(s)
    PROVE  IInv'
<1>1. /\ gate' = [at |-> "export", s |-> s, five |-> Recomputed, raced |-> FALSE]
      /\ pinned[s] = approval.five /\ approval.five = Recomputed
      /\ UNCHANGED <<session, thread, checkout, lease, commit, artifact, approval, pinned, exports, budget, epoch>>
  BY DEF ExportDelivery, ApprovalOf, LatestApproval, Agree, ceremony
<1>2. Recomputed \in Fingerprints /\ s \in 0..MaxSessions
  BY Recomputing DEF IInv, Sessions
<1>3. Sealed'
  BY <1>1 DEF IInv, Sealed, ExportMatchesApproval, Recomputed
<1>4. pinned' \in [Sessions -> Fingerprints] /\ approval' \in [s : 0..MaxSessions, five : Fingerprints]
  BY <1>1 DEF IInv, TypeOK
<1> QED  BY <1>1, <1>2, <1>3, <1>4, CeremonyStep

LEMMA WritePackageStep ==
    ASSUME IInv, WritePackage
    PROVE  IInv'
<1>1. /\ gate.at = "export" /\ exports' = exports \cup {Package} /\ gate' = NoGate
      /\ UNCHANGED <<session, thread, checkout, lease, commit, artifact, approval, pinned, budget, epoch>>
  BY DEF WritePackage
<1>2. /\ Package.five = gate.five /\ Package.pin = pinned[gate.s] /\ Package.files = artifact
      /\ Package.raced = gate.raced
  BY DEF Package
<1>3. Sealed'
  BY <1>1, <1>2, NoGateTyped DEF IInv, Sealed, ExportMatchesApproval
<1>4. pinned' \in [Sessions -> Fingerprints] /\ approval' \in [s : 0..MaxSessions, five : Fingerprints]
  BY <1>1 DEF IInv, TypeOK
<1> QED  BY <1>1, <1>3, <1>4, NoGateTyped, CeremonyStep

-----------------------------------------------------------------------------
(* The user's edits and the restarts.                                      *)

LEMMA EditSourceStep ==
    ASSUME IInv, EditSource
    PROVE  IInv'
<1> TypeOK /\ Sealed /\ Compared /\ Counted /\ Owned /\ Earned
  BY DEF IInv
<1>1. /\ source' = source + 1 /\ visible' \in {visible, visible + 1}
      /\ thread' = [t \in Threads |-> [thread[t] EXCEPT !.edited = thread[t].at \notin Outside]]
      /\ UNCHANGED <<session, gate, lease, commit, artifact, ceremony, budget, epoch>>
  BY DEF EditSource, Outside
<1>2. \A t \in Threads :
        /\ thread'[t] \in RequestRecord
        /\ thread'[t].at = thread[t].at /\ thread'[t].op = thread[t].op /\ thread'[t].s = thread[t].s
        /\ thread'[t].p = thread[t].p /\ thread'[t].rec = thread[t].rec /\ thread'[t].src = thread[t].src
        /\ thread[t].at \notin Outside => thread'[t].edited
  BY <1>1, SessionOf DEF RequestRecord
<1>3. TypeOK'
  <2>1. thread' \in [Threads -> RequestRecord] /\ \A t \in Threads : HasPatch(t)'
    BY <1>1, <1>2 DEF TypeOK, HasPatch
  <2> QED  BY <1>1, <2>1 DEF TypeOK, ceremony, budget
<1>4. Sealed'
  BY <1>1, SameSealed DEF ceremony
<1>5. Compared'
  <2>1. \A t \in Threads : thread[t].at \in Before \cup After => thread'[t].edited
    BY <1>2 DEF Outside, Before, After
  <2> QED  BY <1>1, <1>2, <2>1 DEF Compared, CommitsReviewedSource, At
<1>6. Counted'
  <2>1. Verifying' = Verifying
    BY <1>2 DEF Verifying
  <2> QED  BY <1>1, <1>2, <2>1 DEF Counted, At, Verifying, budget
<1>7. Owned'
  <2>1. session' = session /\ epoch' = epoch
    BY <1>1
  <2>2. ASSUME NEW t \in Threads, thread'[t].s # 0, thread'[t].at \notin Outside \cup {"budgeted"}
        PROVE  /\ session[thread'[t].s].owner = epoch /\ session[thread'[t].s].st # "absent"
               /\ thread'[t].at \in {"read", "checked"} =>
                     thread'[t].rec.owner = epoch /\ thread'[t].rec.st \in Takes
    <3>1. /\ thread'[t].s = thread[t].s /\ thread'[t].at = thread[t].at
          /\ thread'[t].rec = thread[t].rec
      BY <1>2
    <3> QED  BY <2>2, <3>1 DEF Owned
  <2> QED  BY <2>1, <2>2 DEF Owned
<1>8. Earned'
  <2>1. \A s \in Sessions : Walked(session[s])'
    BY <1>1 DEF Earned, Walked
  <2> QED  BY <1>1, <1>2, <2>1 DEF Earned
<1> QED  BY <1>3, <1>4, <1>5, <1>6, <1>7, <1>8 DEF IInv

LEMMA DoneRecord == Done \in RequestRecord /\ Done.at = "done"
  BY IdleRecord DEF Done, RequestRecord, Places, Outside

LEMMA RestartStep ==
    ASSUME IInv, Restart
    PROVE  IInv'
<1> TypeOK /\ Sealed /\ Compared /\ Counted /\ Owned /\ Earned
  BY DEF IInv
<1>1. /\ epoch' = epoch + 1 /\ session' = Harvested(epoch + 1) /\ gate' = NoGate
      /\ lease' = [op |-> "free", by |-> None]
      /\ thread' = [t \in Threads |-> IF thread[t].at = "idle" THEN thread[t] ELSE Done]
      /\ UNCHANGED <<checkout, commit, artifact, ceremony, budget>>
  BY DEF Restart
<1>2. epoch \in Nat /\ epoch + 1 \in Nat
  BY DEF TypeOK
<1>3. \A t \in Threads : /\ thread'[t] \in RequestRecord
                         /\ thread'[t].at \in Outside
                         /\ thread[t].at = "idle" => thread'[t] = thread[t]
                         /\ thread[t].at # "idle" => thread'[t].at = "done"
  BY <1>1, DoneRecord, SessionOf DEF Outside
<1>4. session' \in [Sessions -> SessionRecord]
  BY <1>1, <1>2, HarvestedSessions
<1>5. \A s \in Sessions : /\ session'[s].owner = session[s].owner /\ session'[s].st \notin Active
                          /\ session'[s] = session[s] \/ session'[s].st = "abandoned"
  <2>1. \A s \in Sessions : session[s].owner <= epoch /\ session[s].owner \in Nat
    BY DEF Owned, TypeOK, SessionRecord
  <2>2. \A s \in Sessions : session[s].owner # epoch + 1
    BY <1>2, <2>1
  <2>3. "abandoned" \notin Active
    BY DEF Active
  <2> QED  BY <1>1, <1>2, <2>2, <2>3, HarvestedSessions
<1>6. TypeOK'
  <2>1. thread' \in [Threads -> RequestRecord] /\ \A t \in Threads : HasPatch(t)'
    BY <1>1, <1>3 DEF HasPatch
  <2>2. lease' \in [op : {"free", "repair", "verify"}, by : Threads \cup {None}]
    BY <1>1
  <2> QED  BY <1>1, <1>2, <1>4, <2>1, <2>2, NoGateTyped DEF TypeOK, checkout, ceremony, budget
<1>7. Sealed'
  BY <1>1, NoGateTyped DEF Sealed, ExportMatchesApproval, ceremony
<1>8. Compared'
  <2>1. \A t \in Threads : thread'[t].at \notin Before \cup After \cup Asking
    BY <1>3 DEF Outside, Before, After, Asking
  <2> QED  BY <1>1, <1>3, <2>1 DEF Compared, CommitsReviewedSource, At, Asking, checkout
<1>9. Counted'
  <2>1. Verifying' = {}
    BY <1>3 DEF Verifying, Outside
  <2>2. \A t \in Threads : thread'[t].at # "verified"
    BY <1>3 DEF Outside
  <2> QED  BY <1>1, <2>1, <2>2 DEF Counted, At, budget
<1>10. Owned'
  <2>1. \A s \in Sessions : session'[s].owner <= epoch'
    BY <1>1, <1>2, <1>5 DEF Owned, TypeOK, SessionRecord
  <2> QED  BY <1>3, <1>5, <2>1 DEF Owned
<1>11. Earned'
  <2>1. ASSUME NEW s \in Sessions PROVE Walked(session'[s])
    BY <1>5 DEF Earned, Walked
  <2>2. "idle" \notin {"done"} \cup After
    BY DEF After
  <2>3. ASSUME NEW s \in Sessions, session'[s].st = "delivered"
        PROVE  \E u \in Threads : /\ thread'[u].at \in {"done"} \cup After
                                  /\ <<commit'[u].p, "delivered">> \in session'[s].cands
    <3>1. session'[s] = session[s]
      BY <1>5, <2>3
    <3>2. PICK u \in Threads : /\ thread[u].at \in {"done"} \cup After
                               /\ <<commit[u].p, "delivered">> \in session[s].cands
      BY <2>3, <3>1 DEF Earned
    <3> QED  BY <1>1, <1>3, <2>2, <3>1, <3>2
  <2>4. \A u \in Threads : thread'[u].at \notin HasCommitted
    BY <1>3 DEF Outside, HasCommitted
  <2>5. \A s \in Sessions : Walked(session[s])'
    BY <2>1 DEF Walked
  <2> QED  BY <2>3, <2>4, <2>5 DEF Earned
<1> QED  BY <1>6, <1>7, <1>8, <1>9, <1>10, <1>11 DEF IInv

-----------------------------------------------------------------------------
(* The invariant.                                                          *)

LEMMA InitIInv == Init => IInv
<1> SUFFICES ASSUME Init PROVE IInv
  OBVIOUS
<1>1. \A s \in Sessions : session[s] = NoSession
  BY DEF Init
<1>2. \A t \in Threads : thread[t] = Idle
  BY DEF Init
<1>3. Idle.at = "idle" /\ Idle.s = 0 /\ NoSession.owner = 0 /\ NoSession.st = "absent"
  BY DEF Idle, NoSession
<1>4. TypeOK
  <2>1. /\ session \in [Sessions -> SessionRecord] /\ thread \in [Threads -> RequestRecord]
    BY NoSessionRecord, IdleRecord DEF Init
  <2>2. \A t \in Threads : HasPatch(t)
    BY <1>2, <1>3 DEF HasPatch, Outside
  <2>3. commit \in [Threads -> [src : Nat, p : Files, raced : BOOLEAN]]
    BY DEF Init, NoCommit, Files
  <2>4. artifact \in [manifest : Files, record : Threads \cup {None}, patch : Files]
    BY DEF Init, NoArtifact, Files
  <2>5. /\ approval \in [s : 0..MaxSessions, five : Fingerprints]
        /\ pinned \in [Sessions -> Fingerprints]
    BY NoGateTyped, DeliveryAssumption DEF Init
  <2> QED  BY <2>1, <2>2, <2>3, <2>4, <2>5, NoGateTyped DEF Init, TypeOK
<1>5. Sealed
  BY NoGateTyped DEF Init, Sealed, ExportMatchesApproval
<1>6. Compared
  <2>1. \A t \in Threads : commit[t].src = 0
    BY DEF Init, NoCommit
  <2>2. "idle" \notin Before \cup After
    BY DEF Before, After
  <2> QED  BY <1>2, <1>3, <2>1, <2>2, IdleRecord DEF Compared, CommitsReviewedSource, At
<1>7. Counted
  <2>1. Verifying = {} /\ \A t \in Threads : thread[t].at # "verified"
    BY <1>2, <1>3 DEF Verifying
  <2>2. writes = 0
    BY DEF Init
  <2> QED  BY <2>1, <2>2, DeliveryAssumption DEF Counted, At
<1>8. Owned
  <2>1. epoch = 0 /\ "absent" \notin Active
    BY DEF Init, Active
  <2> QED  BY <1>1, <1>2, <1>3, <2>1 DEF Owned
<1>9. Earned
  BY <1>1, <1>2, <1>3 DEF Earned, Walked, HasCommitted
<1> QED  BY <1>4, <1>5, <1>6, <1>7, <1>8, <1>9 DEF IInv

LEMMA StutterStep == ASSUME IInv, UNCHANGED vars PROVE IInv'
<1>1. UNCHANGED <<session, thread, gate, source, visible, lease, commit, artifact, approval,
                  pinned, writes, epoch, exports, overlap>>
  BY DEF vars
<1>2. Sealed' /\ gate' = gate /\ approval' = approval /\ pinned' = pinned
  BY <1>1, SameSealed DEF IInv
<1> QED  BY <1>1, <1>2, CeremonyStep DEF IInv, TypeOK, checkout, budget

LEMMA NextIInv == ASSUME IInv, [Next]_vars PROVE IInv'
<1>1. ASSUME NEW t \in Threads, Request(t) PROVE IInv'
  BY <1>1, RequestStep
<1>2. ASSUME NEW s \in Sessions, OpenSession(s) \/ AbandonSession(s) PROVE IInv'
  BY <1>2, OpenSessionStep, AbandonSessionStep
<1>3. CASE Ceremony
  BY <1>3, ApproveDeliveryStep, ExportDeliveryStep, PinApprovalStep, WritePackageStep DEF Ceremony
<1>4. CASE EditSource
  BY <1>4, EditSourceStep
<1>5. CASE Restart
  BY <1>5, RestartStep
<1>6. CASE UNCHANGED vars
  BY <1>6, StutterStep
<1> QED  BY <1>1, <1>2, <1>3, <1>4, <1>5, <1>6 DEF Next

(* The parts of the invariant hold together in every state, for any number *)
(* of requests, patches, sessions, edits and restarts.                     *)
THEOREM IInvHolds == Spec => []IInv
  BY InitIInv, NextIInv, PTL DEF Spec

(* What a package holds is what a person approved for that session: its    *)
(* fingerprints are those pinned to the chain, and its files have them     *)
(* unless a delivery replaced one while the package was being written.     *)
THEOREM ExportIsApproved == Spec => []ExportMatchesApproval
<1>1. IInv => ExportMatchesApproval
  BY DEF IInv, Sealed
<1> QED  BY <1>1, IInvHolds, PTL

(* A session that says delivered was verified and offered, and there is a  *)
(* commit of a patch it lists; a commit carries the reviewed source unless *)
(* the checkout was edited under it; verifications that come one after     *)
(* another stay within the authorised number of writes.                    *)
THEOREM LedgerIsSound == Spec => []LedgerSound
<1>1. IInv => DeliveredSoundly
  BY DEF IInv, Earned, Walked, DeliveredSoundly
<1>2. IInv => CommitsReviewedSource
  BY DEF IInv, Compared
<1>3. IInv => BudgetHoldsAlone
  BY DEF IInv, Counted, BudgetHoldsAlone
<1>4. IInv => LedgerSound
  BY <1>1, <1>2, <1>3 DEF LedgerSound
<1> QED  BY <1>4, IInvHolds, PTL

-----------------------------------------------------------------------------
(* Sessions of a process that is gone.                                     *)

(* A request writes on a session of this process only.                     *)
LEMMA RequestLeaves ==
    ASSUME IInv, NEW t \in Threads, Request(t), NEW s \in Sessions, session[s].owner # epoch
    PROVE  session'[s] = session[s] /\ epoch' = epoch
<1> TypeOK /\ Owned
  BY DEF IInv
<1> DEFINE Left == session'[s] = session[s] /\ epoch' = epoch
<1>1. ASSUME NEW r \in 0..MaxSessions, NEW p \in Patches, DeliverRepair(t, r, p) PROVE Left
  BY <1>1, DeliverRepairMoves DEF Elsewhere
<1>2. ASSUME NEW r \in 0..MaxSessions, NEW p \in Patches, VerifyCandidate(t, r, p) PROVE Left
  BY <1>2, VerifyCandidateMoves
<1>a. ASSUME thread[t].at \notin Outside \cup {"budgeted"} PROVE s # thread[t].s
  <2>1. CASE HasSession(t)
    BY <1>a, <2>1, OwnedSession DEF Own
  <2>2. CASE ~HasSession(t)
    BY <2>2 DEF HasSession, Sessions
  <2> QED  BY <2>1, <2>2
<1>3. CASE CheckSource(t)
  BY <1>3, <1>a, CheckSourceMoves DEF At, Outside, Written, Elsewhere
<1>4. CASE CheckCandidate(t)
  <2>1. session[s].st \notin Takes
    BY TakesActive DEF Owned
  <2> QED  BY <1>4, <2>1, CheckCandidateMoves DEF Written, Elsewhere
<1>5. CASE EnterCandidate(t)
  BY <1>5, <1>a, EnterCandidateMoves DEF At, Outside, Written, Elsewhere
<1>6. CASE AcquireLease(t)
  BY <1>6, AcquireLeaseMoves
<1>7. CASE Build(t)
  BY <1>7, BuildMoves DEF Elsewhere
<1>8. CASE Test(t)
  BY <1>8, <1>a, TestMoves DEF At, Outside, Grows, Elsewhere
<1>9. CASE Commit(t)
  BY <1>9, CommitMoves
<1>10. CASE Recheck(t)
  BY <1>10, RecheckMoves DEF Elsewhere
<1>11. CASE RejectDelivery(t)
  BY <1>11, <1>a, RejectDeliveryMoves DEF At, Outside, Grows, Elsewhere
<1>12. CASE Release(t)
  BY <1>12, ReleaseMoves
<1>13. CASE SaveDelivery(t)
  BY <1>13, SaveDeliveryMoves
<1>14. CASE RecordDelivered(t)
  BY <1>14, <1>a, RecordDeliveredMoves DEF At, Outside, Grows, Elsewhere
<1>15. CASE RejectCandidate(t)
  BY <1>15, <1>a, RejectCandidateMoves DEF At, Outside, Grows, Elsewhere
<1>16. CASE CountVerified(t)
  BY <1>16, CountVerifiedMoves
<1>17. CASE RecordVerified(t)
  BY <1>17, <1>a, RecordVerifiedMoves DEF At, Outside, Grows, Elsewhere
<1> QED  BY <1>1, <1>2, <1>3, <1>4, <1>5, <1>6, <1>7, <1>8, <1>9, <1>10, <1>11, <1>12, <1>13, <1>14,
            <1>15, <1>16, <1>17 DEF Request

(* Once its process is gone a session is closed, and no later request,     *)
(* abandonment, harvest or copy read before the restart changes it.        *)
THEOREM HarvestIsFinal == Spec => HarvestedStaysClosed
<1> DEFINE Closed(s) == epoch' # session[s].owner /\ session[s].st # "absent"
                          => session'[s].st \in Terminal /\ (epoch' = epoch => session'[s] = session[s])
<1>1. ASSUME IInv, NEW s \in Sessions, session[s].st # "absent", session[s].st \notin Active
      PROVE  session[s].st \in Terminal
  BY <1>1 DEF IInv, TypeOK, SessionRecord, States
<1>2. ASSUME IInv, NEW s \in Sessions, session[s].owner # epoch
      PROVE  session[s].st \notin Active
  BY <1>2 DEF IInv, Owned
<1>3. ASSUME IInv, NEW t \in Threads, Request(t), NEW s \in Sessions PROVE Closed(s)
  <2>1. CASE session[s].owner # epoch
    BY <1>1, <1>2, <1>3, <2>1, RequestLeaves
  <2>2. epoch' = epoch
    BY <1>3 DEF Request, DeliverRepair, VerifyCandidate, CheckSource, CheckCandidate, EnterCandidate,
                AcquireLease, Build, Test, Commit, Recheck, RejectDelivery, Release, SaveDelivery, SaveArtifact,
                RecordDelivered, RejectCandidate, CountVerified, RecordVerified
  <2> QED  BY <2>1, <2>2
<1>4. ASSUME IInv, NEW r \in Sessions, OpenSession(r), NEW s \in Sessions PROVE Closed(s)
  <2>1. /\ session[r].st = "absent" /\ epoch' = epoch /\ epoch \in Nat
        /\ \A q \in Sessions : q # r => session'[q] = Harvested(epoch)[q]
    BY <1>4, HarvestedSessions DEF OpenSession, IInv, TypeOK
  <2>2. ASSUME session[s].owner # epoch, session[s].st # "absent" PROVE session'[s] = session[s]
    BY <1>2, <1>4, <2>1, <2>2, HarvestedSessions DEF IInv
  <2> QED  BY <1>1, <1>2, <1>4, <2>1, <2>2
<1>5. ASSUME IInv, NEW r \in Sessions, AbandonSession(r), NEW s \in Sessions PROVE Closed(s)
  <2>1. session[r].st \in Active
    BY <1>5 DEF AbandonSession, CanTransition
  <2>2. epoch' = epoch /\ \A q \in Sessions : q # r => session'[q] = session[q]
    BY <1>5 DEF AbandonSession, IInv, TypeOK
  <2> QED  BY <1>1, <1>2, <1>5, <2>1, <2>2
<1>6. ASSUME IInv, UNCHANGED <<session, epoch>>, NEW s \in Sessions PROVE Closed(s)
  BY <1>1, <1>2, <1>6
<1>7. ASSUME IInv, Restart, NEW s \in Sessions PROVE Closed(s)
  <2>1. /\ epoch' = epoch + 1 /\ session' = Harvested(epoch + 1) /\ epoch \in Nat
        /\ session[s].owner \in Nat /\ session[s].owner <= epoch
    BY <1>7 DEF Restart, IInv, TypeOK, Owned, SessionRecord
  <2>2. epoch' # epoch /\ session[s].owner # epoch + 1
    BY <2>1
  <2>3. "abandoned" \in Terminal
    BY DEF Terminal
  <2>4. TypeOK /\ epoch + 1 \in Nat
    BY <1>7, <2>1 DEF IInv
  <2> QED  BY <1>1, <1>7, <2>1, <2>2, <2>3, <2>4, HarvestedSessions
<1>8. IInv /\ Next => \A s \in Sessions : Closed(s)
  <2> SUFFICES ASSUME IInv, Next, NEW s \in Sessions PROVE Closed(s)
    OBVIOUS
  <2> HIDE DEF Closed
  <2>1. Ceremony \/ EditSource => UNCHANGED <<session, epoch>>
    BY DEF Ceremony, ApproveDelivery, ExportDelivery, PinApproval, WritePackage, EditSource
  <2> QED  BY <1>3, <1>4, <1>5, <1>6, <1>7, <2>1 DEF Next
<1>9. IInv /\ [Next]_vars => [\A s \in Sessions : Closed(s)]_vars
  BY <1>8
<1> QED  BY <1>9, IInvHolds, PTL DEF Spec, HarvestedStaysClosed

=============================================================================
