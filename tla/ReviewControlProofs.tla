------------------------ MODULE ReviewControlProofs ------------------------
(* Proofs about ReviewControl, for any number of probes, calls and crashes *)
(* of the server.  Every action outside _transition_store is a move of one *)
(* thread (WorkerMoves, ClientMoves), every step inside it a CallStep; the *)
(* invariants are shown to survive those three, the launch, the crash and  *)
(* the restart.  Common holds whoever approves, and gives ResumeSound and  *)
(* CancelNotIgnored; LeaseInv holds when the event loop approves, and      *)
(* gives LeaseAgrees and WorkerSilent, which a round that approves breaks. *)
(* With LifeInv, ReviewControl implements ReviewLife (ReviewKeepsLife).    *)
EXTENDS ReviewControl, TLAPS

W == at["worker"]
O == at["operator"]
Calling(t) == call[t] # NoCall

(* What the variables the argument needs may hold.                         *)
Shape ==
    /\ at \in [Threads -> WorkerPlaces \cup ClientPlaces]
    /\ call \in [Threads -> Calls \cup {NoCall}]
    /\ snap \in Snapshots /\ stored \in Snapshots
    /\ unmatched \in Int /\ crashes \in Nat

(* A terminal change is said first, any other last.  Nothing leads back to *)
(* AWAITING_APPROVAL; only the worker completes, and only a restart forces *)
(* a status on a review beside it.                                         *)
CallsSane == \A t \in Threads : Calling(t) =>
    /\ call[t].step = "announce" => call[t].to \in Terminal
    /\ call[t].step = "publish" => call[t].to \notin Terminal
    /\ call[t].to # "AWAITING_APPROVAL"
    /\ t # "worker" => call[t].to # "COMPLETE" /\ (call[t].forced => call[t].to = "QUARANTINED")

(* A dead server runs nothing, and nothing is approved after a restart.    *)
OneRun ==
    /\ ~up => O = "idle" /\ ~Calling("operator") /\ crashes > 0
    /\ crashes > 0 => /\ W = "none" /\ ~Calling("worker")
                      /\ at["round"] = "idle" /\ ~Calling("round")
                      /\ O \notin {"approving", "launch"}
    /\ W = "none" => ~Calling("worker")
    /\ at[Approver] \in {"approving", "launch"} => W = "none"

(* The status is AWAITING_APPROVAL until the first change is assigned.     *)
Awaiting ==
    /\ W # "none" => snap.status # "AWAITING_APPROVAL"
    /\ \A t \in Threads : Calling(t) /\ call[t].step \in {"store", "publish"}
                             => snap.status # "AWAITING_APPROVAL"
    /\ at[Approver] = "launch" /\ ~Calling(Approver) => snap.status # "AWAITING_APPROVAL"

Base == Shape /\ CallsSane /\ OneRun /\ Awaiting

(* The intents of calls that are still to be answered, of a server that    *)
(* was restarted: only the operator's thread makes some.                   *)
Unsaid(c) == c.step = "announce" \/ (c # NoCall /\ c.to \notin Terminal)
Dirty == receipt = "started" \/ unmatched > (IF Unsaid(call["operator"]) THEN 1 ELSE 0)

RestartAbort(status, reason) == status = "ABORTED" /\ reason = "restart"

(* A review that was cut keeps the trace that made it suspect.             *)
CutStaysSuspect ==
    cut => /\ crashes > 0 /\ Dirty /\ O # "recovering"
           /\ Calling("operator") => ~RestartAbort(call["operator"].to, call["operator"].reason)
           /\ ~RestartAbort(snap.status, snap.reason)
           /\ ~RestartAbort(stored.status, stored.reason)

Completing ==
    /\ W = "ended" /\ Calling("worker") => call["worker"].to \in Terminal
    /\ Calling("worker") /\ call["worker"].to = "COMPLETE" => W = "ended"
    /\ snap.status = "COMPLETE" /\ crashes = 0 =>
          W = "ended" /\ (Calling("worker") => call["worker"].step = "store")

(* A cancellation accepted early is seen by the worker before it completes.*)
CancelSeen ==
    /\ O \in {"signalled", "accepted"} => cancelEvent
    /\ accepted = "early" =>
          /\ cancelEvent /\ crashes = 0
          /\ W \in {"synthesize", "finish", "final"} => cancelled
          /\ Calling("worker") => call["worker"].to # "COMPLETE"
          /\ snap.status # "COMPLETE"

(* From here on the event loop is who approves, and the round is idle.     *)
OneApprover == /\ Approver = "operator" /\ at["round"] = "idle" /\ ~Calling("round")
         /\ W \in WorkerPlaces /\ O \in ClientPlaces

Sweeping == {"early", "approving", "launch", "sweep", "abort", "swept", "recovering"}

Alone ==
    /\ O \in Sweeping => ~ThreadAlive
    /\ O \in {"early", "approving", "launch"} => W = "none"
    /\ Calling("operator") /\ call["operator"].to \in Terminal => ~ThreadAlive
    /\ Calling("worker") /\ (call["worker"].forced \/ call["worker"].to \in Terminal) => W = "ended"

Holding ==
    /\ W \notin {"none", "ended", "failing"} => lease /\ live
    /\ O = "launch" => lease
    /\ O \in {"approving", "launch"} => live /\ crashes = 0
    /\ O = "approving" => snap.status = "AWAITING_APPROVAL" /\ ~Calling("operator")
    /\ crashes = 0 /\ snap.status = "AWAITING_APPROVAL" => live /\ stored.status = "AWAITING_APPROVAL"
    /\ O = "swept" /\ ~Calling("operator") => snap.status # "AWAITING_APPROVAL"

Released ==
    /\ W = "ended" => ~lease
    /\ O \in {"early", "abort", "swept", "recovering"} => ~lease
    /\ Calling("operator") /\ call["operator"].to \in Terminal => ~lease
    /\ snap.status \in Terminal => ~lease
    /\ stored.status \in Terminal => ~lease
    /\ snap.status = "AWAITING_APPROVAL" /\ up /\ lease =>
          O = "launch" \/ (Calling("operator") /\ call["operator"].forced)

Silent ==
    ThreadAlive /\ ~(call["worker"].step = "store" /\ call["worker"].to \in Terminal)
        => snap.status \notin Terminal

Common == Base /\ CutStaysSuspect /\ Completing /\ CancelSeen
LeaseInv == OneApprover /\ Alone /\ Holding /\ Released /\ Silent
IInv == Common /\ LeaseInv

-----------------------------------------------------------------------------
(* Calls.                                                                  *)
Steps == {"announce", "check", "assign", "store", "publish"}

LEMMA CallFields ==
    ASSUME NEW c \in Calls
    PROVE  /\ c # NoCall /\ c.step \in Steps /\ c.to \in Statuses /\ c.reason \in Reasons
           /\ c.forced \in BOOLEAN /\ c.step # "none"
  BY DEF Calls, NoCall, Steps

LEMMA Advanced ==
    ASSUME NEW c \in Calls, NEW s \in Steps
    PROVE  /\ [c EXCEPT !.step = s] \in Calls
           /\ [c EXCEPT !.step = s].step = s
           /\ [c EXCEPT !.step = s].to = c.to
           /\ [c EXCEPT !.step = s].reason = c.reason
           /\ [c EXCEPT !.step = s].forced = c.forced
  BY DEF Calls, Steps

LEMMA CallsTyped ==
    ASSUME Shape, NEW t \in Threads, Calling(t)
    PROVE  call[t] \in Calls
  BY DEF Shape, Calling

(* The initial state.                                                      *)
LEMMA InitFacts ==
    ASSUME Init
    PROVE  /\ Shape
           /\ \A t \in Threads : ~Calling(t)
           /\ W = "none" /\ O = "idle" /\ at["round"] = "idle" /\ at[Approver] = "idle"
           /\ snap.status = "AWAITING_APPROVAL" /\ stored = snap
           /\ Threads = {"worker", "operator", "round"}
<1>1. /\ snap = [status |-> "AWAITING_APPROVAL", reason |-> "none"] /\ stored = snap
      /\ at = [t \in Threads |-> IF t = "worker" THEN "none" ELSE "idle"]
      /\ call = [t \in Threads |-> NoCall]
  BY DEF Init
<1>2. snap \in Snapshots
  BY <1>1 DEF Snapshots, Statuses, Reasons
<1>3. /\ at \in [Threads -> WorkerPlaces \cup ClientPlaces]
      /\ call \in [Threads -> Calls \cup {NoCall}]
  BY <1>1 DEF WorkerPlaces, ClientPlaces
<1>4. unmatched = 0 /\ crashes = 0
  BY DEF Init
<1>8. stored = snap
  BY <1>1
<1>7. Shape
  BY <1>2, <1>3, <1>4, <1>8 DEF Shape
<1>5. at["worker"] = "none" /\ at["operator"] = "idle" /\ at["round"] = "idle"
  BY <1>1 DEF Threads
<1>6. snap.status = "AWAITING_APPROVAL"
  BY <1>1
<1> QED
  BY <1>1, <1>7, <1>5, <1>6, ApproverAssumption DEF Calling, W, O, Threads

LEMMA InitCommon == Init => Common
<1> SUFFICES ASSUME Init PROVE Common
  OBVIOUS
<1>1. up /\ ~cut /\ crashes = 0 /\ accepted = "no"
  BY DEF Init
<1> QED
  BY <1>1, InitFacts DEF Common, Base, CallsSane, OneRun, Awaiting, CutStaysSuspect, Completing,
     CancelSeen

LEMMA InitIInv == Init /\ Approver = "operator" => IInv
<1> SUFFICES ASSUME Init, Approver = "operator" PROVE IInv
  OBVIOUS
<1>1. /\ up /\ ~lease /\ live /\ crashes = 0
      /\ "none" \in WorkerPlaces /\ "idle" \in ClientPlaces
  BY DEF Init, WorkerPlaces, ClientPlaces
<1> QED
  BY <1>1, InitFacts, InitCommon DEF IInv, LeaseInv, OneApprover, Alone, Holding, Released, Silent, ThreadAlive,
     Sweeping, Terminal, Calling

-----------------------------------------------------------------------------
(* A thread that moves alone: it goes to another place, and may call       *)
(* _transition_store.                                                      *)
Elsewhere(t) == \A u \in Threads \ {t} : at'[u] = at[u] /\ call'[u] = call[u]

Moved(t, place) ==
    /\ at' \in [Threads -> WorkerPlaces \cup ClientPlaces] /\ at'[t] = place
    /\ call' \in [Threads -> Calls \cup {NoCall}]
    /\ Elsewhere(t)

Walks(t, place) == Moved(t, place) /\ call'[t] = call[t] /\ unmatched' = unmatched

Starts(t, place, to, reason, forced) ==
    /\ Moved(t, place) /\ unmatched' = unmatched + 1
    /\ call'[t] \in Calls /\ call'[t] # NoCall
    /\ call'[t].step = IF to \in Terminal THEN "announce" ELSE "check"
    /\ call'[t].to = to /\ call'[t].reason = reason /\ call'[t].forced = forced

LEMMA GoToWalks ==
    ASSUME Shape, NEW t \in Threads, NEW place \in WorkerPlaces \cup ClientPlaces,
           GoTo(t, place), UNCHANGED <<call, unmatched>>
    PROVE  Walks(t, place)
  BY DEF Shape, GoTo, Walks, Moved, Elsewhere

LEMMA BeginStarts ==
    ASSUME Shape, NEW t \in Threads, NEW to \in Statuses, NEW reason \in Reasons,
           NEW forced \in BOOLEAN, NEW place \in WorkerPlaces \cup ClientPlaces,
           Begin(t, to, reason, forced, place)
    PROVE  Starts(t, place, to, reason, forced)
<1> DEFINE c == [step |-> IF to \in Terminal THEN "announce" ELSE "check",
                 to |-> to, reason |-> reason, forced |-> forced]
<1>1. c \in Calls
  BY DEF Calls
<1>2. /\ c # NoCall /\ c.step = IF to \in Terminal THEN "announce" ELSE "check"
      /\ c.to = to /\ c.reason = reason /\ c.forced = forced
  BY <1>1, CallFields
<1> HIDE DEF c
<1>3. call' = [call EXCEPT ![t] = c] /\ unmatched' = unmatched + 1 /\ GoTo(t, place)
  BY DEF Begin, c
<1>4. call' \in [Threads -> Calls \cup {NoCall}] /\ call'[t] = c
      /\ \A u \in Threads \ {t} : call'[u] = call[u]
  BY <1>1, <1>3 DEF Shape
<1>5. at' \in [Threads -> WorkerPlaces \cup ClientPlaces] /\ at'[t] = place
      /\ \A u \in Threads \ {t} : at'[u] = at[u]
  BY <1>3 DEF GoTo, Shape
<1> QED
  BY <1>1, <1>2, <1>3, <1>4, <1>5 DEF Starts, Moved, Elsewhere

(* A step of the worker that begins outside a call.                        *)
WorkerMoves(place) ==
    /\ W \notin {"none", "ended"} /\ ~Calling("worker") /\ place # "none"
    /\ W = "failing" => place = "ended"
    /\ UNCHANGED <<stored, up, snap, cancelEvent, crashes, accepted, cut>>
    /\ accepted = "early" /\ place \in {"synthesize", "finish", "final"} => cancelled'
    /\ IF place = "ended" THEN ~lease' ELSE lease' = lease /\ live' = live
    /\ \/ Walks("worker", place)
       \/ \E to \in Statuses, reason \in Reasons, forced \in BOOLEAN :
              /\ Starts("worker", place, to, reason, forced)
              /\ to # "AWAITING_APPROVAL" /\ (place = "ended" <=> to \in Terminal)
              /\ forced => place = "ended"
              /\ to = "COMPLETE" => place = "ended" /\ accepted # "early"

LEMMA WorkerMovesKeep ==
    ASSUME Common, NEW place \in WorkerPlaces, WorkerMoves(place)
    PROVE  Common'
<1>1. crashes = 0 /\ ~cut /\ up /\ snap.status # "AWAITING_APPROVAL"
  BY DEF WorkerMoves, Common, Base, OneRun, CutStaysSuspect, Shape, Awaiting
<1>2. /\ at' \in [Threads -> WorkerPlaces \cup ClientPlaces]
      /\ call' \in [Threads -> Calls \cup {NoCall}] /\ unmatched' \in Int
      /\ W' = place /\ O' = O /\ at'["round"] = at["round"] /\ at'[Approver] = at[Approver]
      /\ call'["operator"] = call["operator"] /\ call'["round"] = call["round"]
      /\ Approver \in Threads /\ Approver # "worker"
  BY ApproverAssumption DEF WorkerMoves, Walks, Starts, Moved, Elsewhere, W, O, Threads,
     Common, Base, Shape
<1>3. \/ call'["worker"] = NoCall
      \/ /\ call'["worker"] \in Calls /\ call'["worker"] # NoCall
         /\ call'["worker"].step \in {"announce", "check"}
         /\ call'["worker"].step = "announce" => call'["worker"].to \in Terminal
         /\ call'["worker"].to # "AWAITING_APPROVAL"
         /\ place = "ended" => call'["worker"].to \in Terminal
         /\ call'["worker"].to = "COMPLETE" => place = "ended" /\ accepted # "early"
  BY DEF WorkerMoves, Walks, Starts, Calling
<1>4. Base'
  BY <1>1, <1>2, <1>3 DEF WorkerMoves, Common, Base, Shape, CallsSane, OneRun, Awaiting,
     Calling, Threads, W
<1>5. CutStaysSuspect' /\ Completing'
  BY <1>1, <1>2, <1>3 DEF WorkerMoves, Common, CutStaysSuspect, Completing, Calling
<1>6. CancelSeen'
  BY <1>1, <1>2, <1>3 DEF WorkerMoves, Common, CancelSeen, Calling
<1> QED
  BY <1>4, <1>5, <1>6 DEF Common

(* A step of the event loop or of the round that begins outside a call.    *)
ClientMoves(t, place) ==
    /\ t \in {"operator", "round"} /\ ~Calling(t) /\ up
    /\ t = "round" => t = Approver /\ crashes = 0
    /\ UNCHANGED <<stored, receipt, up, snap, crashes, cut, cancelled>>
    /\ place \in {"approving", "launch"} => t = Approver /\ W = "none" /\ crashes = 0
    /\ place = "recovering" => ~cut
    /\ place \in {"signalled", "accepted"} => cancelEvent'
    /\ cancelEvent => cancelEvent'
    /\ \/ UNCHANGED accepted
       \/ /\ cancelEvent /\ UNCHANGED cancelEvent
          /\ accepted' = "early" => WillLook \/ accepted = "early"
    /\ \/ Walks(t, place) /\ place # "launch"
       \/ \E to \in Statuses, reason \in Reasons, forced \in BOOLEAN :
              /\ Starts(t, place, to, reason, forced)
              /\ to \notin {"AWAITING_APPROVAL", "COMPLETE"}
              /\ forced => to = "QUARANTINED"
              /\ RestartAbort(to, reason) => ~cut

LEMMA ClientMovesKeep ==
    ASSUME Common, NEW t, NEW place \in ClientPlaces, ClientMoves(t, place)
    PROVE  Common'
<1>1. /\ t \in Threads /\ t # "worker" /\ Approver \in Threads /\ Approver # "worker"
      /\ Threads = {"worker", "operator", "round"}
  BY ApproverAssumption DEF ClientMoves, Threads
<1>2. /\ at' \in [Threads -> WorkerPlaces \cup ClientPlaces]
      /\ call' \in [Threads -> Calls \cup {NoCall}] /\ unmatched' \in Int
      /\ W' = W /\ call'["worker"] = call["worker"] /\ at'[t] = place
      /\ \A u \in Threads : u # t => at'[u] = at[u] /\ call'[u] = call[u]
  BY <1>1 DEF ClientMoves, Walks, Starts, Moved, Elsewhere, W, Common, Base, Shape
<1>3. \/ call'[t] = NoCall /\ place # "launch" /\ unmatched' = unmatched
      \/ /\ call'[t] \in Calls /\ call'[t] # NoCall
         /\ call'[t].step \in {"announce", "check"}
         /\ call'[t].step = "announce" <=> call'[t].to \in Terminal
         /\ call'[t].to \notin {"AWAITING_APPROVAL", "COMPLETE"}
         /\ call'[t].forced => call'[t].to = "QUARANTINED"
         /\ RestartAbort(call'[t].to, call'[t].reason) => ~cut
         /\ unmatched' = unmatched + 1
  BY DEF ClientMoves, Walks, Starts, Calling
<1>4. Shape' /\ CallsSane'
  BY <1>1, <1>2, <1>3 DEF ClientMoves, Common, Base, Shape, CallsSane, Calling
<1>5. OneRun'
  BY <1>1, <1>2, <1>3 DEF ClientMoves, Common, Base, OneRun, Calling, O, W
<1>6. Awaiting'
  BY <1>1, <1>2, <1>3 DEF ClientMoves, Common, Base, Awaiting, Calling, O, W
<1>7. CutStaysSuspect'
  <2>1. cut => t = "operator" /\ place # "recovering"
    BY DEF ClientMoves, Common, Base, CutStaysSuspect, Shape
  <2>2. cut /\ receipt # "started" => unmatched' > (IF Unsaid(call["operator"])' THEN 1 ELSE 0)
    <3> SUFFICES ASSUME cut, receipt # "started"
                 PROVE  unmatched' > (IF Unsaid(call["operator"])' THEN 1 ELSE 0)
      OBVIOUS
    <3>1. unmatched \in Int /\ ~Calling("operator") /\ ~Unsaid(call["operator"])
      BY <2>1 DEF ClientMoves, Common, Base, Shape, Unsaid, Calling, NoCall
    <3>2. unmatched > 0
      BY <3>1 DEF Common, CutStaysSuspect, Dirty
    <3>3. CASE call'[t] = NoCall /\ unmatched' = unmatched
      <4>1. ~Unsaid(call["operator"])'
        BY <2>1, <3>3 DEF Unsaid, NoCall
      <4> QED
        BY <3>1, <3>2, <3>3, <4>1
    <3> QED
      BY <1>3, <3>1, <3>2, <3>3
  <2> QED
    BY <1>1, <1>2, <1>3, <2>1, <2>2 DEF ClientMoves, Common, CutStaysSuspect, Dirty, Calling, O
<1>8. Completing'
  BY <1>1, <1>2 DEF ClientMoves, Common, Completing, Calling
<1>9. CancelSeen'
  <2>1. WillLook => /\ W \notin {"synthesize", "finish", "final", "none", "ended"}
                    /\ crashes = 0 /\ snap.status # "COMPLETE"
                    /\ Calling("worker") => call["worker"].to # "COMPLETE"
    BY DEF WillLook, W, Common, Base, OneRun, Completing, Shape
  <2>2. place \in {"signalled", "accepted"} => cancelEvent'
    BY DEF ClientMoves
  <2>3. O' = place \/ O' = O
    BY <1>1, <1>2 DEF O
  <2> QED
    BY <1>1, <1>2, <2>1, <2>2, <2>3 DEF ClientMoves, Common, CancelSeen, Calling
<1> QED
  BY <1>4, <1>5, <1>6, <1>7, <1>8, <1>9 DEF Common, Base

-----------------------------------------------------------------------------
(* The steps of a call.                                                    *)
Proceeds(t, step) ==
    /\ call' \in [Threads -> Calls \cup {NoCall}]
    /\ call'[t] \in Calls /\ call'[t] # NoCall
    /\ call'[t].step = step /\ call'[t].to = call[t].to
    /\ call'[t].reason = call[t].reason /\ call'[t].forced = call[t].forced
    /\ \A u \in Threads \ {t} : call'[u] = call[u]

Ends(t) ==
    /\ call' \in [Threads -> Calls \cup {NoCall}] /\ call'[t] = NoCall
    /\ \A u \in Threads \ {t} : call'[u] = call[u]

LEMMA AdvanceProceeds ==
    ASSUME Shape, NEW t \in Threads, NEW s \in Steps, Calling(t), Advance(t, s)
    PROVE  Proceeds(t, s)
<1> DEFINE c == [call[t] EXCEPT !.step = s]
<1>1. c \in Calls /\ c.step = s /\ c.to = call[t].to /\ c.reason = call[t].reason
      /\ c.forced = call[t].forced
  BY CallsTyped, Advanced
<1>2. c # NoCall
  BY <1>1, CallFields
<1> HIDE DEF c
<1>3. call' = [call EXCEPT ![t] = c]
  BY DEF Advance, c
<1> QED
  BY <1>1, <1>2, <1>3 DEF Proceeds, Shape

LEMMA DropEnds ==
    ASSUME Shape, NEW t \in Threads, call' = [call EXCEPT ![t] = NoCall]
    PROVE  Ends(t)
  BY DEF Shape, Ends

(* What a step of a call does, with what it is about.                      *)
CallStep(t) ==
    /\ up /\ Calling(t) /\ UNCHANGED <<up, receipt, cancelEvent, live, cancelled, crashes, accepted, cut>>
    /\ \/ /\ call[t].step = "announce" /\ Proceeds(t, "check") /\ unmatched' = unmatched - 1
          /\ UNCHANGED <<stored, snap, at, lease>>
       \/ /\ call[t].step = "publish" /\ Ends(t) /\ unmatched' = unmatched - 1
          /\ UNCHANGED <<stored, snap, at, lease>>
       \/ /\ call[t].step = "check" /\ Permitted(call[t]) /\ Proceeds(t, "assign")
          /\ UNCHANGED <<stored, snap, at, lease, unmatched>>
       \/ /\ call[t].step = "check" /\ ~Permitted(call[t]) /\ Ends(t)
          /\ \E place \in {"ended", "failing", "idle"} :
                 /\ place = "idle" <=> t # "worker"
                 /\ place = "ended" => call[t].forced
                 /\ at' \in [Threads -> WorkerPlaces \cup ClientPlaces] /\ at'[t] = place
                 /\ \A u \in Threads \ {t} : at'[u] = at[u]
          /\ lease' = IF at[t] = "launch" THEN FALSE ELSE lease
          /\ UNCHANGED <<stored, snap, unmatched>>
       \/ /\ call[t].step = "assign" /\ Proceeds(t, "store")
          /\ snap' \in Snapshots /\ snap'.status = call[t].to /\ snap'.reason = call[t].reason
          /\ UNCHANGED <<stored, at, lease, unmatched>>
       \/ /\ call[t].step = "store"
          /\ stored' \in Snapshots
          /\ stored' = snap \/ (stored'.status = call[t].to /\ stored'.reason = call[t].reason)
          /\ IF call[t].to \in Terminal THEN Ends(t) ELSE Proceeds(t, "publish")
          /\ UNCHANGED <<snap, at, lease, unmatched>>

LEMMA TransitionSteps ==
    ASSUME Shape, NEW t \in Threads, TransitionStep(t)
    PROVE  CallStep(t)
<1>1. Calling(t)
  <2>1. call[t].step \in Steps
    BY DEF TransitionStep, Say, Check, Reject, Assign, Store, Write, Steps
  <2>2. NoCall.step \notin Steps
    BY DEF NoCall, Steps
  <2> QED
    BY <2>1, <2>2 DEF Calling
<1>2. call[t] \in Calls /\ call[t].to \in Statuses /\ call[t].reason \in Reasons
  BY <1>1, CallsTyped, CallFields
<1>3. CASE Say(t)
  <2>1. CASE call[t].step = "announce"
    <3>1. Proceeds(t, "check")
      BY <1>1, <1>3, <2>1, AdvanceProceeds DEF Say, Steps
    <3> QED
      BY <1>1, <1>3, <2>1, <3>1 DEF Say, CallStep, run, history
  <2>2. CASE call[t].step = "publish"
    <3>1. Ends(t)
      BY <1>3, <2>2, DropEnds DEF Say
    <3> QED
      BY <1>1, <1>3, <2>2, <3>1 DEF Say, CallStep, run, history
  <2> QED
    BY <1>3, <2>1, <2>2 DEF Say
<1>4. CASE Check(t)
  BY <1>1, <1>4, AdvanceProceeds DEF Check, CallStep, Steps, run, history, disk
<1>5. CASE Reject(t)
  <2> DEFINE place == IF t # "worker" THEN "idle" ELSE IF call[t].forced THEN "ended" ELSE "failing"
  <2>1. place \in {"ended", "failing", "idle"} /\ (place = "idle" <=> t # "worker")
        /\ (place = "ended" => call[t].forced)
    OBVIOUS
  <2>2. place \in WorkerPlaces \cup ClientPlaces
    BY DEF WorkerPlaces, ClientPlaces
  <2>3. GoTo(t, place)
    BY <1>5 DEF Reject
  <2>4. /\ at' \in [Threads -> WorkerPlaces \cup ClientPlaces] /\ at'[t] = place
        /\ \A u \in Threads \ {t} : at'[u] = at[u]
    BY <2>2, <2>3 DEF GoTo, Shape
  <2> HIDE DEF place
  <2> QED
    BY <1>1, <1>5, <2>1, <2>4, DropEnds DEF Reject, CallStep, run, history
<1>6. CASE Assign(t)
  <2>1. snap' = [status |-> call[t].to, reason |-> call[t].reason]
    BY <1>6 DEF Assign
  <2>2. snap' \in Snapshots /\ snap'.status = call[t].to /\ snap'.reason = call[t].reason
    BY <1>2, <2>1 DEF Snapshots
  <2> QED
    BY <1>1, <1>6, <2>2, AdvanceProceeds DEF Assign, CallStep, Steps, run, history, disk
<1>7. CASE Store(t)
  <2>1. stored' = snap \/ stored' = [status |-> call[t].to, reason |-> call[t].reason]
    BY <1>7 DEF Store, Write
  <2>2. /\ stored' \in Snapshots
        /\ stored' = snap \/ (stored'.status = call[t].to /\ stored'.reason = call[t].reason)
    BY <1>2, <2>1 DEF Snapshots, Shape
  <2> QED
    BY <1>1, <1>7, <2>2, AdvanceProceeds, DropEnds DEF Store, Write, CallStep, Steps, run, history
<1> QED
  BY <1>3, <1>4, <1>5, <1>6, <1>7 DEF TransitionStep

LEMMA CallStepKeeps ==
    ASSUME Common, NEW t \in Threads, CallStep(t)
    PROVE  Common'
<1>1. /\ Threads = {"worker", "operator", "round"} /\ Approver \in Threads /\ Approver # "worker"
      /\ call[t] \in Calls /\ call[t] # NoCall
      /\ crashes > 0 => t = "operator"
  BY ApproverAssumption, CallsTyped DEF Threads, CallStep, Common, Base, OneRun, Calling
<1>2. /\ at' \in [Threads -> WorkerPlaces \cup ClientPlaces]
      /\ call' \in [Threads -> Calls \cup {NoCall}]
      /\ \A u \in Threads : u # t => at'[u] = at[u] /\ call'[u] = call[u]
      /\ at'[t] = at[t] \/ (t # "worker" /\ at'[t] = "idle") \/ (t = "worker" /\ at'[t] \in {"ended", "failing"})
      /\ unmatched' \in Int /\ crashes' \in Nat
      /\ snap' \in Snapshots /\ stored' \in Snapshots
  <2>1. /\ call' \in [Threads -> Calls \cup {NoCall}]
        /\ \A u \in Threads : u # t => call'[u] = call[u]
    BY DEF CallStep, Proceeds, Ends
  <2>2. /\ at' \in [Threads -> WorkerPlaces \cup ClientPlaces]
        /\ \A u \in Threads : u # t => at'[u] = at[u]
        /\ at'[t] = at[t] \/ (t # "worker" /\ at'[t] = "idle") \/ (t = "worker" /\ at'[t] \in {"ended", "failing"})
    <3>1. CASE UNCHANGED at
      BY <3>1 DEF Common, Base, Shape
    <3>2. CASE call[t].step = "check" /\ ~UNCHANGED at
      BY <3>2 DEF CallStep
    <3> QED
      BY <3>1, <3>2 DEF CallStep
  <2>3. unmatched' \in Int /\ crashes' \in Nat /\ snap' \in Snapshots /\ stored' \in Snapshots
    <3>1. crashes' = crashes
          /\ (unmatched' = unmatched \/ unmatched' = unmatched - 1)
          /\ (snap' = snap \/ snap' \in Snapshots)
          /\ (stored' = stored \/ stored' \in Snapshots)
      BY DEF CallStep
    <3> QED
      BY <3>1 DEF Common, Base, Shape
  <2> QED
    BY <2>1, <2>2, <2>3
<1>3. \/ call'[t] = NoCall
      \/ /\ call'[t] \in Calls /\ call'[t] # NoCall
         /\ call'[t].to = call[t].to /\ call'[t].reason = call[t].reason
         /\ call'[t].forced = call[t].forced
         /\ \/ call[t].step = "announce" /\ call'[t].step = "check"
            \/ call[t].step = "check" /\ call'[t].step = "assign"
            \/ call[t].step = "assign" /\ call'[t].step = "store"
            \/ call[t].step = "store" /\ call'[t].step = "publish" /\ call[t].to \notin Terminal
  BY DEF CallStep, Proceeds, Ends
<1>4. \/ snap' = snap
      \/ call[t].step = "assign" /\ snap'.status = call[t].to /\ snap'.reason = call[t].reason
  BY DEF CallStep
<1>5. \/ stored' = stored \/ stored' = snap
      \/ stored'.status = call[t].to /\ stored'.reason = call[t].reason
  BY DEF CallStep
<1>6. /\ call[t].step = "announce" => call[t].to \in Terminal
      /\ call[t].step = "publish" => call[t].to \notin Terminal
      /\ call[t].to # "AWAITING_APPROVAL"
      /\ t # "worker" => call[t].to # "COMPLETE" /\ (call[t].forced => call[t].to = "QUARANTINED")
  BY DEF Common, Base, CallsSane, CallStep
<1>7. Shape'
  BY <1>2 DEF Shape
<1>8. CallsSane'
  BY <1>1, <1>2, <1>3, <1>6 DEF CallsSane, Common, Base, Calling
<1>9. OneRun'
  BY <1>1, <1>2, <1>3 DEF OneRun, Common, Base, Calling, O, W, CallStep
<1>10. Awaiting'
  <2>1. call'[t] # NoCall /\ call'[t].step \in {"store", "publish"} =>
           call[t].step \in {"assign", "store"}
    BY <1>3
  <2>2. snap.status # "AWAITING_APPROVAL" => snap'.status # "AWAITING_APPROVAL"
    BY <1>4, <1>6
  <2>3. call[t].step \in {"assign", "store", "publish"} => snap'.status # "AWAITING_APPROVAL"
    BY <1>4, <1>6, <2>2 DEF Common, Base, Awaiting, CallStep, Calling
  <2>4. W' # "none" => snap'.status # "AWAITING_APPROVAL"
    <3>1. W' # "none" => W # "none"
      BY <1>1, <1>2 DEF W, Common, Base, OneRun, Calling, CallStep
    <3> QED
      BY <2>2, <3>1 DEF Common, Base, Awaiting
  <2>5. at'[Approver] = "launch" /\ call'[Approver] = NoCall => snap'.status # "AWAITING_APPROVAL"
    <3>1. CASE t = Approver /\ call'[t] = NoCall /\ at'[t] = "launch"
      <4>1. call[t].step \in {"store", "publish"}
        BY <1>1, <3>1 DEF CallStep, Proceeds
      <4> QED
        BY <2>3, <4>1
    <3>2. CASE t # Approver
      BY <1>1, <1>2, <2>2, <3>2 DEF Common, Base, Awaiting, Calling
    <3> QED
      BY <3>1, <3>2
  <2>6. \A u \in Threads : call'[u] # NoCall /\ call'[u].step \in {"store", "publish"}
                              => snap'.status # "AWAITING_APPROVAL"
    BY <1>2, <2>1, <2>2, <2>3 DEF Common, Base, Awaiting, Calling
  <2> QED
    BY <2>4, <2>5, <2>6 DEF Awaiting, Calling, W
<1>11. CutStaysSuspect'
  <2> SUFFICES ASSUME cut, CallStep(t) PROVE CutStaysSuspect'
    BY DEF CallStep, CutStaysSuspect
  <2>1. t = "operator" /\ crashes > 0 /\ O # "recovering"
        /\ ~RestartAbort(call[t].to, call[t].reason)
        /\ ~RestartAbort(snap.status, snap.reason)
        /\ ~RestartAbort(stored.status, stored.reason)
    BY <1>1 DEF Common, CutStaysSuspect, Calling, Base, Shape
  <2>2. ~RestartAbort(snap'.status, snap'.reason) /\ ~RestartAbort(stored'.status, stored'.reason)
    BY <1>4, <1>5, <2>1 DEF RestartAbort
  <2>3. O' # "recovering" /\ (call'[t] # NoCall => ~RestartAbort(call'[t].to, call'[t].reason))
    BY <1>2, <1>3, <2>1 DEF O
  <2>4. Dirty'
    <3>1. CASE receipt = "started"
      BY <3>1 DEF CallStep, Dirty
    <3>2. CASE receipt # "started"
      <4>1. unmatched > (IF Unsaid(call["operator"]) THEN 1 ELSE 0) /\ unmatched \in Int
        BY <3>2 DEF Common, CutStaysSuspect, Dirty, Base, Shape
      <4>2. CASE call[t].step \in {"announce", "publish"}
        <5>1. Unsaid(call["operator"]) /\ unmatched' = unmatched - 1
          <6>1. unmatched' = unmatched - 1
            BY <4>2 DEF CallStep
          <6>2. call[t].step = "publish" => call[t].to \notin Terminal
            BY <1>6
          <6> QED
            BY <1>1, <2>1, <4>2, <6>1, <6>2 DEF Unsaid
        <5>2. ~Unsaid(call["operator"])'
          <6>1. CASE call[t].step = "announce"
            <7>1. call'[t].step = "check" /\ call'[t].to \in Terminal
              BY <1>6, <6>1 DEF CallStep, Proceeds
            <7> QED
              BY <2>1, <7>1 DEF Unsaid
          <6>2. CASE call[t].step = "publish"
            <7>1. call'[t] = NoCall
              BY <6>2 DEF CallStep, Ends
            <7> QED
              BY <2>1, <7>1 DEF Unsaid, NoCall
          <6> QED
            BY <4>2, <6>1, <6>2
        <5> QED
          BY <4>1, <5>1, <5>2 DEF Dirty
      <4>3. CASE call[t].step \notin {"announce", "publish"}
        <5>1. unmatched' = unmatched
          BY <4>3 DEF CallStep
        <5>2. Unsaid(call["operator"])' => Unsaid(call["operator"])
          BY <1>1, <1>3, <2>1, <4>3 DEF Unsaid, NoCall
        <5> QED
          BY <4>1, <5>1, <5>2 DEF Dirty
      <4> QED
        BY <4>2, <4>3
    <3> QED
      BY <3>1, <3>2
  <2> QED
    BY <2>1, <2>2, <2>3, <2>4 DEF CutStaysSuspect, Calling, CallStep
<1>12. Completing'
  <2>1. CASE t = "worker"
    <3>1. /\ W = "ended" => call[t].to \in Terminal
          /\ call[t].to = "COMPLETE" => W = "ended"
          /\ snap.status = "COMPLETE" /\ crashes = 0 => W = "ended" /\ call[t].step = "store"
      BY <2>1 DEF Common, Completing, CallStep
    <3>2. crashes' = crashes /\ (call'[t] # NoCall => at'[t] = at[t])
      BY <1>1 DEF CallStep, Proceeds, Ends
    <3>3. call[t].step \notin {"check"} => at'[t] = at[t]
      BY DEF CallStep
    <3>4. call[t].step = "assign" => call'[t].step = "store"
      BY <1>1 DEF CallStep, Proceeds
    <3>5. call[t].step = "store" /\ call[t].to \in Terminal => call'[t] = NoCall
      BY DEF CallStep, Ends
    <3> QED
      BY <1>1, <1>3, <1>4, <2>1, <3>1, <3>2, <3>3, <3>4, <3>5 DEF Completing, Calling, W
  <2>2. CASE t # "worker"
    BY <1>1, <1>2, <1>4, <1>6, <2>2 DEF Common, Completing, CallStep, Calling, W
  <2> QED
    BY <2>1, <2>2
<1>13. CancelSeen'
  <2>1. O' = O \/ O' = "idle"
    BY <1>1, <1>2 DEF O
  <2>2. W' = W \/ W' \in {"ended", "failing"}
    BY <1>1, <1>2 DEF W
  <2>3. accepted = "early" => snap'.status # "COMPLETE" /\
           (call'["worker"] # NoCall => call'["worker"].to # "COMPLETE")
    BY <1>1, <1>2, <1>3, <1>4, <1>6 DEF Common, CancelSeen, Calling, CallStep
  <2> QED
    BY <2>1, <2>2, <2>3 DEF Common, CancelSeen, Calling, CallStep
<1> QED
  BY <1>7, <1>8, <1>9, <1>10, <1>11, <1>12, <1>13 DEF Common, Base

-----------------------------------------------------------------------------
(* The actions are moves of their threads.                                 *)
WorkerStays == UNCHANGED <<stored, up, snap, cancelEvent, crashes, accepted, cut>>

LEMMA WorkerWalks ==
    ASSUME Common, W \notin {"none", "ended"}, ~Calling("worker"), WorkerStays,
           NEW place \in WorkerPlaces \ {"none"}, GoTo("worker", place), UNCHANGED <<call, unmatched>>,
           W = "failing" => place = "ended",
           accepted = "early" /\ place \in {"synthesize", "finish", "final"} => cancelled',
           IF place = "ended" THEN ~lease' ELSE lease' = lease /\ live' = live
    PROVE  WorkerMoves(place)
<1>1. Walks("worker", place)
  BY GoToWalks DEF Common, Base, Threads
<1> QED
  BY <1>1 DEF WorkerMoves, WorkerStays

LEMMA WorkerStarts ==
    ASSUME Common, W \notin {"none", "ended"}, ~Calling("worker"), WorkerStays,
           NEW place \in WorkerPlaces \ {"none"}, NEW to \in Statuses \ {"AWAITING_APPROVAL"},
           NEW reason \in Reasons, NEW forced \in BOOLEAN, Begin("worker", to, reason, forced, place),
           W = "failing" => place = "ended",
           accepted = "early" /\ place \in {"synthesize", "finish", "final"} => cancelled',
           IF place = "ended" THEN ~lease' ELSE lease' = lease /\ live' = live,
           place = "ended" <=> to \in Terminal, forced => place = "ended",
           to = "COMPLETE" => accepted # "early"
    PROVE  WorkerMoves(place)
<1>1. Starts("worker", place, to, reason, forced)
  BY BeginStarts DEF Common, Base, Threads
<1> QED
  BY <1>1 DEF WorkerMoves, WorkerStays, Terminal

(* What the literals of the actions are members of.                        *)
LEMMA Literals ==
    /\ {"begin", "aborting", "baseline", "polled_baseline", "loop", "probe", "polled_probe", "next",
        "waiting", "closing", "synthesize", "finish", "final", "failing", "ended"}
           = WorkerPlaces \ {"none"}
    /\ {"BASELINE_RUNNING", "EXECUTING", "VERIFYING_RESTORE", "SYNTHESIZING", "CANCELLING",
        "AWAITING_HUMAN", "PLAN_FROZEN", "COMPLETE", "FAILED", "ABORTED", "RECOVERING",
        "CLEANUP_REQUIRED", "QUARANTINED"} = Statuses \ {"AWAITING_APPROVAL"}
    /\ {"none", "user", "error", "restart", "cleanup"} = Reasons
  BY DEF WorkerPlaces, Tools, Statuses, Running, Terminal, Reasons

LEMMA WorkerActs ==
    ASSUME Common, WorkerStep
    PROVE  \E place \in WorkerPlaces : WorkerMoves(place)
<1> USE DEF Transition, Terminal
<1>1. ~Calling("worker") /\ W \notin {"none", "ended"}
  BY DEF WorkerStep, BeginRun, AbortBeforeRun, StartTool, EndTool, Poll, Loop, NextAction, AwaitHuman,
     Close, Synthesize, Finish, Fail, Worker, At, Calling, W, Tools
<1>2. CASE BeginRun
  BY <1>1, <1>2, WorkerWalks, WorkerStarts, Literals
     DEF BeginRun, ObserveCancel, WorkerStays, Worker, At, W, run, history
<1>3. CASE AbortBeforeRun
  BY <1>1, <1>3, WorkerStarts, Literals DEF AbortBeforeRun, PrepareTerminal, WorkerStays, Worker, At, W, run, history
<1>4. CASE StartTool
  <2>1. W \in WorkerPlaces /\ Walks("worker", W)
    BY <1>4 DEF StartTool, Walks, Moved, Elsewhere, Common, Base, Shape, W, Tools, WorkerPlaces, run
  <2>2. W \notin {"ended", "failing"} /\ (accepted = "early" /\ W \in {"synthesize", "finish", "final"} => cancelled')
    BY <1>1, <1>4 DEF StartTool, Common, CancelSeen, Tools, W, run
  <2> QED
    BY <1>1, <1>4, <2>1, <2>2 DEF StartTool, WorkerMoves, run, history
<1>5. CASE EndTool
  <2>1. W = "finish" /\ accepted = "early" => cancelled'
    BY <1>5 DEF EndTool, Common, CancelSeen
  <2>2. CASE GoTo("worker", "failing")
    BY <1>1, <1>5, <2>2, WorkerWalks, Literals DEF EndTool, Tools, WorkerStays, Worker, At, W, history
  <2>3. CASE W = "baseline" /\ GoTo("worker", "polled_baseline")
    BY <1>1, <1>5, <2>3, WorkerWalks, Literals DEF EndTool, WorkerStays, Worker, At, W, history
  <2>4. CASE W = "probe" /\ GoTo("worker", "polled_probe")
    BY <1>1, <1>5, <2>4, WorkerWalks, Literals DEF EndTool, WorkerStays, Worker, At, W, history
  <2>5. CASE W = "finish" /\ GoTo("worker", "final")
    BY <1>1, <1>5, <2>1, <2>5, WorkerWalks, Literals DEF EndTool, WorkerStays, Worker, At, W, history
  <2> QED
    BY <1>5, <2>2, <2>3, <2>4, <2>5 DEF EndTool, Tools, W
<1>6. CASE Poll
  BY <1>1, <1>6, WorkerWalks, WorkerStarts, Literals
     DEF Poll, ObserveCancel, WorkerStays, Worker, At, W, history
<1>7. CASE Loop
  BY <1>1, <1>7, WorkerWalks, WorkerStarts, Literals
     DEF Loop, ObserveCancel, WorkerStays, Worker, At, W, history
<1>8. CASE NextAction
  BY <1>1, <1>8, WorkerWalks, WorkerStarts, Literals
     DEF NextAction, WorkerStays, Worker, At, W, history
<1>9. CASE AwaitHuman
  BY <1>1, <1>9, WorkerWalks, WorkerStarts, Literals
     DEF AwaitHuman, WorkerStays, Worker, At, W, run, history
<1>10. CASE Close
  <2>1. accepted = "early" => cancelEvent
    BY DEF Common, CancelSeen
  <2> QED
    BY <1>1, <1>10, <2>1, WorkerWalks, WorkerStarts, Literals
       DEF Close, NotCancelled, ObserveCancel, WorkerStays, Worker, At, W, history
<1>11. CASE Synthesize
  <2>1. accepted = "early" => cancelled
    BY <1>11 DEF Common, CancelSeen, Synthesize, Worker, At, W
  <2> QED
    BY <1>1, <1>11, <2>1, WorkerStarts, Literals DEF Synthesize, WorkerStays, Worker, At, W, run, history
<1>12. CASE Finish
  <2>1. accepted = "early" => cancelled
    BY <1>12 DEF Common, CancelSeen, Finish, Worker, At, W
  <2> QED
    BY <1>1, <1>12, <2>1, WorkerStarts, Literals DEF Finish, PrepareTerminal, WorkerStays, Worker, At, W, run, history
<1>13. CASE Fail
  BY <1>1, <1>13, WorkerWalks, WorkerStarts, Literals
     DEF Fail, PrepareTerminal, WorkerStays, Worker, At, W, run, history
<1> QED
  BY <1>2, <1>3, <1>4, <1>5, <1>6, <1>7, <1>8, <1>9, <1>10, <1>11, <1>12, <1>13 DEF WorkerStep

(* The lease and the live slot in a step of the thread t, and where it may *)
(* go from where it is.                                                    *)
Tidy(t, place) ==
    /\ lease => lease' \/ at[t] = "sweep"
    /\ lease' => lease \/ place = "launch"
    /\ live => live' \/ at[t] = "swept"
    /\ at[t] # "launch"
    /\ place = "launch" => at[t] = "approving" /\ lease'
    /\ place \in {"early", "approving"} =>
          snap.status = "AWAITING_APPROVAL" /\ call'[t] = NoCall /\ at[t] = "idle"
    /\ place = "approving" => crashes = 0
    /\ place = "sweep" => ~ThreadAlive
    /\ place = "abort" => at[t] = "sweep" /\ ~lease'
    /\ place = "swept" => \/ at[t] \in {"early", "abort"} /\ call'[t] # NoCall
                          \/ at[t] = "sweep" /\ ~lease' /\ snap.status \in Terminal
    /\ place = "recovering" => at[t] = "recovering"
    /\ call'[t] # NoCall /\ call'[t].to \in Terminal => at[t] \in {"early", "abort", "recovering"}

ClientStays == UNCHANGED <<stored, receipt, up, snap, crashes, cut, cancelled>>

(* What a client's step leaves alone, and the place it goes to, as facts   *)
(* the lemmas above take.                                                  *)
LEMMA ClientWalks ==
    ASSUME Common, NEW t \in {"operator", "round"}, NEW place \in ClientPlaces,
           At(t, at[t]), GoTo(t, place), UNCHANGED <<call, unmatched>>
    PROVE  Walks(t, place) /\ ~Calling(t) /\ call'[t] = NoCall /\ up
  BY GoToWalks DEF Common, Base, Threads, At, Calling

LEMMA ClientStarts ==
    ASSUME Common, NEW t \in {"operator", "round"}, NEW place \in ClientPlaces,
           NEW to \in Statuses, NEW reason \in Reasons,
           At(t, at[t]), Transition(t, to, reason, place)
    PROVE  /\ Starts(t, place, to, reason, FALSE) /\ ~Calling(t) /\ up
           /\ call'[t] # NoCall /\ call'[t].to = to
<1>1. Starts(t, place, to, reason, FALSE)
  BY BeginStarts DEF Common, Base, Threads, Transition
<1> QED
  BY <1>1 DEF Starts, At, Calling

LEMMA ClientLiterals ==
    /\ {"idle", "approving", "launch", "early", "signalled", "accepted", "answering", "sweep",
        "abort", "swept", "recovering"} = ClientPlaces
    /\ {"PLAN_FROZEN", "CANCELLING", "QUARANTINED", "CLEANUP_REQUIRED", "RECOVERING", "ABORTED"}
           \subseteq Statuses
    /\ {"none", "user", "restart", "cleanup"} \subseteq Reasons
    /\ "PLAN_FROZEN" \notin Terminal /\ "CANCELLING" \notin Terminal /\ "ABORTED" \in Terminal
    /\ "QUARANTINED" \notin Terminal /\ "CLEANUP_REQUIRED" \notin Terminal
    /\ "RECOVERING" \notin Terminal /\ "AWAITING_APPROVAL" \notin Terminal
  BY DEF ClientPlaces, Statuses, Running, Terminal, Reasons

(* The thread that approves.                                               *)
LEMMA ApproverActs ==
    ASSUME Common, Approve \/ AcquireLease
    PROVE  \E place \in ClientPlaces : ClientMoves(Approver, place) /\ Tidy(Approver, place)
<1>1. /\ Approver \in {"operator", "round"} /\ ~Calling(Approver) /\ up
      /\ At(Approver, at[Approver]) /\ crashes = 0
  BY ApproverAssumption
     DEF Approve, AcquireLease, At, Calling, Common, Base, OneRun, O, Shape
<1>2. at[Approver] = "approving" => W = "none"
  BY DEF Common, Base, OneRun
<1>3. snap.status = "AWAITING_APPROVAL" => W = "none"
  BY DEF Common, Base, Awaiting
<1>4. CASE Approve
  <2>1. Walks(Approver, "approving") /\ call'[Approver] = NoCall
    BY <1>1, <1>4, ClientWalks, ClientLiterals DEF Approve, disk
  <2>2. ClientMoves(Approver, "approving")
    BY <1>1, <1>3, <1>4, <2>1 DEF Approve, ClientMoves, disk, run, history
  <2>3. Tidy(Approver, "approving")
    BY <1>1, <1>4, <2>1 DEF Approve, At, Tidy, disk, run, history
  <2> QED
    BY <2>2, <2>3, ClientLiterals
<1>5. CASE AcquireLease /\ GoTo(Approver, "idle") /\ UNCHANGED <<call, unmatched, lease>>
  <2>1. Walks(Approver, "idle") /\ call'[Approver] = NoCall
    BY <1>1, <1>5, ClientWalks, ClientLiterals
  <2>2. ClientMoves(Approver, "idle")
    BY <1>1, <1>5, <2>1 DEF AcquireLease, ClientMoves, run, history
  <2>3. Tidy(Approver, "idle")
    BY <1>1, <1>5, <2>1 DEF AcquireLease, At, Tidy
  <2> QED
    BY <2>2, <2>3, ClientLiterals
<1>6. CASE AcquireLease /\ lease' = TRUE /\ Transition(Approver, "PLAN_FROZEN", "none", "launch")
  <2>1. /\ Starts(Approver, "launch", "PLAN_FROZEN", "none", FALSE)
        /\ call'[Approver] # NoCall /\ call'[Approver].to = "PLAN_FROZEN"
    BY <1>1, <1>6, ClientStarts, ClientLiterals
  <2>2. ClientMoves(Approver, "launch")
    BY <1>1, <1>2, <1>6, <2>1, ClientLiterals
       DEF AcquireLease, At, ClientMoves, RestartAbort, run, history
  <2>3. Tidy(Approver, "launch")
    BY <1>1, <1>6, <2>1, ClientLiterals DEF AcquireLease, At, Tidy
  <2> QED
    BY <2>2, <2>3, ClientLiterals
<1> QED
  BY <1>4, <1>5, <1>6 DEF AcquireLease

(* The event loop.                                                         *)
OperatorMoves(place) == ClientMoves("operator", place) /\ Tidy("operator", place)

LEMMA OperatorWalks ==
    ASSUME Common, NEW place \in ClientPlaces \ {"launch"}, At("operator", O),
           GoTo("operator", place), UNCHANGED <<call, unmatched>>,
           ClientStays,
           O # "launch", place \notin {"approving", "recovering"},
           place \in {"signalled", "accepted"} => cancelEvent',
           cancelEvent => cancelEvent',
           \/ UNCHANGED accepted
           \/ /\ cancelEvent /\ UNCHANGED cancelEvent
              /\ accepted' = "early" => WillLook \/ accepted = "early",
           lease => lease' \/ O = "sweep", lease' => lease,
           live => live' \/ O = "swept",
           place = "early" => snap.status = "AWAITING_APPROVAL" /\ O = "idle",
           place = "sweep" => ~ThreadAlive,
           place = "abort" => O = "sweep" /\ ~lease',
           place = "swept" => O = "sweep" /\ ~lease' /\ snap.status \in Terminal
    PROVE  OperatorMoves(place)
<1>1. Walks("operator", place) /\ ~Calling("operator") /\ call'["operator"] = NoCall /\ up
  BY ClientWalks DEF O
<1>2. ClientMoves("operator", place)
  BY <1>1 DEF ClientMoves, ClientStays
<1>3. Tidy("operator", place)
  BY <1>1 DEF Tidy, O
<1> QED
  BY <1>2, <1>3 DEF OperatorMoves

LEMMA OperatorStarts ==
    ASSUME Common, NEW place \in ClientPlaces, At("operator", O),
           NEW to \in Statuses, NEW reason \in Reasons,
           Transition("operator", to, reason, place),
           ClientStays, UNCHANGED <<cancelEvent, accepted, live>>,
           to \notin {"AWAITING_APPROVAL", "COMPLETE"}, O # "launch",
           RestartAbort(to, reason) => O = "recovering",
           place \notin {"early", "approving", "launch", "sweep"},
           place \in {"signalled", "accepted"} => cancelEvent,
           lease => lease' \/ O = "sweep", lease' => lease,
           place = "abort" => O = "sweep" /\ ~lease',
           place = "swept" => O \in {"early", "abort"},
           place = "recovering" => O = "recovering",
           to \in Terminal => O \in {"early", "abort", "recovering"}
    PROVE  OperatorMoves(place)
<1>1. /\ Starts("operator", place, to, reason, FALSE) /\ ~Calling("operator") /\ up
      /\ call'["operator"] # NoCall /\ call'["operator"].to = to
  BY ClientStarts DEF O
<1>2. O = "recovering" => ~cut
  BY DEF Common, CutStaysSuspect
<1>3. ClientMoves("operator", place)
  BY <1>1, <1>2 DEF ClientMoves, ClientStays
<1>4. Tidy("operator", place)
  BY <1>1 DEF Tidy, O
<1> QED
  BY <1>3, <1>4 DEF OperatorMoves

LEMMA OperatorActs ==
    ASSUME Common, Operator \/ OperatorStep
    PROVE  \E place \in ClientPlaces : OperatorMoves(place)
<1> USE ClientLiterals DEF O
<1>1. CASE Cancel
  <2>1. CASE snap.status = "AWAITING_APPROVAL" /\ GoTo("operator", "early") /\ UNCHANGED cancelEvent
    BY <1>1, <2>1, OperatorWalks DEF Cancel, Request, ClientStays, At, disk, run, history
  <2>2. CASE GoTo("operator", "signalled") /\ cancelEvent' = TRUE
    BY <1>1, <2>2, OperatorWalks DEF Cancel, Request, ClientStays, At, disk, run, history
  <2> QED
    BY <1>1, <2>1, <2>2 DEF Cancel
<1>2. CASE Decide
  BY <1>2, OperatorWalks DEF Decide, Request, ClientStays, At, disk, run, history
<1>3. CASE Cleanup
  <2>1. CASE GoTo("operator", "signalled") /\ cancelEvent' = TRUE
    BY <1>3, <2>1, OperatorWalks DEF Cleanup, Request, ClientStays, At, disk, run, history
  <2>2. CASE ~ThreadAlive /\ GoTo("operator", "sweep") /\ UNCHANGED cancelEvent
    BY <1>3, <2>2, OperatorWalks DEF Cleanup, Request, ClientStays, At, disk, run, history
  <2> QED
    BY <1>3, <2>1, <2>2 DEF Cleanup
<1>4. CASE CancelEarly
  BY <1>4, OperatorStarts DEF CancelEarly, ClientStays, RestartAbort, At, run, history
<1>5. CASE CancelSignalled
  <2>1. cancelEvent
    BY <1>5 DEF CancelSignalled, At, Common, CancelSeen
  <2>2. CASE GoTo("operator", "accepted") /\ UNCHANGED <<call, unmatched>>
    BY <1>5, <2>1, <2>2, OperatorWalks DEF CancelSignalled, ClientStays, At, run, history
  <2>3. CASE Transition("operator", "CANCELLING", "user", "accepted")
    BY <1>5, <2>1, <2>3, OperatorStarts DEF CancelSignalled, ClientStays, RestartAbort, At, run, history
  <2> QED
    BY <1>5, <2>2, <2>3 DEF CancelSignalled
<1>6. CASE CancelReturns
  <2>1. cancelEvent
    BY <1>6 DEF CancelReturns, At, Common, CancelSeen
  <2>2. accepted' = "early" => WillLook \/ accepted = "early"
    BY <1>6 DEF CancelReturns
  <2> QED
    BY <1>6, <2>1, <2>2, OperatorWalks DEF CancelReturns, ClientStays, At, disk, run
<1>7. CASE Answer
  BY <1>7, OperatorWalks DEF Answer, ClientStays, At, disk, run, history
<1>8. CASE Sweep
  <2>1. At("operator", "sweep") /\ ClientStays /\ UNCHANGED <<cancelEvent, accepted, live>>
    BY <1>8 DEF Sweep, ClientStays, run, history
  <2>2. CASE UNCHANGED lease /\ GoTo("operator", "idle") /\ UNCHANGED <<call, unmatched>>
    BY <2>1, <2>2, OperatorWalks DEF At
  <2>3. CASE UNCHANGED lease /\ Transition("operator", "QUARANTINED", "cleanup", "idle")
    BY <2>1, <2>3, OperatorStarts DEF At, RestartAbort
  <2>4. CASE /\ lease' = FALSE /\ snap.status \in Terminal
             /\ GoTo("operator", "swept") /\ UNCHANGED <<call, unmatched>>
    BY <2>1, <2>4, OperatorWalks DEF At
  <2>5. CASE lease' = FALSE /\ GoTo("operator", "abort") /\ UNCHANGED <<call, unmatched>>
    BY <2>1, <2>5, OperatorWalks DEF At
  <2>6. CASE lease' = FALSE /\ Transition("operator", "CLEANUP_REQUIRED", "cleanup", "abort")
    BY <2>1, <2>6, OperatorStarts DEF At, RestartAbort
  <2>7. CASE lease' = FALSE /\ Transition("operator", "RECOVERING", "cleanup", "abort")
    BY <2>1, <2>7, OperatorStarts DEF At, RestartAbort
  <2> QED
    BY <1>8, <2>2, <2>3, <2>4, <2>5, <2>6, <2>7 DEF Sweep
<1>9. CASE Abort
  BY <1>9, OperatorStarts DEF Abort, ClientStays, RestartAbort, At, run, history
<1>10. CASE Swept
  BY <1>10, OperatorWalks DEF Swept, ClientStays, At, disk, run, history
<1>11. CASE Recover
  <2>1. CASE Transition("operator", "ABORTED", "restart", "idle")
    BY <1>11, <2>1, OperatorStarts DEF Recover, ClientStays, At, run, history
  <2>2. CASE Transition("operator", "RECOVERING", "restart", "recovering")
    BY <1>11, <2>2, OperatorStarts DEF Recover, ClientStays, RestartAbort, At, run, history
  <2> QED
    BY <1>11, <2>1, <2>2 DEF Recover
<1> QED
  BY <1>1, <1>2, <1>3, <1>4, <1>5, <1>6, <1>7, <1>8, <1>9, <1>10, <1>11 DEF Operator, OperatorStep

(* What remains: the worker is started, the server dies and starts again.  *)
LEMMA LaunchKeeps == Common /\ Launch => Common'
<1> SUFFICES ASSUME Common, Launch PROVE Common'
  OBVIOUS
<1>1. /\ Threads = {"worker", "operator", "round"} /\ Approver \in {"operator", "round"}
      /\ "begin" \in WorkerPlaces /\ "idle" \in ClientPlaces
  BY ApproverAssumption DEF Threads, WorkerPlaces, ClientPlaces
<1>2. /\ at[Approver] = "launch" /\ W = "none" /\ crashes = 0 /\ up
      /\ ~Calling(Approver) /\ ~Calling("worker") /\ snap.status # "AWAITING_APPROVAL"
      /\ snap.status # "COMPLETE" /\ ~cut
  <2>1. at[Approver] = "launch" /\ ~Calling(Approver) /\ up
    BY DEF Launch, At, Calling
  <2>2. W = "none" /\ crashes = 0
    BY <1>1, <2>1 DEF Common, Base, OneRun, Shape, O
  <2> QED
    BY <2>1, <2>2 DEF Common, Base, OneRun, Awaiting, Completing, CutStaysSuspect
<1>3. /\ at' \in [Threads -> WorkerPlaces \cup ClientPlaces]
      /\ W' = "begin" /\ at'[Approver] = "idle"
      /\ O' = O \/ O' = "idle"
      /\ at'["round"] = at["round"] \/ at'["round"] = "idle"
  BY <1>1 DEF Launch, Common, Base, Shape, W, O
<1>4. UNCHANGED <<stored, unmatched, receipt, up, snap, cancelEvent, call, cancelled, crashes,
                  accepted, cut>>
  BY DEF Launch, disk, run, history
<1>5. Base'
  BY <1>1, <1>2, <1>3, <1>4 DEF Common, Base, Shape, CallsSane, OneRun, Awaiting, Calling
<1>6. CutStaysSuspect' /\ Completing'
  BY <1>2, <1>3, <1>4 DEF Common, CutStaysSuspect, Completing, Calling
<1>7. CancelSeen'
  BY <1>2, <1>3, <1>4 DEF Common, CancelSeen, Calling
<1> QED
  BY <1>5, <1>6, <1>7 DEF Common

LEMMA CrashKeeps == Common /\ Crash => Common'
<1> SUFFICES ASSUME Common, Crash PROVE Common'
  OBVIOUS
<1>1. /\ Threads = {"worker", "operator", "round"} /\ Approver \in {"operator", "round"}
      /\ "none" \in WorkerPlaces /\ "idle" \in ClientPlaces
  BY ApproverAssumption DEF Threads, WorkerPlaces, ClientPlaces
<1>2. /\ ~up' /\ snap' = stored /\ stored' = stored /\ unmatched' = unmatched
      /\ receipt' = receipt /\ accepted' = "no" /\ crashes' = crashes + 1
      /\ at' = [t \in Threads |-> IF t = "worker" THEN "none" ELSE "idle"]
      /\ call' = [t \in Threads |-> NoCall]
  BY DEF Crash, disk
<1>3. crashes' \in Nat /\ crashes' > 0
  BY <1>2 DEF Common, Base, Shape
<1>4. /\ at' \in [Threads -> WorkerPlaces \cup ClientPlaces]
      /\ call' \in [Threads -> Calls \cup {NoCall}]
      /\ W' = "none" /\ O' = "idle" /\ at'["round"] = "idle" /\ at'[Approver] = "idle"
      /\ \A t \in Threads : ~Calling(t)'
  BY <1>1, <1>2 DEF W, O, Calling
<1>5. Base'
  BY <1>1, <1>2, <1>3, <1>4 DEF Common, Base, Shape, CallsSane, OneRun, Awaiting
<1>6. CutStaysSuspect'
  <2>1. ASSUME cut' PROVE Dirty' /\ ~RestartAbort(stored.status, stored.reason)
    <3>1. CASE cut
      <4>1. receipt = "started" \/ unmatched > 0
        BY <3>1 DEF Common, CutStaysSuspect, Dirty, Base, Shape
      <4>2. ~Unsaid(call["operator"])'
        BY <1>1, <1>2 DEF Unsaid, NoCall
      <4> QED
        BY <1>2, <3>1, <4>1, <4>2 DEF Dirty, Common, CutStaysSuspect
    <3>2. CASE ~cut
      <4>1. stored.status \notin Terminal /\ (receipt = "started" \/ unmatched > 0)
        BY <2>1, <3>2 DEF Crash
      <4>2. ~Unsaid(call["operator"])'
        BY <1>1, <1>2 DEF Unsaid, NoCall
      <4> QED
        BY <1>2, <4>1, <4>2 DEF Dirty, RestartAbort, Terminal
    <3> QED
      BY <3>1, <3>2
  <2> QED
    BY <1>1, <1>2, <1>3, <1>4, <2>1 DEF CutStaysSuspect
<1>7. Completing' /\ CancelSeen'
  BY <1>1, <1>2, <1>3, <1>4 DEF Completing, CancelSeen
<1> QED
  BY <1>5, <1>6, <1>7 DEF Common

(* What a restart does to the operator's thread.                           *)
Resumes ==
    /\ ~up /\ up' /\ (lease' => lease)
    /\ UNCHANGED <<stored, receipt, snap, cancelEvent, live, cancelled, crashes, accepted, cut>>
    /\ \/ /\ UNCHANGED <<at, call, unmatched>>
          /\ snap.status = "QUARANTINED" \/ (snap.status \in Terminal /\ ~lease')
       \/ Starts("operator", "idle", "QUARANTINED", "restart", TRUE)
       \/ Walks("operator", "recovering") /\ receipt # "started" /\ ~(unmatched > 0) /\ ~lease'
          /\ snap.status \notin Terminal

LEMMA RestartResumes == Common /\ Restart => Resumes
<1> SUFFICES ASSUME Common, Restart PROVE Resumes
  OBVIOUS
<1>1. /\ "operator" \in Threads /\ "idle" \in ClientPlaces /\ "recovering" \in ClientPlaces
      /\ "QUARANTINED" \in Statuses /\ "restart" \in Reasons /\ TRUE \in BOOLEAN
  BY DEF Threads, ClientPlaces, Statuses, Reasons
<1>2. /\ ~up /\ up'
      /\ UNCHANGED <<stored, receipt, snap, cancelEvent, live, cancelled, crashes, accepted, cut>>
  BY DEF Restart, run, history
<1>3. PICK uncertain \in {FALSE, lease}, debris \in BOOLEAN :
          /\ lease' = uncertain
          /\ IF Suspect(uncertain, debris)
             THEN IF snap.status = "QUARANTINED" THEN UNCHANGED <<at, call, unmatched>>
                  ELSE Begin("operator", "QUARANTINED", "restart", TRUE, "idle")
             ELSE IF snap.status \in Terminal THEN UNCHANGED <<at, call, unmatched>>
                  ELSE GoTo("operator", "recovering") /\ UNCHANGED <<call, unmatched>>
  BY DEF Restart
<1>7. lease' => lease
  <2>1. CASE uncertain = FALSE
    BY <1>3, <2>1
  <2>2. CASE uncertain = lease
    BY <1>3, <2>2
  <2> QED
    BY <2>1, <2>2
<1>4. CASE Begin("operator", "QUARANTINED", "restart", TRUE, "idle")
  <2>1. Starts("operator", "idle", "QUARANTINED", "restart", TRUE)
    BY <1>1, <1>4, BeginStarts DEF Common, Base
  <2> QED
    BY <1>2, <1>7, <2>1 DEF Resumes
<1>5. CASE UNCHANGED <<at, call, unmatched>>
           /\ (snap.status = "QUARANTINED" \/ (snap.status \in Terminal /\ ~lease'))
  BY <1>2, <1>7, <1>5 DEF Resumes
<1>6. CASE /\ ~Suspect(uncertain, debris) /\ snap.status \notin Terminal
           /\ GoTo("operator", "recovering") /\ UNCHANGED <<call, unmatched>>
  <2>1. Walks("operator", "recovering")
    BY <1>1, <1>6, GoToWalks DEF Common, Base
  <2> QED
    BY <1>2, <1>3, <1>7, <1>6, <2>1 DEF Resumes, Suspect
<1> QED
  BY <1>3, <1>4, <1>5, <1>6 DEF Suspect

LEMMA ResumesKeeps == Common /\ Resumes => Common'
<1> SUFFICES ASSUME Common, Resumes PROVE Common'
  OBVIOUS
<1>1. /\ Threads = {"worker", "operator", "round"} /\ Approver \in {"operator", "round"}
      /\ ~up /\ O = "idle" /\ ~Calling("operator") /\ crashes > 0
      /\ up' /\ UNCHANGED <<stored, receipt, snap, cancelEvent, cancelled, crashes, accepted, cut>>
  BY ApproverAssumption DEF Threads, Resumes, Common, Base, OneRun
<1>2. /\ at' \in [Threads -> WorkerPlaces \cup ClientPlaces]
      /\ call' \in [Threads -> Calls \cup {NoCall}] /\ unmatched' \in Int
      /\ W' = W /\ at'["round"] = at["round"]
      /\ call'["worker"] = call["worker"] /\ call'["round"] = call["round"]
      /\ O' = "idle" \/ (O' = "recovering" /\ receipt # "started" /\ ~(unmatched > 0))
  BY <1>1 DEF Resumes, Walks, Starts, Moved, Elsewhere, W, O, Common, Base, Shape
<1>3. \/ call'["operator"] = NoCall /\ unmatched' = unmatched
      \/ /\ call'["operator"] \in Calls /\ call'["operator"] # NoCall
         /\ call'["operator"].step = "check" /\ call'["operator"].to = "QUARANTINED"
         /\ unmatched' = unmatched + 1
  BY <1>1 DEF Resumes, Walks, Starts, Calling, Terminal
<1>4. Base'
  BY <1>1, <1>2, <1>3 DEF Common, Base, Shape, CallsSane, OneRun, Awaiting, Calling, O
<1>5. CutStaysSuspect'
  <2> SUFFICES ASSUME cut PROVE CutStaysSuspect'
    BY <1>1 DEF CutStaysSuspect
  <2>1. ~Unsaid(call["operator"])
    BY <1>1 DEF Unsaid, Calling, NoCall
  <2>2. unmatched \in Int /\ (receipt = "started" \/ unmatched > 0)
    BY <2>1 DEF Common, CutStaysSuspect, Dirty, Base, Shape
  <2>3. Dirty'
    <3>1. CASE receipt = "started"
      BY <1>1, <3>1 DEF Dirty
    <3>2. CASE call'["operator"] = NoCall /\ unmatched' = unmatched /\ receipt # "started"
      <4>1. ~Unsaid(call["operator"])'
        BY <3>2 DEF Unsaid, NoCall
      <4> QED
        BY <2>2, <3>2, <4>1 DEF Dirty
    <3>3. CASE unmatched' = unmatched + 1 /\ receipt # "started"
      BY <2>2, <3>3 DEF Dirty
    <3> QED
      BY <1>3, <3>1, <3>2, <3>3
  <2> QED
    BY <1>1, <1>2, <1>3, <2>2, <2>3 DEF Common, CutStaysSuspect, Calling, RestartAbort
<1>6. Completing' /\ CancelSeen'
  BY <1>1, <1>2, <1>3 DEF Common, Completing, CancelSeen, Calling
<1> QED
  BY <1>4, <1>5, <1>6 DEF Common

LEMMA CommonStep == Common /\ [Next]_vars => Common'
<1> SUFFICES ASSUME Common, [Next]_vars PROVE Common'
  OBVIOUS
<1>1. CASE WorkerStep
  BY <1>1, WorkerActs, WorkerMovesKeep
<1>2. CASE Operator \/ OperatorStep
  BY <1>2, OperatorActs, ClientMovesKeep DEF OperatorMoves
<1>3. CASE Approve \/ AcquireLease
  BY <1>3, ApproverActs, ClientMovesKeep
<1>4. CASE Launch
  BY <1>4, LaunchKeeps
<1>5. CASE Crash
  BY <1>5, CrashKeeps
<1>6. CASE Restart
  BY <1>6, RestartResumes, ResumesKeeps
<1>7. ASSUME NEW t \in Threads, TransitionStep(t) PROVE Common'
  BY <1>7, TransitionSteps, CallStepKeeps DEF Common, Base
<1>8. CASE UNCHANGED vars
  BY <1>8 DEF vars, disk, run, history, Common, Base, Shape, CallsSane, OneRun, Awaiting, CutStaysSuspect,
     Completing, CancelSeen, Calling, W, O, Dirty
<1>9. CASE Quiet
  BY <1>8, <1>9 DEF Quiet
<1> QED
  BY <1>1, <1>2, <1>3, <1>4, <1>5, <1>6, <1>7, <1>8, <1>9 DEF Next, ApproverStep

THEOREM CommonHolds == Spec => []Common
  BY InitCommon, CommonStep, PTL DEF Spec

(* A review aborted by a restart was never cut in the middle of a tool     *)
(* call or of a transition (resume() of control.py), whoever approves.     *)
THEOREM ResumeIsSound == Spec => []ResumeSound
<1>1. Common => ResumeSound
  BY DEF Common, CutStaysSuspect, RestartAbort, ResumeSound, Resumable
<1> QED
  BY <1>1, CommonHolds, PTL

(* A cancellation the worker still had to look for never ends in a         *)
(* complete review (_cancel_requested of control.py), whoever approves.    *)
THEOREM CancelIsNotIgnored == Spec => []CancelNotIgnored
<1>1. Common => CancelNotIgnored
  BY DEF Common, CancelSeen, CancelNotIgnored
<1> QED
  BY <1>1, CommonHolds, PTL

-----------------------------------------------------------------------------
(* The lease, when the event loop approves.                                *)

LEMMA WorkerMovesLease ==
    ASSUME IInv, NEW place \in WorkerPlaces, WorkerMoves(place)
    PROVE  LeaseInv'
<1>1. /\ W \notin {"none", "ended"} /\ ~Calling("worker") /\ ThreadAlive
      /\ O \notin Sweeping /\ snap.status # "AWAITING_APPROVAL" /\ snap.status \notin Terminal
      /\ ~(Calling("operator") /\ call["operator"].to \in Terminal)
  <2>1. W \notin {"none", "ended"} /\ ~Calling("worker") /\ ThreadAlive
    BY DEF WorkerMoves, ThreadAlive, W
  <2>2. call["worker"].step # "store"
    BY <2>1 DEF Calling, NoCall
  <2> QED
    BY <2>1, <2>2 DEF IInv, LeaseInv, Alone, Silent, Common, Base, Awaiting
<1>2. /\ W' = place /\ O' = O /\ at'["round"] = at["round"]
      /\ call'["operator"] = call["operator"] /\ call'["round"] = call["round"]
      /\ UNCHANGED <<stored, up, snap, crashes>>
  BY DEF WorkerMoves, Walks, Starts, Moved, Elsewhere, W, O, Threads
<1>3. \/ call'["worker"] = NoCall
      \/ call'["worker"].forced \/ call'["worker"].to \in Terminal => place = "ended"
  BY DEF WorkerMoves, Walks, Starts, Calling
<1>4. OneApprover' /\ Alone'
  BY <1>1, <1>2, <1>3 DEF IInv, LeaseInv, OneApprover, Alone, Calling, Sweeping
<1>5. Holding'
  BY <1>1, <1>2 DEF IInv, LeaseInv, Holding, Calling, Sweeping, WorkerMoves
<1>6. Released'
  BY <1>1, <1>2 DEF IInv, LeaseInv, Released, Calling, Sweeping, WorkerMoves
<1>7. Silent'
  BY <1>1, <1>2 DEF Silent
<1> QED
  BY <1>4, <1>5, <1>6, <1>7 DEF LeaseInv

LEMMA CallStepLease ==
    ASSUME IInv, NEW t \in Threads, CallStep(t)
    PROVE  LeaseInv'
<1>1. /\ Threads = {"worker", "operator", "round"} /\ t \in {"worker", "operator"}
      /\ call[t] # NoCall /\ Approver = "operator"
      /\ call[t].to # "AWAITING_APPROVAL"
      /\ UNCHANGED <<up, live, crashes>>
  BY DEF Threads, IInv, LeaseInv, OneApprover, CallStep, Calling, Common, Base, CallsSane
<1>2. /\ \A u \in Threads : u # t => at'[u] = at[u] /\ call'[u] = call[u]
      /\ \/ at'[t] = at[t]
         \/ /\ call[t].step = "check" /\ call'[t] = NoCall /\ UNCHANGED <<snap, stored>>
            /\ t = "operator" => at'[t] = "idle"
            /\ t = "worker" => at'[t] \in {"ended", "failing"} /\ (at'[t] = "ended" => call[t].forced)
  BY DEF CallStep, Proceeds, Ends
<1>3. \/ call'[t] = NoCall
      \/ /\ call'[t] # NoCall /\ at'[t] = at[t]
         /\ call'[t].to = call[t].to /\ call'[t].forced = call[t].forced
         /\ call[t].step = "assign" => call'[t].step = "store"
  BY <1>1 DEF CallStep, Proceeds, Ends
<1>4. \/ snap' = snap
      \/ call[t].step = "assign" /\ snap'.status = call[t].to /\ UNCHANGED stored
  BY DEF CallStep
<1>5. \/ stored' = stored
      \/ call[t].step = "store" /\ (stored' = snap \/ stored'.status = call[t].to)
  BY DEF CallStep
<1>6. lease' = lease \/ (t = "operator" /\ at[t] = "launch" /\ ~lease' /\ at'[t] = "idle")
  <2>1. "launch" \notin WorkerPlaces
    BY DEF WorkerPlaces, Tools
  <2>2. t = "worker" => at[t] # "launch"
    BY <2>1 DEF IInv, LeaseInv, OneApprover, W
  <2> QED
    BY <1>1, <2>2 DEF CallStep
<1>7. ThreadAlive' => ThreadAlive
  BY <1>1, <1>2, <1>3 DEF ThreadAlive
<1>8. call[t].to \in Terminal => ~lease /\ (t = "operator" => ~ThreadAlive) /\ (t = "worker" => W = "ended")
  BY <1>1 DEF IInv, LeaseInv, Alone, Released, Calling
<1>16. call[t].step = "assign" => snap'.status = call[t].to
  BY DEF CallStep
<1>9. call[t].step \in {"assign", "store", "publish"} => snap'.status # "AWAITING_APPROVAL"
  BY <1>1, <1>4, <1>16 DEF IInv, LeaseInv, Common, Base, Awaiting, Calling
<1>10. snap.status # "AWAITING_APPROVAL" => snap'.status # "AWAITING_APPROVAL"
  BY <1>1, <1>4
<1>11. OneApprover'
  <2>1. "ended" \in WorkerPlaces /\ "failing" \in WorkerPlaces /\ "idle" \in ClientPlaces
    BY DEF WorkerPlaces, ClientPlaces
  <2> QED
    BY <1>1, <1>2, <2>1 DEF IInv, LeaseInv, OneApprover, Calling, W, O
<1>12. Alone'
  <2>1. O' = O \/ O' = "idle"
    BY <1>1, <1>2 DEF O
  <2>2. (O' \in Sweeping => ~ThreadAlive') /\ (O' \in {"early", "approving", "launch"} => W' = "none")
    <3>1. W = "none" => W' = "none"
      BY <1>1, <1>2 DEF W, IInv, LeaseInv, Common, Base, OneRun, Calling
    <3> QED
      BY <1>7, <2>1, <3>1 DEF IInv, LeaseInv, Alone, Sweeping
  <2>3. Calling("operator")' /\ call'["operator"].to \in Terminal => ~ThreadAlive'
    BY <1>1, <1>2, <1>3, <1>7 DEF IInv, LeaseInv, Alone, Calling
  <2>4. Calling("worker")' /\ (call'["worker"].forced \/ call'["worker"].to \in Terminal) => W' = "ended"
    BY <1>1, <1>2, <1>3 DEF IInv, LeaseInv, Alone, Calling, W
  <2> QED
    BY <2>2, <2>3, <2>4 DEF Alone
<1>13. Holding'
  <2>1. O' = O \/ O' = "idle"
    BY <1>1, <1>2 DEF O
  <2>2. W' = W \/ W' \in {"ended", "failing"}
    BY <1>1, <1>2 DEF W
  <2>3. (W' \notin {"none", "ended", "failing"} => lease' /\ live') /\ (O' = "launch" => lease')
    BY <1>1, <1>6, <2>1, <2>2 DEF IInv, LeaseInv, Holding, Alone, O
  <2>4. /\ O' \in {"approving", "launch"} => live' /\ crashes' = 0
        /\ O' = "approving" => snap'.status = "AWAITING_APPROVAL" /\ ~Calling("operator")'
    BY <1>1, <1>2, <1>4, <2>1 DEF IInv, LeaseInv, Holding, Alone, Calling, O, Common, Base, OneRun
  <2>5. crashes' = 0 /\ snap'.status = "AWAITING_APPROVAL" => live' /\ stored'.status = "AWAITING_APPROVAL"
    BY <1>1, <1>5, <1>9, <1>10 DEF IInv, LeaseInv, Holding
  <2>6. O' = "swept" /\ ~Calling("operator")' => snap'.status # "AWAITING_APPROVAL"
    <3>1. CASE t = "operator" /\ O' = "swept" /\ ~Calling("operator")'
      <4>1. call[t].step \in {"store", "publish"}
        BY <3>1 DEF CallStep, Proceeds, Calling, O
      <4> QED
        BY <1>9, <4>1
    <3>2. CASE t = "worker"
      BY <1>1, <1>2, <1>10, <3>2 DEF IInv, LeaseInv, Holding, Calling, O
    <3> QED
      BY <1>1, <3>1, <3>2
  <2> QED
    BY <2>3, <2>4, <2>5, <2>6 DEF Holding
<1>14. Released'
  <2>1. O' = O \/ O' = "idle"
    BY <1>1, <1>2 DEF O
  <2>2. W' = "ended" => ~lease'
    <3>1. W' = "ended" => W = "ended"
      BY <1>1, <1>2 DEF IInv, LeaseInv, Alone, Calling, W
    <3> QED
      BY <1>6, <3>1 DEF IInv, LeaseInv, Released
  <2>3. O' \in {"early", "abort", "swept", "recovering"} => ~lease'
    BY <1>6, <2>1 DEF IInv, LeaseInv, Released
  <2>4. Calling("operator")' /\ call'["operator"].to \in Terminal => ~lease'
    BY <1>1, <1>2, <1>3, <1>6 DEF IInv, LeaseInv, Released, Calling
  <2>5. (snap'.status \in Terminal => ~lease') /\ (stored'.status \in Terminal => ~lease')
    BY <1>4, <1>5, <1>6, <1>8 DEF IInv, LeaseInv, Released
  <2>6. snap'.status = "AWAITING_APPROVAL" /\ up' /\ lease' =>
          O' = "launch" \/ (Calling("operator")' /\ call'["operator"].forced)
    <3> SUFFICES ASSUME snap'.status = "AWAITING_APPROVAL", up', lease'
                 PROVE  O' = "launch" \/ (Calling("operator")' /\ call'["operator"].forced)
      OBVIOUS
    <3>1. /\ lease /\ up /\ snap.status = "AWAITING_APPROVAL"
          /\ call[t].step \notin {"assign", "store", "publish"}
      BY <1>1, <1>6, <1>9, <1>10
    <3>2. O = "launch" \/ (Calling("operator") /\ call["operator"].forced)
      BY <3>1 DEF IInv, LeaseInv, Released
    <3>3. CASE t = "worker"
      BY <1>1, <1>2, <3>2, <3>3 DEF O, Calling
    <3>4. CASE t = "operator"
      <4>1. call[t].step \in {"announce", "check"}
        BY <3>1 DEF CallStep
      <4>2. CASE O = "launch"
        <5>1. O' = "launch"
          BY <1>6, <3>4, <4>1, <4>2 DEF CallStep, O
        <5> QED
          BY <5>1
      <4>3. CASE call["operator"].forced
        <5>1. call["operator"].to = "QUARANTINED"
          BY <3>4, <1>1, <4>3 DEF IInv, LeaseInv, Common, Base, CallsSane, Calling
        <5>2. Permitted(call["operator"])
          BY <4>3, <5>1 DEF Permitted
        <5> QED
          BY <1>1, <3>4, <4>1, <4>3, <5>2 DEF CallStep, Proceeds, Calling
      <4> QED
        BY <3>2, <4>2, <4>3
    <3> QED
      BY <1>1, <3>3, <3>4
  <2> QED
    BY <2>2, <2>3, <2>4, <2>5, <2>6 DEF Released
<1>15. Silent'
  <2> SUFFICES ASSUME ThreadAlive', ~(call["worker"].step = "store" /\ call["worker"].to \in Terminal)'
               PROVE  snap'.status \notin Terminal
    BY DEF Silent
  <2>1. CASE snap' # snap
    <3>1. call[t].step = "assign" /\ snap'.status = call[t].to
      BY <1>4, <2>1
    <3>2. t = "operator" => call[t].to \notin Terminal
      BY <1>7, <1>8
    <3>3. t = "worker" => call[t].to \notin Terminal
      BY <1>1, <3>1 DEF CallStep, Proceeds
    <3> QED
      BY <1>1, <3>1, <3>2, <3>3
  <2>2. CASE snap' = snap
    <3>1. CASE t = "operator"
      BY <1>1, <1>2, <1>7, <2>2, <3>1 DEF IInv, LeaseInv, Silent
    <3>2. CASE t = "worker" /\ call[t].step = "store" /\ call[t].to \in Terminal
      <4>1. call'["worker"] = NoCall /\ W' = "ended"
        BY <1>1, <1>8, <3>2 DEF CallStep, Ends, W
      <4> QED
        BY <4>1 DEF ThreadAlive, W
    <3>3. CASE t = "worker" /\ ~(call[t].step = "store" /\ call[t].to \in Terminal)
      BY <1>7, <2>2, <3>3 DEF IInv, LeaseInv, Silent
    <3> QED
      BY <1>1, <3>1, <3>2, <3>3
  <2> QED
    BY <2>1, <2>2
<1> QED
  BY <1>11, <1>12, <1>13, <1>14, <1>15 DEF LeaseInv

LEMMA OperatorMovesLease ==
    ASSUME IInv, NEW place \in ClientPlaces, OperatorMoves(place)
    PROVE  LeaseInv'
<1>1. /\ W' = W /\ O' = place /\ at'["round"] = at["round"]
      /\ call'["worker"] = call["worker"] /\ call'["round"] = call["round"]
      /\ ~Calling("operator") /\ up /\ O # "launch"
      /\ UNCHANGED <<stored, up, snap, crashes>>
  BY DEF OperatorMoves, ClientMoves, Tidy, Walks, Starts, Moved, Elsewhere, W, O, Threads
<1>2. /\ ThreadAlive' = ThreadAlive
      /\ snap.status = "AWAITING_APPROVAL" => ~lease /\ W = "none" /\ ~ThreadAlive
      /\ O = "approving" => W = "none"
  <2>1. snap.status = "AWAITING_APPROVAL" => W = "none"
    BY DEF IInv, LeaseInv, Common, Base, Awaiting
  <2>2. W = "none" => ~ThreadAlive
    BY DEF IInv, LeaseInv, Common, Base, OneRun, ThreadAlive, Calling, W
  <2> QED
    BY <1>1, <2>1, <2>2 DEF ThreadAlive, W, IInv, LeaseInv, Released, Alone
<1>3. /\ (lease => lease' \/ O = "sweep") /\ (lease' => lease \/ place = "launch")
      /\ live => live' \/ O = "swept"
      /\ place = "launch" => O = "approving" /\ lease'
      /\ place \in {"early", "approving"} =>
            snap.status = "AWAITING_APPROVAL" /\ ~Calling("operator")' /\ O = "idle"
      /\ place = "approving" => crashes = 0
      /\ place = "sweep" => ~ThreadAlive
      /\ place = "abort" => O = "sweep" /\ ~lease'
      /\ place = "swept" => \/ O \in {"early", "abort"} /\ Calling("operator")'
                            \/ O = "sweep" /\ ~lease' /\ snap.status \in Terminal
      /\ place = "recovering" => O = "recovering"
      /\ Calling("operator")' /\ call'["operator"].to \in Terminal => O \in {"early", "abort", "recovering"}
  BY DEF OperatorMoves, Tidy, O, Calling
<1>4. OneApprover'
  BY <1>1 DEF IInv, LeaseInv, OneApprover, Calling
<1>5. Alone'
  BY <1>1, <1>2, <1>3 DEF IInv, LeaseInv, Alone, Calling, Sweeping
<1>6. Holding'
  <2>1. W \notin {"none", "ended"} => ThreadAlive
    BY DEF ThreadAlive, W
  <2>2. W' \notin {"none", "ended", "failing"} => lease' /\ live'
    BY <1>1, <1>3, <2>1 DEF IInv, LeaseInv, Holding, Alone, Sweeping
  <2>3. /\ O' = "launch" => lease'
        /\ O' \in {"approving", "launch"} => live' /\ crashes' = 0
        /\ O' = "approving" => snap'.status = "AWAITING_APPROVAL" /\ ~Calling("operator")'
    BY <1>1, <1>3 DEF IInv, LeaseInv, Holding
  <2>4. crashes' = 0 /\ snap'.status = "AWAITING_APPROVAL" => live' /\ stored'.status = "AWAITING_APPROVAL"
    BY <1>1, <1>3 DEF IInv, LeaseInv, Holding
  <2>5. O' = "swept" /\ ~Calling("operator")' => snap'.status # "AWAITING_APPROVAL"
    BY <1>1, <1>3 DEF Terminal
  <2> QED
    BY <2>2, <2>3, <2>4, <2>5 DEF Holding
<1>7. Released'
  <2>1. "AWAITING_APPROVAL" \notin Terminal
    BY DEF Terminal
  <2>2. O = "approving" => snap.status = "AWAITING_APPROVAL" /\ stored.status = "AWAITING_APPROVAL"
    BY DEF IInv, LeaseInv, Holding
  <2>3. lease' => lease \/ (place = "launch" /\ O = "approving")
    BY <1>3
  <2>4. /\ W' = "ended" => ~lease'
        /\ snap'.status \in Terminal => ~lease'
        /\ stored'.status \in Terminal => ~lease'
    BY <1>1, <1>2, <2>1, <2>2, <2>3 DEF IInv, LeaseInv, Released
  <2>5. /\ O' \in {"early", "abort", "swept", "recovering"} => ~lease'
        /\ Calling("operator")' /\ call'["operator"].to \in Terminal => ~lease'
    BY <1>1, <1>2, <1>3, <2>3 DEF IInv, LeaseInv, Released
  <2>6. snap'.status = "AWAITING_APPROVAL" /\ up' /\ lease' => O' = "launch"
    BY <1>1, <1>2, <2>3
  <2> QED
    BY <2>4, <2>5, <2>6 DEF Released
<1>8. Silent'
  BY <1>1, <1>2 DEF IInv, LeaseInv, Silent
<1> QED
  BY <1>4, <1>5, <1>6, <1>7, <1>8 DEF LeaseInv

LEMMA LaunchLease == IInv /\ Launch => LeaseInv'
<1> SUFFICES ASSUME IInv, Launch PROVE LeaseInv'
  OBVIOUS
<1>1. /\ O = "launch" /\ ~Calling("operator") /\ W = "none" /\ ~Calling("worker")
      /\ lease /\ live /\ crashes = 0 /\ snap.status \notin Terminal
      /\ snap.status # "AWAITING_APPROVAL" /\ stored.status \notin Terminal
  <2>1. O = "launch" /\ ~Calling("operator") /\ Approver = "operator"
    BY DEF Launch, At, Calling, O, IInv, LeaseInv, OneApprover
  <2> QED
    BY <2>1 DEF IInv, LeaseInv, Common, Base, OneRun, Awaiting, Holding, Released, O, Calling
<1>2. /\ W' = "begin" /\ O' = "idle" /\ at'["round"] = at["round"]
      /\ UNCHANGED <<stored, lease, up, snap, live, call, crashes>>
      /\ "begin" \in WorkerPlaces /\ "idle" \in ClientPlaces
  BY DEF Launch, IInv, LeaseInv, Common, Base, Shape, OneApprover, W, O, Threads, disk, run, history,
     WorkerPlaces, ClientPlaces
<1>3. OneApprover' /\ Alone'
  BY <1>1, <1>2 DEF IInv, LeaseInv, OneApprover, Alone, Calling, Sweeping
<1>4. Holding' /\ Released' /\ Silent'
  BY <1>1, <1>2 DEF IInv, LeaseInv, Holding, Released, Silent, Calling
<1> QED
  BY <1>3, <1>4 DEF LeaseInv

LEMMA CrashLease == IInv /\ Crash => LeaseInv'
<1> SUFFICES ASSUME IInv, Crash PROVE LeaseInv'
  OBVIOUS
<1>1. /\ W' = "none" /\ O' = "idle" /\ at'["round"] = "idle"
      /\ call'["worker"] = NoCall /\ call'["operator"] = NoCall /\ call'["round"] = NoCall
      /\ ~up' /\ snap' = stored /\ UNCHANGED <<stored, lease>> /\ crashes' = crashes + 1
      /\ "none" \in WorkerPlaces /\ "idle" \in ClientPlaces
  BY DEF Crash, W, O, Threads, disk, WorkerPlaces, ClientPlaces
<1>2. crashes' # 0
  BY <1>1 DEF IInv, LeaseInv, Common, Base, Shape
<1>3. ~ThreadAlive'
  BY <1>1 DEF ThreadAlive, W
<1>4. OneApprover' /\ Alone' /\ Silent'
  BY <1>1, <1>3 DEF IInv, LeaseInv, OneApprover, Alone, Silent, Calling, Sweeping
<1>5. Holding' /\ Released'
  BY <1>1, <1>2 DEF IInv, LeaseInv, Holding, Released, Calling
<1> QED
  BY <1>4, <1>5 DEF LeaseInv

LEMMA ResumesLease == IInv /\ Resumes => LeaseInv'
<1> SUFFICES ASSUME IInv, Resumes PROVE LeaseInv'
  OBVIOUS
<1>1. /\ ~up /\ O = "idle" /\ W = "none" /\ crashes > 0 /\ crashes \in Nat
      /\ ~Calling("operator") /\ ~Calling("worker")
      /\ (lease' => lease) /\ UNCHANGED <<stored, snap, live, crashes>>
  BY DEF Resumes, IInv, LeaseInv, Common, Base, Shape, OneRun
<1>2. /\ W' = W /\ at'["round"] = at["round"]
      /\ call'["worker"] = call["worker"] /\ call'["round"] = call["round"]
      /\ \/ O' = "idle" /\ ~Calling("operator")'
            /\ (snap.status = "QUARANTINED" \/ snap.status \in Terminal)
         \/ O' = "idle" /\ Calling("operator")' /\ call'["operator"].to = "QUARANTINED"
            /\ call'["operator"].forced
         \/ O' = "recovering" /\ ~Calling("operator")' /\ ~lease'
      /\ "recovering" \in ClientPlaces /\ "idle" \in ClientPlaces
  BY <1>1 DEF Resumes, Walks, Starts, Moved, Elsewhere, W, O, Threads, Calling, ClientPlaces
<1>3. ~ThreadAlive /\ ~ThreadAlive'
  BY <1>1, <1>2 DEF ThreadAlive, W, Calling
<1>4. OneApprover' /\ Alone' /\ Silent'
  BY <1>1, <1>2, <1>3 DEF IInv, LeaseInv, OneApprover, Alone, Silent, Calling, Sweeping, Terminal
<1>5. Holding' /\ Released'
  BY <1>1, <1>2 DEF IInv, LeaseInv, Holding, Released, Calling, Terminal
<1> QED
  BY <1>4, <1>5 DEF LeaseInv

LEMMA IInvStep == IInv /\ [Next]_vars => IInv'
<1> SUFFICES ASSUME IInv, [Next]_vars PROVE LeaseInv'
  BY CommonStep DEF IInv, LeaseInv
<1>1. CASE WorkerStep
  BY <1>1, WorkerActs, WorkerMovesLease DEF IInv, LeaseInv
<1>2. CASE Operator \/ OperatorStep
  BY <1>2, OperatorActs, OperatorMovesLease DEF IInv, LeaseInv
<1>3. CASE Approve \/ AcquireLease
  BY <1>3, ApproverActs, OperatorMovesLease DEF IInv, LeaseInv, OneApprover, OperatorMoves
<1>4. CASE Launch
  BY <1>4, LaunchLease
<1>5. CASE Crash
  BY <1>5, CrashLease
<1>6. CASE Restart
  BY <1>6, RestartResumes, ResumesLease DEF IInv, LeaseInv
<1>7. ASSUME NEW t \in Threads, TransitionStep(t) PROVE LeaseInv'
  BY <1>7, TransitionSteps, CallStepLease DEF IInv, LeaseInv, Common, Base
<1>8. CASE UNCHANGED vars
  BY <1>8 DEF vars, disk, run, history, IInv, LeaseInv, OneApprover, Alone, Holding, Released, Silent, Calling,
     W, O, ThreadAlive
<1>9. CASE Quiet
  BY <1>8, <1>9 DEF Quiet
<1> QED
  BY <1>1, <1>2, <1>3, <1>4, <1>5, <1>6, <1>7, <1>8, <1>9 DEF Next, ApproverStep

THEOREM IInvHolds == Spec /\ Approver = "operator" => []IInv
<1> SUFFICES ASSUME Approver = "operator" PROVE Spec => []IInv
  OBVIOUS
<1>1. Init => IInv
  BY InitIInv
<1> QED
  BY <1>1, IInvStep, PTL DEF Spec

(* A tool call runs only under the lease and the live slot, and a finished *)
(* review holds no lease, when the event loop is who approves.             *)
THEOREM LeaseIsKept == Spec /\ Approver = "operator" => []LeaseAgrees
<1>1. IInv => LeaseAgrees
  BY DEF IInv, LeaseInv, Holding, Released, LeaseAgrees, LiveAndLeased, FinishedHoldsNothing, Tools, W
<1> QED
  BY <1>1, IInvHolds, PTL

LEMMA SilentStep ==
    ASSUME IInv, [Next]_vars, snap.status \in Terminal, up', call["worker"].step # "store"
    PROVE  UNCHANGED <<at["worker"], call["worker"]>>
<1>1. W \in {"none", "ended"} /\ ~Calling("worker")
  BY DEF IInv, LeaseInv, Silent, ThreadAlive, W, Calling
<1>2. ~WorkerStep
  BY <1>1, WorkerActs DEF IInv, LeaseInv, WorkerMoves
<1>3. CASE Operator \/ OperatorStep
  BY <1>3, OperatorActs DEF IInv, LeaseInv, OperatorMoves, ClientMoves, Walks, Starts, Moved, Elsewhere, Threads
<1>4. CASE Approve \/ AcquireLease
  BY <1>4, ApproverActs
     DEF IInv, LeaseInv, OneApprover, ClientMoves, Walks, Starts, Moved, Elsewhere, Threads
<1>5. ~Launch
  <2>1. Launch => O = "launch"
    BY DEF Launch, At, O, IInv, LeaseInv, OneApprover
  <2> QED
    BY <2>1 DEF IInv, LeaseInv, Holding, Released
<1>6. ~Crash
  BY DEF Crash
<1>7. CASE Restart
  BY <1>7, RestartResumes DEF IInv, LeaseInv, Resumes, Walks, Starts, Moved, Elsewhere, Threads
<1>8. ASSUME NEW t \in Threads, TransitionStep(t)
      PROVE  UNCHANGED <<at["worker"], call["worker"]>>
  <2>1. CallStep(t) /\ t # "worker"
    BY <1>1, <1>8, TransitionSteps DEF IInv, LeaseInv, Common, Base, CallStep
  <2> QED
    BY <2>1 DEF CallStep, Proceeds, Ends, Threads
<1>9. CASE UNCHANGED vars \/ Quiet
  BY <1>9 DEF vars, Quiet
<1> QED
  BY <1>2, <1>3, <1>4, <1>5, <1>6, <1>7, <1>8, <1>9 DEF Next, ApproverStep

(* Once a terminal status is visible the worker neither works nor writes   *)
(* to the journal (_transition_store, control.py:895), when the event loop *)
(* is who approves.                                                        *)
THEOREM WorkerFallsSilent == Spec /\ Approver = "operator" => WorkerSilent
<1> SUFFICES ASSUME Approver = "operator" PROVE Spec => WorkerSilent
  OBVIOUS
<1>1. IInv /\ [Next]_vars =>
        [snap.status \in Terminal /\ up' /\ call["worker"].step # "store"
            => UNCHANGED <<at["worker"], call["worker"]>>]_vars
  BY SilentStep
<1>2. Spec => []IInv
  BY IInvHolds
<1> QED
  BY <1>1, <1>2, PTL DEF Spec, WorkerSilent

-----------------------------------------------------------------------------
(* The record of a review, when the event loop approves: ReviewControl     *)
(* implements ReviewLife.  LifeInv says what the worker and the operator   *)
(* may have under way, and where memory and disk disagree meanwhile.       *)

(* What the calls of the two threads lead to, and from where.              *)
OperatorTargets == {"PLAN_FROZEN", "CANCELLING", "RECOVERING", "CLEANUP_REQUIRED", "QUARANTINED", "ABORTED"}

Targets ==
    /\ Calling("worker") => call["worker"].to \in Running \cup Terminal
    /\ Calling("operator") =>
          /\ call["operator"].to \in OperatorTargets
          /\ call["operator"].forced => crashes > 0
          /\ call["operator"].to = "CANCELLING" => O = "accepted"
          /\ call["operator"].to # "CANCELLING" => ~ThreadAlive
          /\ call["operator"].to = "PLAN_FROZEN" => O = "launch"

(* A cancellation was asked for wherever one is seen.                      *)
AskedFor == crashes = 0 =>
    /\ O \in {"signalled", "accepted"} => W # "none"
    /\ snap.status = "CANCELLING" => cancelEvent
    /\ Calling("worker") /\ call["worker"].to = "CANCELLING" => cancelEvent

(* The receipt of a run is open during a tool call, and says completed     *)
(* from the last one on.                                                   *)
Receipts == crashes = 0 =>
    /\ receipt = "started" => W \in Tools /\ ~Calling("worker")
    /\ W = "final" \/ (Calling("worker") /\ call["worker"].to = "COMPLETE") => receipt = "completed"

(* Memory and disk until the worker is started.                            *)
Launching ==
    /\ O = "launch" =>
          IF Calling("operator")
          THEN /\ call["operator"].to = "PLAN_FROZEN"
               /\ call["operator"].step \in {"check", "assign"} => snap.status = "AWAITING_APPROVAL"
               /\ call["operator"].step = "publish" => stored.status = "PLAN_FROZEN"
               /\ stored.status \in {"AWAITING_APPROVAL", "PLAN_FROZEN"}
          ELSE snap.status = "PLAN_FROZEN" /\ stored.status = "PLAN_FROZEN"
    /\ crashes = 0 /\ W = "none" /\ snap.status \in Running => O = "launch"

(* While the worker's thread is alive: only its terminal change, assigned  *)
(* but not stored by itself, is seen beside the statuses of a run.         *)
Closing == call["worker"].step = "store" /\ call["worker"].to \in Terminal

Underway == ThreadAlive =>
    /\ ~Closing => snap.status \in Running
    /\ Closing => snap.status \in {call["worker"].to, "CANCELLING"}
    /\ \/ stored.status \in Running
       \/ Closing /\ stored.status = call["worker"].to /\ snap.status = stored.status /\ ~Cancelling

(* A change the operator makes alone; then what it leaves in memory.       *)
Solo == Calling("operator") /\ (call["operator"].to # "CANCELLING" \/ crashes > 0)

Sole ==
    /\ Solo /\ call["operator"].step = "assign" => snap.status \notin Terminal \/ call["operator"].forced
    /\ Solo /\ call["operator"].step \in {"store", "publish"} => snap.status = call["operator"].to
    /\ crashes > 0 => IF call["operator"].step = "store"
                      THEN stored.status \notin Terminal \/ call["operator"].to = "QUARANTINED"
                      ELSE stored.status = snap.status
    /\ crashes = 0 /\ ~ThreadAlive /\ Cancelling /\ snap.status \in Terminal => stored.status = snap.status

LifeInv == Targets /\ AskedFor /\ Receipts /\ Launching /\ Underway /\ Sole

(* The statuses the argument tells apart.                                  *)
LEMMA StatusFacts ==
    /\ \A s \in Running : s \notin Terminal /\ s \notin {"AWAITING_APPROVAL", "QUARANTINED", "RECOVERING", "CLEANUP_REQUIRED"}
    /\ \A s \in OperatorTargets : s \in Terminal => s = "ABORTED"
    /\ \A s \in OperatorTargets : s \in Running => s \in {"PLAN_FROZEN", "CANCELLING"}
    /\ {"PLAN_FROZEN", "CANCELLING"} \subseteq Running /\ "COMPLETE" \in Terminal
    /\ {"AWAITING_APPROVAL", "QUARANTINED", "CANCELLING", "PLAN_FROZEN"} \cap Terminal = {}
    /\ "AWAITING_APPROVAL" \notin OperatorTargets /\ "COMPLETE" \notin Running
  BY DEF Running, Terminal, OperatorTargets

LEMMA InitLife == Init => LifeInv
<1> SUFFICES ASSUME Init PROVE LifeInv
  OBVIOUS
<1>1. /\ ~Calling("worker") /\ ~Calling("operator") /\ W = "none" /\ O = "idle"
      /\ snap.status = "AWAITING_APPROVAL" /\ stored = snap
  BY InitFacts
<1>2. crashes = 0 /\ receipt = "none"
  BY DEF Init
<1>3. call["worker"].step = "none" /\ call["operator"].step = "none" /\ ~ThreadAlive
  BY <1>1 DEF Calling, NoCall, ThreadAlive, W
<1> QED
  BY <1>1, <1>2, <1>3, StatusFacts DEF LifeInv, Targets, AskedFor, Receipts, Launching, Underway, Sole, Solo

(* What else the argument needs of a step of the worker outside a call.    *)
WorkerLife ==
    /\ Calling("worker")' =>
          /\ call'["worker"].to \in Running \cup Terminal
          /\ call'["worker"].to = "CANCELLING" => cancelEvent
          /\ call'["worker"].to = "COMPLETE" => W = "final"
    /\ W' = "ended" => Calling("worker")' \/ snap.status \in Terminal
    /\ W' = "final" => receipt' = "completed"
    /\ \/ receipt' = receipt /\ receipt # "started"
       \/ receipt # "started" /\ receipt' = "started" /\ W' \in Tools /\ ~Calling("worker")'
       \/ receipt = "started" /\ receipt' \in {"completed", "failed"} /\ ~Calling("worker")'

LEMMA WorkerGoes ==
    ASSUME Shape, NEW place, GoTo("worker", place)
    PROVE  W' = place
  BY DEF Shape, GoTo, W, Threads

LEMMA WorkerCalls ==
    ASSUME Shape, NEW to \in Statuses, NEW reason \in Reasons, NEW forced \in BOOLEAN,
           NEW place \in WorkerPlaces, Begin("worker", to, reason, forced, place)
    PROVE  W' = place /\ Calling("worker")' /\ call'["worker"].to = to
<1>1. Starts("worker", place, to, reason, forced)
  BY BeginStarts DEF Threads
<1> QED
  BY <1>1 DEF Starts, Moved, Calling, W

LEMMA WalkLives ==
    ASSUME Shape, ~Calling("worker"), receipt # "started", UNCHANGED <<call, receipt>>,
           NEW place \in WorkerPlaces \ {"none", "final"}, GoTo("worker", place),
           place = "ended" => snap.status \in Terminal
    PROVE  WorkerLife
<1>1. W' = place /\ ~Calling("worker")'
  BY WorkerGoes DEF Calling
<1> QED
  BY <1>1 DEF WorkerLife

LEMMA StartLives ==
    ASSUME Shape, receipt # "started", UNCHANGED receipt,
           NEW to \in Running \cup Terminal, NEW reason \in Reasons, NEW forced \in BOOLEAN,
           NEW place \in WorkerPlaces \ {"none", "final"}, Begin("worker", to, reason, forced, place),
           to = "CANCELLING" => cancelEvent, to = "COMPLETE" => W = "final"
    PROVE  WorkerLife
<1>1. W' = place /\ Calling("worker")' /\ call'["worker"].to = to
  BY WorkerCalls DEF Statuses
<1> QED
  BY <1>1 DEF WorkerLife

LEMMA WorkerLives ==
    ASSUME IInv, LifeInv, WorkerStep
    PROVE  WorkerLife
<1> USE DEF Transition
<1>1. /\ Shape /\ crashes = 0 /\ ~Calling("worker") /\ call["worker"] = NoCall
      /\ receipt = "started" => W \in Tools
  <2>1. \E place \in WorkerPlaces : WorkerMoves(place)
    BY WorkerActs DEF IInv
  <2>2. W # "none" /\ ~Calling("worker")
    BY <2>1 DEF WorkerMoves
  <2> QED
    BY <2>2 DEF IInv, Common, Base, OneRun, Shape, LifeInv, Receipts, Calling
<1>2. /\ {"begin", "aborting", "baseline", "polled_baseline", "loop", "probe", "polled_probe", "next",
         "waiting", "closing", "synthesize", "finish", "failing", "ended"}
            = WorkerPlaces \ {"none", "final"}
      /\ {"PLAN_FROZEN", "BASELINE_RUNNING", "EXECUTING", "VERIFYING_RESTORE", "SYNTHESIZING",
          "CANCELLING", "AWAITING_HUMAN", "COMPLETE", "FAILED", "ABORTED"} = Running \cup Terminal
      /\ {"none", "user", "error", "restart", "cleanup"} = Reasons
      /\ Tools = {"baseline", "probe", "finish"}
  BY DEF Running, Terminal, Tools, WorkerPlaces, Reasons
<1>3. CASE BeginRun
  BY <1>1, <1>2, <1>3, WalkLives, StartLives DEF BeginRun, Worker, At, W
<1>4. CASE AbortBeforeRun
  BY <1>1, <1>2, <1>4, WalkLives, StartLives DEF AbortBeforeRun, Worker, At, W
<1>5. CASE StartTool
  <2>1. W \in Tools /\ receipt # "started" /\ receipt' = "started" /\ W' = W /\ call' = call
    BY <1>5 DEF StartTool, W, run
  <2>2. W' \in Tools /\ W' \notin {"ended", "final"} /\ ~Calling("worker")'
    BY <1>1, <1>2, <2>1 DEF Calling
  <2> QED
    BY <2>1, <2>2 DEF WorkerLife
<1>6. CASE EndTool
  <2>1. receipt = "started" /\ receipt' \in {"completed", "failed"} /\ UNCHANGED call
    BY <1>6 DEF EndTool
  <2>2. ~Calling("worker")'
    BY <1>1, <2>1 DEF Calling
  <2>3. W' # "ended" /\ (W' = "final" => receipt' = "completed")
    <3>1. CASE receipt' = "failed" /\ GoTo("worker", "failing")
      <4>1. W' = "failing"
        BY <1>1, <3>1, WorkerGoes
      <4> QED
        BY <4>1
    <3>2. CASE receipt' = "completed" /\ \E place \in {"polled_baseline", "polled_probe", "final"} : GoTo("worker", place)
      <4>1. W' \in {"polled_baseline", "polled_probe", "final"}
        BY <1>1, <3>2, WorkerGoes
      <4> QED
        BY <3>2, <4>1
    <3> QED
      BY <1>2, <1>6, <3>1, <3>2 DEF EndTool
  <2> QED
    BY <2>1, <2>2, <2>3 DEF WorkerLife
<1>7. CASE Poll
  BY <1>1, <1>2, <1>7, WalkLives, StartLives DEF Poll, ObserveCancel, Worker, At, W
<1>8. CASE Loop
  BY <1>1, <1>2, <1>8, WalkLives, StartLives DEF Loop, ObserveCancel, Worker, At, W
<1>9. CASE NextAction
  BY <1>1, <1>2, <1>9, WalkLives, StartLives DEF NextAction, Worker, At, W
<1>10. CASE AwaitHuman
  BY <1>1, <1>2, <1>10, WalkLives, StartLives DEF AwaitHuman, Worker, At, W
<1>11. CASE Close
  BY <1>1, <1>2, <1>11, WalkLives, StartLives DEF Close, ObserveCancel, Worker, At, W
<1>12. CASE Synthesize
  BY <1>1, <1>2, <1>12, WalkLives, StartLives DEF Synthesize, Worker, At, W
<1>13. CASE Finish
  BY <1>1, <1>2, <1>13, WalkLives, StartLives DEF Finish, Worker, At, W
<1>14. CASE Fail
  BY <1>1, <1>2, <1>14, WalkLives, StartLives DEF Fail, Worker, At, W
<1> QED
  BY <1>3, <1>4, <1>5, <1>6, <1>7, <1>8, <1>9, <1>10, <1>11, <1>12, <1>13, <1>14 DEF WorkerStep

(* And of a step of the operator.                                          *)
OperatorLife ==
    /\ ~Calling("operator") /\ up
    /\ cancelEvent' = cancelEvent \/ cancelEvent' = TRUE
    /\ Calling("operator")' =>
          /\ call'["operator"].step \in {"announce", "check"} /\ ~call'["operator"].forced
          /\ call'["operator"].to \in OperatorTargets
          /\ call'["operator"].to = "CANCELLING" => O = "signalled" /\ O' = "accepted"
          /\ call'["operator"].to # "CANCELLING" => O \in Sweeping
          /\ call'["operator"].to = "PLAN_FROZEN" => O' = "launch"
    /\ O' \in {"signalled", "accepted"} =>
          O \in {"signalled", "accepted"} \/ ThreadAlive \/ (O = "idle" /\ snap.status \in Running)
    /\ O' = "launch" => O = "approving" /\ Calling("operator")' /\ call'["operator"].to = "PLAN_FROZEN"

LEMMA OperatorGoes ==
    ASSUME Shape, ~Calling("operator"), up, NEW place \in ClientPlaces \ {"launch"}, GoTo("operator", place),
           UNCHANGED call, cancelEvent' = cancelEvent \/ cancelEvent' = TRUE,
           place \in {"signalled", "accepted"} =>
              O \in {"signalled", "accepted"} \/ ThreadAlive \/ (O = "idle" /\ snap.status \in Running)
    PROVE  OperatorLife
<1>1. O' = place /\ ~Calling("operator")'
  BY DEF Shape, GoTo, O, Threads, Calling
<1> QED
  BY <1>1 DEF OperatorLife

LEMMA OperatorCalls ==
    ASSUME Shape, ~Calling("operator"), up, NEW to \in OperatorTargets, NEW reason \in Reasons,
           NEW place \in ClientPlaces, Transition("operator", to, reason, place), UNCHANGED cancelEvent,
           to = "CANCELLING" => O = "signalled" /\ place = "accepted",
           to # "CANCELLING" => O \in Sweeping /\ place \notin {"signalled", "accepted"},
           to = "PLAN_FROZEN" <=> place = "launch", place = "launch" => O = "approving"
    PROVE  OperatorLife
<1>1. Starts("operator", place, to, reason, FALSE)
  BY BeginStarts DEF Threads, Transition, OperatorTargets, Statuses, Running, Terminal
<1> QED
  BY <1>1 DEF Starts, Moved, Calling, O, OperatorLife

LEMMA OperatorLives ==
    ASSUME IInv, Operator \/ OperatorStep \/ Approve \/ AcquireLease
    PROVE  OperatorLife
<1>1. /\ {"idle", "approving", "early", "signalled", "accepted", "answering", "sweep",
          "abort", "swept", "recovering"} = ClientPlaces \ {"launch"}
      /\ {"launch", "accepted", "idle", "abort", "swept", "recovering"} \subseteq ClientPlaces
      /\ {"none", "user", "restart", "cleanup"} \subseteq Reasons
      /\ Sweeping = {"early", "approving", "launch", "sweep", "abort", "swept", "recovering"}
      /\ OperatorTargets = {"PLAN_FROZEN", "CANCELLING", "RECOVERING", "CLEANUP_REQUIRED",
                            "QUARANTINED", "ABORTED"}
  BY DEF ClientPlaces, Reasons, Sweeping, OperatorTargets
<1>2. Shape /\ Approver = "operator"
  BY DEF IInv, Common, Base, LeaseInv, OneApprover
<1>3. ~Calling("operator") /\ up
  BY <1>2 DEF Operator, OperatorStep, Cancel, Decide, Cleanup, Request, CancelEarly, CancelSignalled,
     CancelReturns, Answer, Sweep, Abort, Swept, Recover, Approve, AcquireLease, At, Calling
<1>4. CASE Cancel
  BY <1>1, <1>2, <1>3, <1>4, OperatorGoes DEF Cancel, Request, At, O
<1>5. CASE Decide
  BY <1>1, <1>2, <1>3, <1>5, OperatorGoes DEF Decide, Request, At, O
<1>6. CASE Cleanup
  BY <1>1, <1>2, <1>3, <1>6, OperatorGoes DEF Cleanup, Request, At, O
<1>7. CASE CancelEarly
  BY <1>1, <1>2, <1>3, <1>7, OperatorCalls DEF CancelEarly, At, O
<1>8. CASE CancelSignalled
  BY <1>1, <1>2, <1>3, <1>8, OperatorGoes, OperatorCalls DEF CancelSignalled, At, O
<1>9. CASE CancelReturns
  BY <1>1, <1>2, <1>3, <1>9, OperatorGoes DEF CancelReturns, At, O
<1>10. CASE Answer
  BY <1>1, <1>2, <1>3, <1>10, OperatorGoes DEF Answer, At, O
<1>11. CASE Sweep
  BY <1>1, <1>2, <1>3, <1>11, OperatorGoes, OperatorCalls DEF Sweep, At, O
<1>12. CASE Abort
  BY <1>1, <1>2, <1>3, <1>12, OperatorCalls DEF Abort, At, O
<1>13. CASE Swept
  BY <1>1, <1>2, <1>3, <1>13, OperatorGoes DEF Swept, At, O
<1>14. CASE Recover
  BY <1>1, <1>2, <1>3, <1>14, OperatorCalls DEF Recover, At, O
<1>15. CASE Approve
  BY <1>1, <1>2, <1>3, <1>15, OperatorGoes DEF Approve, At, O
<1>16. CASE AcquireLease
  BY <1>1, <1>2, <1>3, <1>16, OperatorGoes, OperatorCalls DEF AcquireLease, At, O
<1> QED
  BY <1>4, <1>5, <1>6, <1>7, <1>8, <1>9, <1>10, <1>11, <1>12, <1>13, <1>14, <1>15, <1>16
     DEF Operator, OperatorStep

LEMMA WorkerMovesLife ==
    ASSUME IInv, LifeInv, WorkerMoves(W'), WorkerLife
    PROVE  LifeInv'
<1>1. /\ W \notin {"none", "ended"} /\ W' # "none" /\ ~Calling("worker") /\ ThreadAlive /\ crashes = 0
      /\ O' = O /\ call'["operator"] = call["operator"]
      /\ UNCHANGED <<stored, snap, cancelEvent, crashes>>
      /\ Calling("worker")' => call'["worker"].step \in {"announce", "check"}
  <2>1. W \notin {"none", "ended"} /\ W' # "none" /\ ~Calling("worker")
    BY DEF WorkerMoves
  <2>2. crashes = 0
    BY <2>1 DEF IInv, Common, Base, Shape, OneRun
  <2> QED
    BY <2>1, <2>2 DEF WorkerMoves, Walks, Starts, Moved, Elsewhere, Threads, O, ThreadAlive, W, Calling
<1>2. ~Closing /\ ~Closing'
  BY <1>1 DEF Closing, Calling, NoCall
<1>3. ThreadAlive'
  <2>1. snap.status \notin Terminal
    BY <1>1, <1>2 DEF IInv, LeaseInv, Silent, Closing
  <2> QED
    BY <1>1, <2>1 DEF WorkerLife, ThreadAlive, W, Calling
<1>4. Targets'
  BY <1>1, <1>3 DEF LifeInv, Targets, WorkerLife, Calling
<1>5. AskedFor' /\ Receipts'
  BY <1>1 DEF LifeInv, AskedFor, Receipts, WorkerLife, Calling
<1>6. Launching'
  BY <1>1 DEF LifeInv, Launching, Calling
<1>7. Underway' /\ Sole'
  BY <1>1, <1>2, <1>3 DEF LifeInv, Underway, Sole, Solo, Calling, Cancelling
<1> QED
  BY <1>4, <1>5, <1>6, <1>7 DEF LifeInv

LEMMA OperatorMovesLife ==
    ASSUME IInv, LifeInv, OperatorMoves(O'), OperatorLife
    PROVE  LifeInv'
<1>1. /\ W' = W /\ call'["worker"] = call["worker"] /\ ~Calling("operator") /\ call["operator"] = NoCall
      /\ UNCHANGED <<stored, snap, receipt, crashes>>
      /\ cancelEvent => cancelEvent'
      /\ (ThreadAlive' <=> ThreadAlive) /\ (Closing' <=> Closing) /\ ~Cancelling /\ ~Cancelling'
      /\ (Calling("worker")' <=> Calling("worker"))
      /\ Calling("operator")' => call'["operator"].step \in {"announce", "check"}
  BY DEF OperatorMoves, ClientMoves, Walks, Starts, Moved, Elsewhere, Threads, W, OperatorLife, ThreadAlive,
     Closing, Cancelling, Calling, NoCall
<1>2. O \in Sweeping => ~ThreadAlive
  BY DEF IInv, LeaseInv, Alone
<1>3. Targets'
  BY <1>1, <1>2 DEF LifeInv, Targets, OperatorLife
<1>4. W = "none" => ~ThreadAlive
  BY DEF IInv, Common, Base, OneRun, ThreadAlive, Calling, W
<1>5. AskedFor' /\ Receipts'
  <2>1. crashes = 0 /\ O' \in {"signalled", "accepted"} => W # "none"
    <3>1. crashes = 0 /\ O = "idle" /\ snap.status \in Running => W # "none"
      BY DEF LifeInv, Launching
    <3> QED
      BY <1>4, <3>1 DEF OperatorLife, LifeInv, AskedFor
  <2> QED
    BY <1>1, <2>1 DEF LifeInv, AskedFor, Receipts
<1>6. Launching'
  <2>1. O = "approving" => snap.status = "AWAITING_APPROVAL" /\ stored.status = "AWAITING_APPROVAL"
    BY DEF IInv, LeaseInv, Holding
  <2>2. O # "launch"
    BY DEF OperatorMoves, Tidy, O
  <2> QED
    BY <1>1, <2>1, <2>2 DEF LifeInv, Launching, OperatorLife
<1>7. Underway'
  BY <1>1 DEF LifeInv, Underway
<1>8. Sole'
  BY <1>1 DEF LifeInv, Sole, Solo, NoCall, Calling
<1> QED
  BY <1>3, <1>5, <1>6, <1>7, <1>8 DEF LifeInv

LEMMA LaunchLife == IInv /\ LifeInv /\ Launch => LifeInv'
<1> SUFFICES ASSUME IInv, LifeInv, Launch PROVE LifeInv'
  OBVIOUS
<1>1. /\ O = "launch" /\ ~Calling("operator") /\ call["operator"] = NoCall
      /\ W = "none" /\ ~Calling("worker") /\ call["worker"] = NoCall /\ crashes = 0
  <2>1. O = "launch" /\ ~Calling("operator") /\ Approver = "operator"
    BY DEF Launch, At, Calling, O, IInv, LeaseInv, OneApprover
  <2>2. at[Approver] = "launch"
    BY <2>1 DEF O
  <2>3. W = "none" /\ crashes = 0
    BY <2>1, <2>2 DEF IInv, LeaseInv, Common, Base, OneRun, Holding
  <2>4. ~Calling("worker")
    BY <2>3 DEF IInv, LeaseInv, Common, Base, OneRun
  <2> QED
    BY <2>1, <2>3, <2>4 DEF Calling
<1>2. /\ W' = "begin" /\ O' = "idle" /\ UNCHANGED <<stored, snap, receipt, cancelEvent, call, crashes>>
  BY DEF Launch, IInv, LeaseInv, Common, Base, Shape, OneApprover, W, O, Threads, disk, run, history
<1>3. snap.status = "PLAN_FROZEN" /\ stored.status = "PLAN_FROZEN"
  BY <1>1 DEF LifeInv, Launching, Calling
<1>4. ~Closing' /\ ~Cancelling' /\ ~Calling("worker")' /\ ~Calling("operator")'
  BY <1>1, <1>2 DEF Closing, Cancelling, Calling, NoCall
<1>5. receipt # "started"
  BY <1>1 DEF LifeInv, Receipts, Tools
<1>6. Targets' /\ AskedFor' /\ Receipts' /\ Launching'
  BY <1>1, <1>2, <1>3, <1>4, <1>5 DEF Targets, AskedFor, Receipts, Launching
<1>7. Underway' /\ Sole'
  BY <1>1, <1>2, <1>3, <1>4, StatusFacts DEF Underway, Sole, Solo
<1> QED
  BY <1>6, <1>7 DEF LifeInv

LEMMA CrashLife == IInv /\ Crash => LifeInv'
<1> SUFFICES ASSUME IInv, Crash PROVE LifeInv'
  OBVIOUS
<1>1. /\ W' = "none" /\ O' = "idle" /\ call'["worker"] = NoCall /\ call'["operator"] = NoCall
      /\ snap' = stored /\ UNCHANGED stored /\ crashes' = crashes + 1
  BY DEF Crash, W, O, Threads, disk
<1>2. crashes' # 0 /\ crashes' > 0
  BY <1>1 DEF IInv, LeaseInv, Common, Base, Shape
<1>3. ~ThreadAlive' /\ ~Calling("worker")' /\ ~Calling("operator")'
  BY <1>1 DEF ThreadAlive, W, Calling
<1>4. Targets' /\ AskedFor' /\ Receipts' /\ Launching' /\ Underway'
  BY <1>1, <1>2, <1>3 DEF Targets, AskedFor, Receipts, Launching, Underway
<1>5. Sole'
  BY <1>1, <1>2, <1>3 DEF Sole, Solo, NoCall
<1> QED
  BY <1>4, <1>5 DEF LifeInv

LEMMA ResumesLife == IInv /\ LifeInv /\ Resumes => LifeInv'
<1> SUFFICES ASSUME IInv, LifeInv, Resumes PROVE LifeInv'
  OBVIOUS
<1>1. /\ ~up /\ O = "idle" /\ W = "none" /\ crashes > 0 /\ crashes # 0 /\ crashes \in Nat
      /\ ~Calling("operator") /\ ~Calling("worker") /\ call["operator"] = NoCall
      /\ UNCHANGED <<stored, snap, crashes>>
  BY DEF Resumes, IInv, LeaseInv, Common, Base, Shape, OneRun, Calling
<1>2. /\ W' = W /\ call'["worker"] = call["worker"] /\ O' \in {"idle", "recovering"}
      /\ \/ call'["operator"] = NoCall
         \/ Calling("operator")' /\ call'["operator"].to = "QUARANTINED" /\ call'["operator"].step = "check"
  BY <1>1, StatusFacts DEF Resumes, Walks, Starts, Moved, Elsewhere, W, O, Threads, Calling
<1>3. ~ThreadAlive' /\ ~Calling("worker")'
  BY <1>1, <1>2 DEF ThreadAlive, W, Calling
<1>4. Targets' /\ AskedFor' /\ Receipts' /\ Launching' /\ Underway'
  BY <1>1, <1>2, <1>3 DEF Targets, AskedFor, Receipts, Launching, Underway, Calling, OperatorTargets
<1>5. stored.status = snap.status
  BY <1>1 DEF LifeInv, Sole, NoCall
<1>6. Sole'
  BY <1>1, <1>2, <1>3, <1>5 DEF Sole, Solo, NoCall, Calling
<1> QED
  BY <1>4, <1>6 DEF LifeInv

(* A step of a call of the worker.                                         *)
LEMMA WorkerCallLife ==
    ASSUME IInv, LifeInv, CallStep("worker")
    PROVE  LifeInv'
<1> DEFINE c == call["worker"]
<1>1. /\ Calling("worker") /\ crashes = 0 /\ W # "none" /\ ThreadAlive
      /\ O' = O /\ call'["operator"] = call["operator"] /\ UNCHANGED <<crashes, cancelEvent, receipt>>
      /\ (Cancelling' <=> Cancelling) /\ (Calling("operator")' <=> Calling("operator"))
      /\ (Solo' <=> Solo) /\ receipt # "started"
  <2>1. Calling("worker") /\ crashes = 0 /\ W # "none" /\ ThreadAlive
    BY DEF CallStep, IInv, Common, Base, Shape, OneRun, ThreadAlive, Calling
  <2>2. O' = O /\ call'["operator"] = call["operator"] /\ UNCHANGED <<crashes, cancelEvent, receipt>>
    BY DEF CallStep, Proceeds, Ends, O, Threads
  <2>3. receipt # "started"
    BY <2>1 DEF LifeInv, Receipts
  <2> QED
    BY <2>1, <2>2, <2>3 DEF Cancelling, Calling, Solo
<1>2. /\ c.to \in Running \cup Terminal
      /\ Calling("operator") => call["operator"].to = "CANCELLING"
      /\ W = "ended" => c.to \in Terminal
      /\ c.to \in Terminal => W = "ended"
      /\ c.forced => c.to \in Terminal
      /\ O # "launch"
  BY <1>1 DEF LifeInv, Targets, IInv, Common, Completing, LeaseInv, Alone, Sweeping
<1>3. CASE c.step \in {"announce", "check"} /\ Proceeds("worker", IF c.step = "announce" THEN "check" ELSE "assign")
           /\ UNCHANGED <<stored, snap, at>>
  <2>1. W' = W /\ Calling("worker")' /\ ThreadAlive' /\ call'["worker"].to = c.to /\ ~Closing /\ ~Closing'
    BY <1>3 DEF Proceeds, W, Calling, ThreadAlive, Closing
  <2> QED
    BY <1>1, <1>2, <1>3, <2>1 DEF LifeInv, Targets, AskedFor, Receipts, Launching, Underway, Sole
<1>4. CASE c.step = "publish" /\ Ends("worker") /\ UNCHANGED <<stored, snap, at>>
  <2>1. c.to \notin Terminal
    BY <1>1, <1>4 DEF IInv, Common, Base, CallsSane, Threads
  <2>2. W' = W /\ ~Calling("worker")' /\ ThreadAlive' /\ ~Closing /\ ~Closing' /\ W # "ended"
    BY <1>1, <1>2, <1>4, <2>1 DEF Ends, W, Calling, ThreadAlive, Closing, NoCall
  <2>3. receipt # "started" /\ (W = "final" => receipt = "completed")
    BY <1>1 DEF LifeInv, Receipts
  <2> QED
    BY <1>1, <1>2, <1>4, <2>2, <2>3 DEF LifeInv, Targets, AskedFor, Receipts, Launching, Underway, Sole
<1>5. CASE c.step = "check" /\ ~Permitted(c) /\ Ends("worker") /\ UNCHANGED <<stored, snap>>
           /\ at'["worker"] \in {"ended", "failing"} /\ (at'["worker"] = "ended" => c.forced)
  <2>1. ~Closing
    BY <1>5 DEF Closing
  <2>2. snap.status \notin Terminal
    BY <1>1, <1>5 DEF IInv, LeaseInv, Silent
  <2>3. ~c.forced
    BY <1>2, <1>5, <2>2 DEF Permitted
  <2>4. W' = "failing" /\ ~Calling("worker")' /\ ThreadAlive' /\ ~Closing'
    BY <1>5, <2>3 DEF Ends, W, Calling, ThreadAlive, Closing, NoCall
  <2> QED
    BY <1>1, <1>2, <1>5, <2>1, <2>4 DEF LifeInv, Targets, AskedFor, Receipts, Launching, Underway, Sole
<1>6. CASE c.step = "assign" /\ Proceeds("worker", "store") /\ snap'.status = c.to /\ UNCHANGED <<stored, at>>
  <2>1. W' = W /\ Calling("worker")' /\ ThreadAlive' /\ call'["worker"].to = c.to /\ ~Closing
        /\ (Closing' <=> c.to \in Terminal)
    BY <1>6 DEF Proceeds, W, Calling, ThreadAlive, Closing
  <2>2. stored.status \in Running
    BY <1>1, <2>1 DEF LifeInv, Underway
  <2>3. snap'.status = "CANCELLING" => cancelEvent
    BY <1>1, <1>6 DEF LifeInv, AskedFor
  <2>4. Targets' /\ AskedFor' /\ Receipts' /\ Launching'
    BY <1>1, <1>2, <1>6, <2>1, <2>3 DEF LifeInv, Targets, AskedFor, Receipts, Launching
  <2>5. Underway'
    BY <1>1, <1>2, <1>6, <2>1, <2>2 DEF Underway
  <2>6. Sole'
    BY <1>1, <1>2, <2>1 DEF Sole, Solo
  <2> QED
    BY <2>4, <2>5, <2>6 DEF LifeInv
<1>7. CASE c.step = "store" /\ c.to \notin Terminal /\ Proceeds("worker", "publish") /\ UNCHANGED <<snap, at>>
           /\ stored'.status \in {snap.status, c.to}
  <2>1. W' = W /\ Calling("worker")' /\ ThreadAlive' /\ call'["worker"].to = c.to /\ ~Closing /\ ~Closing'
    BY <1>7 DEF Proceeds, W, Calling, ThreadAlive, Closing
  <2>2. snap.status \in Running /\ c.to \in Running
    BY <1>1, <1>2, <1>7, <2>1 DEF LifeInv, Underway
  <2> QED
    BY <1>1, <1>2, <1>7, <2>1, <2>2 DEF LifeInv, Targets, AskedFor, Receipts, Launching, Underway, Sole, Solo
<1>8. CASE c.step = "store" /\ c.to \in Terminal /\ Ends("worker") /\ UNCHANGED <<snap, at>>
           /\ stored'.status \in {snap.status, c.to}
  <2>1. W' = "ended" /\ ~Calling("worker")' /\ ~ThreadAlive' /\ Closing
    BY <1>2, <1>8 DEF Ends, W, Calling, ThreadAlive, Closing
  <2>2. snap.status \in {c.to, "CANCELLING"}
    BY <1>1, <2>1 DEF LifeInv, Underway
  <2>3. Targets' /\ AskedFor' /\ Receipts' /\ Launching' /\ Underway'
    BY <1>1, <1>2, <1>8, <2>1 DEF LifeInv, Targets, AskedFor, Receipts, Launching, Underway
  <2>4. Sole'
    BY <1>1, <1>2, <1>8, <2>2, StatusFacts DEF LifeInv, Sole, Solo
  <2> QED
    BY <2>3, <2>4 DEF LifeInv
<1>9. \/ c.step = "announce" /\ Proceeds("worker", "check") /\ UNCHANGED <<stored, snap, at>>
      \/ c.step = "publish" /\ Ends("worker") /\ UNCHANGED <<stored, snap, at>>
      \/ c.step = "check" /\ Proceeds("worker", "assign") /\ UNCHANGED <<stored, snap, at>>
      \/ c.step = "check" /\ ~Permitted(c) /\ Ends("worker") /\ UNCHANGED <<stored, snap>>
         /\ at'["worker"] \in {"ended", "failing"} /\ (at'["worker"] = "ended" => c.forced)
      \/ c.step = "assign" /\ Proceeds("worker", "store") /\ snap'.status = c.to /\ UNCHANGED <<stored, at>>
      \/ c.step = "store" /\ c.to \notin Terminal /\ Proceeds("worker", "publish") /\ UNCHANGED <<snap, at>>
         /\ stored'.status \in {snap.status, c.to}
      \/ c.step = "store" /\ c.to \in Terminal /\ Ends("worker") /\ UNCHANGED <<snap, at>>
         /\ stored'.status \in {snap.status, c.to}
  BY DEF CallStep
<1> QED
  BY <1>3, <1>4, <1>5, <1>6, <1>7, <1>8, <1>9

(* A step of a call of the operator.                                       *)
LEMMA OperatorCallFacts ==
    ASSUME IInv, LifeInv, CallStep("operator")
    PROVE  LET c == call["operator"] IN
           /\ Calling("operator") /\ up /\ c \in Calls
           /\ W' = W /\ call'["worker"] = call["worker"]
           /\ UNCHANGED <<crashes, cancelEvent, receipt>>
           /\ (Closing' <=> Closing) /\ (ThreadAlive' <=> ThreadAlive)
           /\ (Calling("worker")' <=> Calling("worker"))
           /\ c.to \in OperatorTargets /\ c.to # "COMPLETE"
           /\ c.forced => c.to = "QUARANTINED" /\ crashes > 0
           /\ c.to = "CANCELLING" => O = "accepted" /\ (crashes = 0 => cancelEvent /\ W # "none")
           /\ c.to # "CANCELLING" => ~ThreadAlive
           /\ c.to = "PLAN_FROZEN" => O = "launch"
           /\ O = "launch" => /\ c.to = "PLAN_FROZEN" /\ ~c.forced /\ crashes = 0
                              /\ c.step \in {"check", "assign"} => snap.status = "AWAITING_APPROVAL"
                              /\ stored.status \in {"AWAITING_APPROVAL", "PLAN_FROZEN"}
           /\ W = "none" => ~ThreadAlive
           /\ crashes # 0 => crashes > 0 /\ ~ThreadAlive
<1>1. /\ Calling("operator") /\ up /\ W' = W /\ call'["worker"] = call["worker"]
      /\ UNCHANGED <<crashes, cancelEvent, receipt>>
  BY DEF CallStep, Proceeds, Ends, W, Threads
<1>2. (Closing' <=> Closing) /\ (ThreadAlive' <=> ThreadAlive)
      /\ (Calling("worker")' <=> Calling("worker"))
  BY <1>1 DEF Closing, ThreadAlive, W, Calling
<1>3. call["operator"] \in Calls /\ (call["operator"].forced => call["operator"].to = "QUARANTINED")
      /\ call["operator"].to # "COMPLETE"
  BY <1>1, CallsTyped DEF IInv, Common, Base, CallsSane, Threads
<1>4. W = "none" => ~ThreadAlive
  BY DEF IInv, Common, Base, OneRun, ThreadAlive, Calling, W
<1>5. crashes # 0 => crashes > 0 /\ ~ThreadAlive
  BY <1>4 DEF IInv, Common, Base, Shape, OneRun
<1>6. O = "launch" => crashes = 0
  BY DEF IInv, LeaseInv, Holding
<1>7. call["operator"].to = "CANCELLING" => O = "accepted" /\ (crashes = 0 => cancelEvent /\ W # "none")
  BY <1>1 DEF LifeInv, Targets, AskedFor, IInv, Common, CancelSeen
<1>8. O = "launch" => ~call["operator"].forced
  BY <1>1, <1>6 DEF LifeInv, Targets
<1> QED
  BY <1>1, <1>2, <1>3, <1>4, <1>5, <1>6, <1>7, <1>8 DEF LifeInv, Targets, Launching

(* Where a call of the operator may come to: cases of CallStep.            *)
LEMMA OperatorCallCases ==
    ASSUME IInv, LifeInv, CallStep("operator")
    PROVE  LET c == call["operator"]
               d == call'["operator"] IN
           \/ /\ c.step \in {"announce", "check"}
              /\ d.step = IF c.step = "announce" THEN "check" ELSE "assign"
              /\ d # NoCall /\ d.to = c.to /\ d.forced = c.forced
              /\ c.step = "announce" => c.to \in Terminal
              /\ c.step = "check" => Permitted(c)
              /\ O' = O /\ UNCHANGED <<stored, snap>>
           \/ c.step = "publish" /\ d = NoCall /\ O' = O /\ UNCHANGED <<stored, snap>>
           \/ c.step = "check" /\ ~Permitted(c) /\ d = NoCall /\ O' = "idle" /\ UNCHANGED <<stored, snap>>
           \/ /\ c.step = "assign" /\ d.step = "store" /\ d # NoCall /\ d.to = c.to /\ d.forced = c.forced
              /\ snap'.status = c.to /\ O' = O /\ UNCHANGED stored
           \/ /\ c.step = "store" /\ stored'.status \in {snap.status, c.to} /\ O' = O /\ UNCHANGED snap
              /\ \/ c.to \in Terminal /\ d = NoCall
                 \/ /\ c.to \notin Terminal /\ d.step = "publish" /\ d # NoCall /\ d.to = c.to
                    /\ d.forced = c.forced
<1>1. "operator" # "worker" /\ (call["operator"].step = "announce" => call["operator"].to \in Terminal)
  BY DEF CallStep, IInv, Common, Base, CallsSane, Threads
<1> QED
  BY <1>1 DEF CallStep, Proceeds, Ends, O

LEMMA OperatorCallLife ==
    ASSUME IInv, LifeInv, CallStep("operator")
    PROVE  LifeInv'
<1> DEFINE c == call["operator"]
           d == call'["operator"]
<1>1. /\ Calling("operator") /\ W' = W /\ call'["worker"] = call["worker"]
      /\ UNCHANGED <<crashes, cancelEvent, receipt>>
      /\ (Closing' <=> Closing) /\ (ThreadAlive' <=> ThreadAlive)
      /\ (Calling("worker")' <=> Calling("worker"))
      /\ c.to \in OperatorTargets
      /\ c.forced => c.to = "QUARANTINED" /\ crashes > 0
      /\ c.to = "CANCELLING" => O = "accepted" /\ (crashes = 0 => cancelEvent /\ W # "none")
      /\ c.to # "CANCELLING" => ~ThreadAlive
      /\ c.to = "PLAN_FROZEN" => O = "launch"
      /\ O = "launch" => /\ c.to = "PLAN_FROZEN" /\ ~c.forced /\ crashes = 0
                         /\ c.step \in {"check", "assign"} => snap.status = "AWAITING_APPROVAL"
                         /\ stored.status \in {"AWAITING_APPROVAL", "PLAN_FROZEN"}
  BY OperatorCallFacts
<1>2. Receipts'
  BY <1>1 DEF LifeInv, Receipts
<1>3. CASE /\ c.step \in {"announce", "check"}
           /\ d.step = IF c.step = "announce" THEN "check" ELSE "assign"
           /\ d # NoCall /\ d.to = c.to /\ d.forced = c.forced
           /\ c.step = "announce" => c.to \in Terminal
           /\ c.step = "check" => Permitted(c)
           /\ O' = O /\ UNCHANGED <<stored, snap>>
  <2>1. c.step = "check" => snap.status \notin Terminal \/ (c.forced /\ c.to = "QUARANTINED")
    BY <1>1, <1>3 DEF Permitted, Legal
  <2>2. Calling("operator")' /\ ~Cancelling
    BY <1>3 DEF Calling, Cancelling
  <2>3. Cancelling' => c.to = "CANCELLING" /\ snap.status \notin Terminal
    BY <1>3, <2>1 DEF Cancelling
  <2>4. Targets' /\ AskedFor'
    BY <1>1, <1>3, <2>2 DEF LifeInv, Targets, AskedFor
  <2>5. Launching'
    BY <1>1, <1>3, <2>2, StatusFacts DEF LifeInv, Launching
  <2>6. Underway'
    BY <1>1, <1>3, <2>2, <2>3 DEF LifeInv, Underway, Closing
  <2>7. Sole'
    BY <1>1, <1>3, <2>1, <2>2, <2>3 DEF LifeInv, Sole, Solo
  <2> QED
    BY <1>2, <2>4, <2>5, <2>6, <2>7 DEF LifeInv
<1>4. CASE c.step = "publish" /\ d = NoCall /\ O' = O /\ UNCHANGED <<stored, snap>>
  <2>1. ~Calling("operator")' /\ ~Cancelling /\ ~Cancelling' /\ d.step = "none"
    BY <1>4 DEF Calling, Cancelling, NoCall
  <2>2. c.to = "PLAN_FROZEN" => snap.status = "PLAN_FROZEN"
    BY <1>1, <1>4 DEF LifeInv, Sole, Solo
  <2>3. Targets' /\ AskedFor'
    BY <1>1, <1>4, <2>1 DEF LifeInv, Targets, AskedFor
  <2>4. Launching'
    BY <1>1, <1>4, <2>1, <2>2 DEF LifeInv, Launching
  <2>5. Underway' /\ Sole'
    BY <1>1, <1>4, <2>1 DEF LifeInv, Underway, Sole, Solo
  <2> QED
    BY <1>2, <2>3, <2>4, <2>5 DEF LifeInv
<1>5. CASE c.step = "check" /\ ~Permitted(c) /\ d = NoCall /\ O' = "idle" /\ UNCHANGED <<stored, snap>>
  <2>1. ~Calling("operator")' /\ ~Cancelling /\ ~Cancelling' /\ d.step = "none"
    BY <1>5 DEF Calling, Cancelling, NoCall
  <2>2. O # "launch"
    <3>1. Legal("AWAITING_APPROVAL", "PLAN_FROZEN")
      BY DEF Legal, Forward, Escapes, Statuses, Running, Terminal
    <3> QED
      BY <1>1, <1>5, <3>1 DEF Permitted
  <2>3. Targets' /\ AskedFor' /\ Launching'
    BY <1>1, <1>5, <2>1, <2>2 DEF LifeInv, Targets, AskedFor, Launching
  <2>4. Underway' /\ Sole'
    BY <1>1, <1>5, <2>1 DEF LifeInv, Underway, Sole, Solo
  <2> QED
    BY <1>2, <2>3, <2>4 DEF LifeInv
<1>6. CASE /\ c.step = "assign" /\ d.step = "store" /\ d # NoCall /\ d.to = c.to /\ d.forced = c.forced
           /\ snap'.status = c.to /\ O' = O /\ UNCHANGED stored
  <2>1. /\ Calling("operator")'
        /\ (Cancelling <=> c.to = "CANCELLING") /\ (Cancelling' <=> c.to = "CANCELLING")
    BY <1>6 DEF Calling, Cancelling
  <2>2. Targets' /\ AskedFor'
    BY <1>1, <1>6, <2>1 DEF LifeInv, Targets, AskedFor
  <2>3. Launching'
    BY <1>1, <1>6, <2>1, StatusFacts DEF LifeInv, Launching
  <2>4. Underway'
    BY <1>1, <1>6, <2>1, StatusFacts DEF LifeInv, Underway, Closing
  <2>5. Sole'
    BY <1>1, <1>6, <2>1, StatusFacts DEF LifeInv, Sole, Solo
  <2> QED
    BY <1>2, <2>2, <2>3, <2>4, <2>5 DEF LifeInv
<1>7. CASE /\ c.step = "store" /\ stored'.status \in {snap.status, c.to} /\ O' = O /\ UNCHANGED snap
           /\ \/ c.to \in Terminal /\ d = NoCall
              \/ /\ c.to \notin Terminal /\ d.step = "publish" /\ d # NoCall /\ d.to = c.to
                 /\ d.forced = c.forced
  <2>1. ~Cancelling' /\ d.step \in {"none", "publish"} /\ (d.step = "none" <=> d = NoCall)
    BY <1>7 DEF Cancelling, NoCall
  <2>2. c.to # "CANCELLING" \/ crashes > 0 => snap.status = c.to
    BY <1>1, <1>7 DEF LifeInv, Sole, Solo
  <2>3. Targets' /\ AskedFor'
    BY <1>1, <1>7, <2>1 DEF LifeInv, Targets, AskedFor, Calling
  <2>4. Launching'
    BY <1>1, <1>7, <2>1, <2>2, StatusFacts DEF LifeInv, Launching, Calling
  <2>5. Underway'
    BY <1>1, <1>7, <2>1, StatusFacts DEF LifeInv, Underway, Closing
  <2>6. Sole'
    BY <1>1, <1>7, <2>1, <2>2 DEF Sole, Solo, Calling
  <2> QED
    BY <1>2, <2>3, <2>4, <2>5, <2>6 DEF LifeInv
<1> QED
  BY <1>3, <1>4, <1>5, <1>6, <1>7, OperatorCallCases

LEMMA LifeStep == IInv /\ LifeInv /\ [Next]_vars => LifeInv'
<1> SUFFICES ASSUME IInv, LifeInv, [Next]_vars PROVE LifeInv'
  OBVIOUS
<1>1. CASE WorkerStep
  <2>1. WorkerMoves(W')
    <3>1. PICK place \in WorkerPlaces : WorkerMoves(place)
      BY <1>1, WorkerActs DEF IInv
    <3>2. W' = place
      BY <3>1 DEF WorkerMoves, Walks, Starts, Moved, W
    <3> QED
      BY <3>1, <3>2
  <2> QED
    BY <1>1, <2>1, WorkerLives, WorkerMovesLife
<1>2. CASE Operator \/ OperatorStep \/ Approve \/ AcquireLease
  <2>1. \E place \in ClientPlaces : OperatorMoves(place)
    BY <1>2, OperatorActs, ApproverActs DEF IInv, LeaseInv, OneApprover, OperatorMoves
  <2>2. OperatorMoves(O')
    <3>1. PICK place \in ClientPlaces : OperatorMoves(place)
      BY <2>1
    <3>2. O' = place
      BY <3>1 DEF OperatorMoves, ClientMoves, Walks, Starts, Moved, O
    <3> QED
      BY <3>1, <3>2
  <2> QED
    BY <1>2, <2>2, OperatorLives, OperatorMovesLife
<1>3. CASE Launch
  BY <1>3, LaunchLife
<1>4. CASE Crash
  BY <1>4, CrashLife
<1>5. CASE Restart
  BY <1>5, RestartResumes, ResumesLife DEF IInv
<1>6. ASSUME NEW t \in Threads, TransitionStep(t) PROVE LifeInv'
  <2>1. CallStep(t) /\ t # "round"
    BY <1>6, TransitionSteps DEF IInv, LeaseInv, OneApprover, Common, Base, CallStep
  <2> QED
    BY <2>1, WorkerCallLife, OperatorCallLife DEF Threads
<1>7. CASE UNCHANGED vars \/ Quiet
  <2>1. UNCHANGED vars
    BY <1>7 DEF Quiet
  <2> QED
    BY <2>1 DEF vars, disk, run, history, LifeInv, Targets, AskedFor, Receipts, Launching, Underway, Sole, Solo,
       Closing, Cancelling, Calling, W, O, ThreadAlive
<1> QED
  BY <1>1, <1>2, <1>3, <1>4, <1>5, <1>6, <1>7 DEF Next, ApproverStep

-----------------------------------------------------------------------------
(* The steps of ReviewControl are steps of ReviewLife.                     *)
Simulated == Life!Next \/ UNCHANGED <<Record, Phase, cancelEvent, receipt>>

LEMMA WorkerMovesSimulated ==
    ASSUME IInv, LifeInv, WorkerMoves(W'), WorkerLife
    PROVE  Simulated
<1>1. /\ W \notin {"none", "ended"} /\ W' # "none" /\ ~Calling("worker") /\ ThreadAlive /\ crashes = 0
      /\ UNCHANGED <<stored, snap, cancelEvent, crashes>>
  <2>1. W \notin {"none", "ended"} /\ W' # "none" /\ ~Calling("worker")
    BY DEF WorkerMoves
  <2>2. crashes = 0
    BY <2>1 DEF IInv, Common, Base, Shape, OneRun
  <2> QED
    BY <2>1, <2>2 DEF WorkerMoves, ThreadAlive, W, Calling
<1>2. ~Closing
  BY <1>1 DEF Closing, Calling, NoCall
<1>3. ThreadAlive'
  <2>1. snap.status \notin Terminal
    BY <1>1, <1>2 DEF IInv, LeaseInv, Silent, Closing
  <2> QED
    BY <1>1, <2>1 DEF WorkerLife, ThreadAlive, W, Calling
<1>4. stored.status \notin Terminal
  BY <1>1, <1>2, StatusFacts DEF LifeInv, Underway
<1>5. Phase = "running" /\ Phase' = "running" /\ Record' = Record
  BY <1>1, <1>3, <1>4 DEF Phase, Record, W
<1>6. CASE receipt' = receipt
  BY <1>1, <1>5, <1>6 DEF Simulated
<1>7. CASE receipt # "started" /\ receipt' = "started"
  BY <1>1, <1>5, <1>7 DEF Simulated, Life!Next, Life!Use
<1>8. CASE receipt = "started" /\ receipt' \in {"completed", "failed"}
  BY <1>1, <1>5, <1>8 DEF Simulated, Life!Next, Life!Return
<1> QED
  BY <1>6, <1>7, <1>8 DEF WorkerLife

LEMMA OperatorMovesSimulated ==
    ASSUME IInv, OperatorMoves(O'), OperatorLife
    PROVE  Simulated
<1>1. /\ W' = W /\ (ThreadAlive' <=> ThreadAlive) /\ ~Cancelling /\ ~Cancelling'
      /\ UNCHANGED <<stored, snap, receipt, crashes>>
      /\ cancelEvent' = cancelEvent \/ cancelEvent' = TRUE
  BY DEF OperatorMoves, ClientMoves, Walks, Starts, Moved, Elsewhere, Threads, W, OperatorLife, ThreadAlive,
     Cancelling, Calling, NoCall
<1>2. Phase' = Phase /\ Record' = Record
  BY <1>1 DEF Phase, Record, Settled, W
<1> QED
  BY <1>1, <1>2 DEF Simulated, Life!Next, Life!Ask

LEMMA LaunchSimulated == IInv /\ LifeInv /\ Launch => Simulated
<1> SUFFICES ASSUME IInv, LifeInv, Launch PROVE Simulated
  OBVIOUS
<1>1. /\ O = "launch" /\ ~Calling("operator") /\ Approver = "operator"
  BY DEF Launch, At, Calling, O, IInv, LeaseInv, OneApprover
<1>2. at[Approver] = "launch"
  BY <1>1 DEF O
<1>3. W = "none" /\ crashes = 0
  BY <1>1, <1>2 DEF IInv, LeaseInv, Common, Base, OneRun, Holding
<1>4. W' = "begin" /\ UNCHANGED <<stored, snap, receipt, cancelEvent, crashes>>
  BY DEF Launch, IInv, LeaseInv, Common, Base, Shape, OneApprover, W, O, Threads, disk, run, history
<1>5. stored.status = "PLAN_FROZEN"
  BY <1>1 DEF LifeInv, Launching, Calling
<1>6. ThreadAlive'
  BY <1>4 DEF ThreadAlive, W
<1>7. Phase = "planned" /\ Phase' = "running" /\ Record' = Record
  BY <1>3, <1>4, <1>5, <1>6, StatusFacts DEF Phase, Record, W
<1> QED
  BY <1>4, <1>7 DEF Simulated, Life!Next, Life!Begin

LEMMA CrashSimulated == IInv /\ Crash => Simulated
<1> SUFFICES ASSUME IInv, Crash PROVE Simulated
  OBVIOUS
<1>1. UNCHANGED <<stored, receipt>> /\ cancelEvent' = FALSE /\ crashes' = crashes + 1
  BY DEF Crash, disk
<1>2. crashes' > 0
  BY <1>1 DEF IInv, Common, Base, Shape
<1>3. Phase' = "dead" /\ Record' = Record
  BY <1>1, <1>2 DEF Phase, Record
<1> QED
  BY <1>1, <1>3 DEF Simulated, Life!Next, Life!Die

LEMMA ResumesSimulated == IInv /\ Resumes => Simulated
<1> SUFFICES ASSUME IInv, Resumes PROVE Simulated
  OBVIOUS
<1>1. UNCHANGED <<stored, receipt, cancelEvent, crashes>> /\ crashes > 0
  BY DEF Resumes, IInv, Common, Base, OneRun
<1> QED
  BY <1>1 DEF Phase, Record, Simulated

LEMMA WorkerCallSimulated ==
    ASSUME IInv, LifeInv, CallStep("worker")
    PROVE  Simulated
<1> DEFINE c == call["worker"]
<1>1. /\ Calling("worker") /\ crashes = 0 /\ W # "none" /\ W' # "none" /\ ThreadAlive
      /\ UNCHANGED <<crashes, cancelEvent, receipt>> /\ (Cancelling' <=> Cancelling)
      /\ receipt # "started" /\ (c.to = "COMPLETE" => receipt = "completed")
      /\ Cancelling => cancelEvent
      /\ snap.status = "CANCELLING" => cancelEvent
  <2>1. Calling("worker") /\ crashes = 0 /\ W # "none" /\ ThreadAlive
    BY DEF CallStep, IInv, Common, Base, Shape, OneRun, ThreadAlive, Calling
  <2>2. call'["operator"] = call["operator"] /\ UNCHANGED <<crashes, cancelEvent, receipt>>
        /\ (UNCHANGED at \/ at'["worker"] \in {"ended", "failing"})
    BY DEF CallStep, Proceeds, Ends, Threads
  <2>3. receipt # "started" /\ (c.to = "COMPLETE" => receipt = "completed")
        /\ (snap.status = "CANCELLING" => cancelEvent)
    BY <2>1 DEF LifeInv, Receipts, AskedFor
  <2>4. Cancelling => cancelEvent
    BY DEF Cancelling, Calling, NoCall, LifeInv, Targets, IInv, Common, CancelSeen
  <2> QED
    BY <2>1, <2>2, <2>3, <2>4 DEF Cancelling, W
<1>2. CASE Closing /\ c.step = "store"
  <2>1. /\ c.to \in Terminal /\ W = "ended" /\ W' = W /\ call'["worker"] = NoCall /\ UNCHANGED snap
        /\ stored'.status \in {snap.status, c.to} /\ c.to # "QUARANTINED"
    BY <1>1, <1>2, StatusFacts DEF Closing, CallStep, Ends, W, IInv, LeaseInv, Alone, Calling
  <2>2. ~ThreadAlive'
    BY <2>1 DEF ThreadAlive, W
  <2>3. snap.status \in {c.to, "CANCELLING"}
    BY <1>1, <1>2 DEF LifeInv, Underway
  <2>4. CASE stored.status \in Running
    <3>1. Phase = "running" /\ Record = "open"
      BY <1>1, <2>4, StatusFacts DEF Phase, Record, W
    <3>2. Phase' = IF Settled' THEN "settled" ELSE "unsettled"
      BY <1>1, <2>1, <2>2, <2>3, StatusFacts DEF Phase, W
    <3>3. /\ Record' = c.to \/ (Record' = "open" /\ cancelEvent)
          /\ Settled' => Record' \in Terminal
      BY <1>1, <2>1, <2>3, StatusFacts DEF Record, Settled
    <3>4. ~Settled' => cancelEvent
      BY <1>1, <2>1, <2>3 DEF Settled
    <3>5. Life!Conclude(c.to)
      BY <1>1, <3>1, <3>2, <3>3, <3>4 DEF Life!Conclude, Life!Settles
    <3> QED
      BY <2>1, <3>5 DEF Simulated, Life!Next
  <2>5. CASE stored.status \notin Running
    <3>1. stored.status = c.to /\ snap.status = stored.status /\ ~Cancelling
      BY <1>1, <2>5 DEF LifeInv, Underway
    <3>2. Settled /\ Settled' /\ stored'.status = stored.status
      BY <1>1, <2>1, <3>1 DEF Settled
    <3>3. Phase = "settled" /\ Phase' = "settled" /\ Record' = Record
      BY <1>1, <2>1, <2>2, <3>1, <3>2, StatusFacts DEF Phase, Record, W
    <3> QED
      BY <1>1, <3>3 DEF Simulated
  <2> QED
    BY <2>4, <2>5
<1>3. CASE ~Closing
  <2>1. snap.status \in Running /\ stored.status \in Running
    BY <1>1, <1>3 DEF LifeInv, Underway
  <2>2. stored'.status \in Running
    <3>1. c.to \in Terminal \/ c.to \in Running
      BY <1>1 DEF LifeInv, Targets
    <3> QED
      BY <1>3, <2>1, <3>1 DEF CallStep, Closing
  <2>3. ThreadAlive'
    <3>1. W = "ended" => c.to \in Terminal
      BY <1>1 DEF IInv, Common, Completing
    <3>2. c.step = "publish" => c.to \notin Terminal
      BY <1>1 DEF IInv, Common, Base, CallsSane, Threads
    <3>3. c.step = "check" /\ c.forced => Permitted(c)
      BY <1>1, <2>1, StatusFacts DEF Permitted, IInv, LeaseInv, Alone, Common, Completing
    <3> QED
      BY <1>1, <1>3, <3>1, <3>2, <3>3 DEF CallStep, Proceeds, Ends, ThreadAlive, Closing, W, Calling
  <2>4. Phase = "running" /\ Phase' = "running" /\ Record' = Record
    BY <1>1, <2>1, <2>2, <2>3, StatusFacts DEF Phase, Record, W
  <2> QED
    BY <1>1, <2>4 DEF Simulated
<1> QED
  BY <1>2, <1>3 DEF Closing

LEMMA OperatorCallSimulated ==
    ASSUME IInv, LifeInv, CallStep("operator")
    PROVE  Simulated
<1> DEFINE c == call["operator"]
           d == call'["operator"]
<1>1. /\ Calling("operator") /\ W' = W /\ UNCHANGED <<crashes, cancelEvent, receipt>>
      /\ (ThreadAlive' <=> ThreadAlive)
      /\ crashes # 0 => crashes > 0 /\ ~ThreadAlive
      /\ c.to \in OperatorTargets
      /\ c.forced => c.to = "QUARANTINED" /\ crashes > 0
      /\ c.to = "CANCELLING" /\ crashes = 0 => cancelEvent /\ W # "none"
      /\ c.to # "CANCELLING" => ~ThreadAlive
      /\ c.to = "PLAN_FROZEN" => O = "launch"
      /\ O = "launch" => stored.status \in {"AWAITING_APPROVAL", "PLAN_FROZEN"}
      /\ W = "none" => ~ThreadAlive
      /\ crashes # 0 => crashes > 0
  BY OperatorCallFacts
<1>2. ThreadAlive => crashes = 0 /\ W # "none"
  BY <1>1
(* Before the file is written only memory and the call change.             *)
<1>3. CASE UNCHANGED <<stored, snap>> /\ (Cancelling' <=> Cancelling)
  BY <1>1, <1>3 DEF Simulated, Phase, Record, Settled, W
<1>4. CASE UNCHANGED <<stored, snap>> /\ Cancelling' /\ ~Cancelling
           /\ (stored.status \in Terminal => snap.status # stored.status)
  BY <1>1, <1>4 DEF Simulated, Phase, Record, Settled, W
<1>5. CASE UNCHANGED stored /\ snap'.status = c.to /\ c.step = "assign" /\ d.step = "store" /\ d.to = c.to
  <2>1. Record' = Record /\ (Cancelling <=> c.to = "CANCELLING") /\ (Cancelling' <=> Cancelling)
    BY <1>5 DEF Record, Cancelling
  <2>2. Settled => crashes > 0
    <3>1. Settled => c.to # "CANCELLING" /\ snap.status \in Terminal
      BY <2>1 DEF Settled
    <3> QED
      BY <1>1, <1>5, <3>1 DEF LifeInv, Sole, Solo
  <2>3. Phase' = Phase \/ (Phase = "unsettled" /\ Phase' = "settled")
    BY <1>1, <1>5, <2>2 DEF Phase, W
  <2>4. Phase' = "settled" => Record' \in Terminal
    BY <1>5 DEF Phase, Settled, Record
  <2> QED
    BY <1>1, <2>1, <2>3, <2>4 DEF Simulated, Life!Next, Life!Settle, Life!Settles
<1>6. CASE c.step = "store" /\ stored'.status \in {snap.status, c.to} /\ UNCHANGED snap /\ d.step # "store" /\ d.step # "assign"
  <2>1. ~Cancelling' /\ (Cancelling <=> c.to = "CANCELLING")
    BY <1>6 DEF Cancelling
  <2>2. c.to # "CANCELLING" \/ crashes > 0 => snap.status = c.to
    BY <1>1, <1>6 DEF LifeInv, Sole, Solo
  <2>3. Phase' = "settled" => Record' \in Terminal
    BY <2>1 DEF Phase, Settled, Record
  (* Every status the operator writes itself is one a cleanup may give.    *)
  <2>4. c.to \in {"ABORTED", "QUARANTINED"} \/ (c.to \notin Terminal /\ c.to # "QUARANTINED")
    BY <1>1, StatusFacts
  <2>5. stored'.status = c.to => Record' \in {"open", "ABORTED", "QUARANTINED"}
    BY <2>4, StatusFacts DEF Record
  <2>6. CASE crashes > 0
    <3>1. stored'.status = c.to
      BY <1>6, <2>2, <2>6
    <3>2. stored.status \notin Terminal \/ c.to = "QUARANTINED"
      BY <1>6, <2>6 DEF LifeInv, Sole
    <3>3. Record \in Terminal => Record' = "QUARANTINED"
      BY <3>1, <3>2 DEF Record, Terminal
    <3>4. Phase = "dead" /\ Phase' = "dead"
      BY <1>1, <2>6 DEF Phase
    <3> QED
      BY <1>1, <2>5, <3>1, <3>3, <3>4 DEF Simulated, Life!Next, Life!Recover, Life!Resolves
  <2>7. CASE crashes = 0 /\ W = "none"
    <3>1. c.to # "CANCELLING" /\ ~ThreadAlive /\ stored'.status = c.to
      BY <1>1, <1>6, <2>2, <2>7
    <3>2. CASE stored.status \in {"AWAITING_APPROVAL", "PLAN_FROZEN"}
      <4>1. Phase = "planned" /\ Record = "open"
        BY <2>7, <3>2, StatusFacts DEF Phase, Record, W
      <4>2. CASE stored'.status = "PLAN_FROZEN"
        <5>1. Phase' = "planned" /\ Record' = "open"
          BY <1>1, <2>7, <4>2, StatusFacts DEF Phase, Record, W
        <5> QED
          BY <1>1, <4>1, <5>1 DEF Simulated
      <4>3. CASE stored'.status # "PLAN_FROZEN"
        <5>1. stored'.status # "AWAITING_APPROVAL"
          BY <1>1, <3>1, StatusFacts
        <5>2. Phase' \in {"unsettled", "settled"}
          BY <1>1, <2>7, <3>1, <4>3, <5>1 DEF Phase, W
        <5> QED
          BY <1>1, <2>3, <2>5, <3>1, <4>1, <5>2 DEF Simulated, Life!Next, Life!Drop, Life!Settles, Life!Resolves
      <4> QED
        BY <4>2, <4>3
    <3>3. CASE stored.status \notin {"AWAITING_APPROVAL", "PLAN_FROZEN"}
      <4>1. c.to \notin {"AWAITING_APPROVAL", "PLAN_FROZEN"}
        BY <1>1, <3>3, StatusFacts
      <4>2. Phase' \in {"unsettled", "settled"}
        BY <1>1, <2>7, <3>1, <4>1 DEF Phase, W
      <4>3. CASE Phase = "unsettled"
        BY <1>1, <2>3, <2>5, <3>1, <4>2, <4>3 DEF Simulated, Life!Next, Life!Settle, Life!Settles, Life!Resolves
      <4>4. CASE Phase = "settled"
        <5>1. Settled
          BY <4>4 DEF Phase
        <5>2. stored'.status = stored.status
          BY <2>2, <3>1, <5>1 DEF Settled
        <5>3. Settled' /\ Record' = Record
          BY <1>6, <2>1, <5>1, <5>2 DEF Settled, Record
        <5> QED
          BY <1>1, <2>7, <3>1, <3>3, <4>4, <5>2, <5>3 DEF Simulated, Phase, W
      <4> QED
        BY <2>7, <3>1, <3>3, <4>3, <4>4 DEF Phase, W
    <3> QED
      BY <3>2, <3>3
  <2>8. CASE crashes = 0 /\ ThreadAlive
    <3>1. c.to = "CANCELLING" /\ Cancelling /\ W # "none" /\ cancelEvent
      BY <1>1, <2>1, <2>8
    <3>2. stored.status \in Running
      BY <2>8, <3>1 DEF LifeInv, Underway
    <3>3. Phase = "running" /\ Record = "open"
      BY <2>8, <3>1, <3>2, StatusFacts DEF Phase, Record, W
    <3>4. CASE stored'.status \in Running
      <4>1. Phase' = "running" /\ Record' = "open"
        BY <1>1, <2>8, <3>1, <3>4, StatusFacts DEF Phase, Record, W
      <4> QED
        BY <1>1, <3>3, <4>1 DEF Simulated
    <3>5. CASE stored'.status \notin Running
      <4>1. stored'.status = snap.status /\ snap.status \notin Running
        BY <1>6, <3>1, <3>5, StatusFacts
      <4>2. Closing /\ snap.status = call["worker"].to
        BY <2>8, <4>1, StatusFacts DEF LifeInv, Underway
      <4>3. /\ call["worker"].to \in Terminal /\ Calling("worker")
        BY <4>2 DEF Closing, Calling, NoCall
      <4>4. Phase' = "settled" /\ Record' = call["worker"].to
        BY <1>1, <1>6, <2>1, <2>8, <3>1, <4>1, <4>2, <4>3, StatusFacts DEF Phase, Record, Settled, W
      <4>5. receipt # "started" /\ (call["worker"].to = "COMPLETE" => receipt = "completed")
        BY <2>8, <4>3 DEF LifeInv, Receipts
      <4>6. Life!Conclude(call["worker"].to)
        BY <1>1, <3>3, <4>3, <4>4, <4>5 DEF Life!Conclude, Life!Settles
      <4> QED
        BY <4>3, <4>6 DEF Simulated, Life!Next
    <3> QED
      BY <3>4, <3>5
  <2>9. CASE crashes = 0 /\ W # "none" /\ ~ThreadAlive
    <3>1. Phase = (IF Settled THEN "settled" ELSE "unsettled") /\ Phase' = (IF Settled' THEN "settled" ELSE "unsettled")
      BY <1>1, <2>9 DEF Phase, W
    <3>2. CASE Settled
      <4>1. c.to # "CANCELLING" /\ stored'.status = stored.status
        BY <1>6, <2>1, <2>2, <3>2 DEF Settled
      <4>2. Settled' /\ Record' = Record
        BY <1>6, <2>1, <3>2, <4>1 DEF Settled, Record
      <4> QED
        BY <1>1, <3>1, <3>2, <4>2 DEF Simulated
    <3>3. CASE ~Settled
      <4>1. Record' \in {"open", "ABORTED", "QUARANTINED"} \/ Record' = Record
        <5>1. CASE stored'.status = c.to
          BY <2>5, <5>1
        <5>2. CASE stored'.status = snap.status /\ snap.status # c.to
          <6>1. Cancelling
            BY <2>1, <2>2, <5>2
          <6>2. snap.status \in Terminal => stored.status = snap.status
            BY <2>9, <6>1 DEF LifeInv, Sole
          <6> QED
            BY <5>2, <6>2 DEF Record
        <5> QED
          BY <1>6, <5>1, <5>2
      <4> QED
        BY <1>1, <2>3, <3>1, <3>3, <4>1 DEF Simulated, Life!Next, Life!Settle, Life!Settles, Life!Resolves
    <3> QED
      BY <3>2, <3>3
  <2> QED
    BY <1>1, <2>6, <2>7, <2>8, <2>9
<1>7. CASE /\ c.step \in {"announce", "check"}
           /\ d.step = IF c.step = "announce" THEN "check" ELSE "assign"
           /\ d.to = c.to /\ (c.step = "check" => Permitted(c)) /\ UNCHANGED <<stored, snap>>
  <2>1. ~Cancelling /\ (Cancelling' => c.step = "check" /\ c.to = "CANCELLING")
    BY <1>7 DEF Cancelling
  <2>2. Cancelling' => snap.status \notin Terminal
    BY <1>1, <1>7, <2>1 DEF Permitted, Legal
  <2> QED
    BY <1>3, <1>4, <1>7, <2>1, <2>2
<1>8. CASE c.step \in {"publish", "check"} /\ d = NoCall /\ UNCHANGED <<stored, snap>>
  BY <1>3, <1>8 DEF Cancelling, NoCall
<1>9. CASE c.step = "store" /\ stored'.status \in {snap.status, c.to} /\ UNCHANGED snap
           /\ (d = NoCall \/ d.step = "publish")
  BY <1>6, <1>9 DEF NoCall
<1> QED
  BY <1>5, <1>7, <1>8, <1>9, OperatorCallCases

LEMMA StepSimulated == IInv /\ LifeInv /\ [Next]_vars => Simulated
<1> SUFFICES ASSUME IInv, LifeInv, [Next]_vars PROVE Simulated
  OBVIOUS
<1>1. CASE WorkerStep
  <2>1. PICK place \in WorkerPlaces : WorkerMoves(place)
    BY <1>1, WorkerActs DEF IInv
  <2>2. W' = place
    BY <2>1 DEF WorkerMoves, Walks, Starts, Moved, W
  <2> QED
    BY <1>1, <2>1, <2>2, WorkerLives, WorkerMovesSimulated
<1>2. CASE Operator \/ OperatorStep \/ Approve \/ AcquireLease
  <2>1. PICK place \in ClientPlaces : OperatorMoves(place)
    BY <1>2, OperatorActs, ApproverActs DEF IInv, LeaseInv, OneApprover, OperatorMoves
  <2>2. O' = place
    BY <2>1 DEF OperatorMoves, ClientMoves, Walks, Starts, Moved, O
  <2> QED
    BY <1>2, <2>1, <2>2, OperatorLives, OperatorMovesSimulated
<1>3. CASE Launch
  BY <1>3, LaunchSimulated
<1>4. CASE Crash
  BY <1>4, CrashSimulated
<1>5. CASE Restart
  BY <1>5, RestartResumes, ResumesSimulated DEF IInv
<1>6. ASSUME NEW t \in Threads, TransitionStep(t) PROVE Simulated
  <2>1. CallStep(t) /\ t # "round"
    BY <1>6, TransitionSteps DEF IInv, LeaseInv, OneApprover, Common, Base, CallStep
  <2> QED
    BY <2>1, WorkerCallSimulated, OperatorCallSimulated DEF Threads
<1>7. CASE UNCHANGED vars \/ Quiet
  <2>1. UNCHANGED vars
    BY <1>7 DEF Quiet
  <2> QED
    BY <2>1 DEF vars, disk, run, history, Simulated, Record, Phase, Settled, Cancelling, ThreadAlive
<1> QED
  BY <1>1, <1>2, <1>3, <1>4, <1>5, <1>6, <1>7 DEF Next, ApproverStep

LEMMA InitSimulated == Init => Life!Init
<1> SUFFICES ASSUME Init PROVE Life!Init
  OBVIOUS
<1>1. /\ W = "none" /\ stored.status = "AWAITING_APPROVAL" /\ crashes = 0
      /\ cancelEvent = FALSE /\ receipt = "none"
  BY InitFacts DEF Init
<1> QED
  BY <1>1, StatusFacts DEF Life!Init, Phase, Record, W

THEOREM LifeInvHolds == Spec /\ Approver = "operator" => []LifeInv
<1> SUFFICES ASSUME Approver = "operator" PROVE Spec => []LifeInv
  OBVIOUS
<1>1. Spec => []IInv
  BY IInvHolds
<1> QED
  BY <1>1, InitLife, LifeStep, PTL DEF Spec

(* What the reader of a review's record is promised (ReviewLife): the      *)
(* record is COMPLETE only after the last tool call returned, a verdict is *)
(* final while the server lives unless a cancellation was asked for, and a *)
(* restart gives no verdict but ABORTED, when the event loop approves.     *)
THEOREM ReviewKeepsLife == Spec /\ Approver = "operator" => KeepsLife
<1> SUFFICES ASSUME Approver = "operator" PROVE Spec => KeepsLife
  OBVIOUS
<1>1. IInv /\ LifeInv /\ [Next]_vars => [Life!Next]_(Life!vars)
  BY StepSimulated DEF Simulated, Life!vars
<1>2. Spec => []IInv /\ []LifeInv
  BY IInvHolds, LifeInvHolds, PTL
<1> QED
  BY <1>1, <1>2, InitSimulated, PTL DEF Spec, KeepsLife, Life!Spec
=============================================================================
