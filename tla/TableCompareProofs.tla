------------------------- MODULE TableCompareProofs -------------------------
(***************************************************************************)
(* TableCompare for any number of workers, any tables and settings, and    *)
(* any number of killed connections.  First its sessions: a connection     *)
(* serves one session, none leaks, and none is used without the session    *)
(* policy.  Then what faults do to a comparison, and what its verdicts say *)
(* about the two tables.                                                   *)
(***************************************************************************)
EXTENDS TableCompare, FiniteSetTheorems, WellFoundedInduction, NaturalsInduction, TLAPS

SessionType ==
  [state : {"closed", "checkout", "init", "open", "failed"}, tries : Int, retried : BOOLEAN]

PoolTypes ==
  /\ link \in [Slots -> {"none", "live", "killed", "stale", "absent"}]
  /\ policy \in [Slots -> BOOLEAN]
  /\ user \in [Slots -> Handles \cup {Nobody}]
  /\ session \in [Handles -> SessionType]

\* The invariant of the pools, whoever uses them.
PoolInv == PoolTypes /\ NothingLeaks /\ NoUnguardedSession

\* The workers have no session before they are started (without a snapshot).
WorkersWait ==
  phase \in Questions /\ ~setting.snapshot => \A h \in Workers : State(h) = "closed"

SessionInv == PoolInv /\ WorkersWait

\* A step on the session h leaves the other sessions alone.
OnlyOf(h) == \A g \in Handles \ {h} : session'[g] = session[g]

(***************************************************************************)
(* The operations of ConnPool.                                             *)
(***************************************************************************)
LEMMA PoolInitial == ASSUME NEW n, PoolInit(n) PROVE PoolInv
<1>1. PoolTypes
  BY PoolAssumption DEF PoolInit, PoolTypes, Closed, SessionType
<1>2. NothingLeaks /\ NoUnguardedSession
  BY DEF PoolInit, NothingLeaks, NoUnguardedSession
<1> QED
  BY <1>1, <1>2 DEF PoolInv

\* A session has at most one slot.
LEMMA HeldSlot ==
  ASSUME PoolInv, NEW h \in Handles, NEW s \in Slots, user[s] = h
  PROVE  Held(h) = s
<1>1. h # Nobody
  BY PoolAssumption
<1> QED
  BY <1>1 DEF Held, PoolInv, NothingLeaks

LEMMA HoldsNone ==
  ASSUME PoolInv, NEW h, State(h) \notin {"init", "open"}, NEW s \in Slots, user[s] # Nobody
  PROVE  user[s] # h
  BY DEF PoolInv, NothingLeaks

\* A session gives its slot back; no connection comes to life.
LEMMA GivenBack ==
  ASSUME PoolInv, NEW h, Release(h),
         link' \in [Slots -> {"none", "live", "killed", "stale", "absent"}],
         \A s \in Slots : link'[s] = "live" => link[s] = "live",
         policy' = policy,
         NEW r \in SessionType, session' = [session EXCEPT ![h] = r]
  PROVE  PoolInv' /\ OnlyOf(h)
<1>1. PoolTypes'
  BY DEF PoolInv, PoolTypes, Release
<1>2. \A g \in Handles : g # h => session'[g] = session[g]
  BY DEF PoolInv, PoolTypes
<1>3. \A s \in Slots : user'[s] # Nobody => user'[s] = user[s] /\ user[s] # h /\ user[s] \in Handles
  BY DEF PoolInv, PoolTypes, Release
<1>4. NothingLeaks'
  BY <1>2, <1>3 DEF PoolInv, NothingLeaks, State
<1>5. NoUnguardedSession'
  BY <1>2, <1>3 DEF PoolInv, NoUnguardedSession, State
<1> QED
  BY <1>1, <1>2, <1>4, <1>5 DEF PoolInv, OnlyOf

LEMMA FailedLink ==
  ASSUME PoolInv, NEW h, FailAndClose(h)
  PROVE  /\ Release(h)
         /\ link' \in [Slots -> {"none", "live", "killed", "stale", "absent"}]
         /\ \A s \in Slots : link'[s] = "live" => link[s] = "live"
  BY DEF FailAndClose, AfterFailure, PoolInv, PoolTypes

\* A session without a slot changes its state.
LEMMA Slotless ==
  ASSUME PoolInv, NEW h, State(h) \notin {"init", "open"},
         UNCHANGED <<link, policy, user>>,
         NEW r \in SessionType, session' = [session EXCEPT ![h] = r]
  PROVE  PoolInv' /\ OnlyOf(h)
<1>1. \A g \in Handles : g # h => session'[g] = session[g]
  BY DEF PoolInv, PoolTypes
<1>2. \A s \in Slots : user[s] # Nobody => user[s] # h
  BY HoldsNone
<1>3. PoolTypes'
  BY DEF PoolInv, PoolTypes
<1>4. NothingLeaks'
  BY <1>1, <1>2 DEF PoolInv, NothingLeaks, State
<1>5. NoUnguardedSession'
  BY <1>1, <1>2 DEF PoolInv, NoUnguardedSession, NothingLeaks, State
<1> QED
  BY <1>1, <1>3, <1>4, <1>5 DEF PoolInv, OnlyOf

\* The records of the sessions keep their type.
LEMMA Retyped ==
  ASSUME NEW r \in SessionType
  PROVE  /\ \A x \in {"closed", "checkout", "init", "open", "failed"} :
              [r EXCEPT !.state = x] \in SessionType
         /\ \A n \in Int : [r EXCEPT !.tries = n] \in SessionType
         /\ \A b \in BOOLEAN : [r EXCEPT !.retried = b] \in SessionType
  BY DEF SessionType

LEMMA ClosedType ==
  /\ Closed \in SessionType
  /\ [Closed EXCEPT !.state = "checkout"] \in SessionType
  /\ [Closed EXCEPT !.state = "checkout", !.retried = TRUE] \in SessionType
<1>1. Closed \in SessionType
  BY DEF Closed, SessionType
<1> DEFINE r == [Closed EXCEPT !.state = "checkout"]
<1>2. r \in SessionType
  BY <1>1, Retyped
<1>3. [r EXCEPT !.retried = TRUE] \in SessionType
  <2> HIDE DEF r
  <2> QED BY <1>2, Retyped
<1> QED
  BY <1>1, <1>2, <1>3

LEMMA CheckoutInv ==
  ASSUME PoolInv, NEW h \in Handles, Checkout(h)
  PROVE  PoolInv' /\ OnlyOf(h)
<1> DEFINE free == {s \in PoolOf(h) : user[s] = Nobody /\ link[s] # "absent"}
           idle == {s \in free : link[s] # "none"}
<1>1. h # Nobody /\ session[h] \in SessionType /\ State(h) = "checkout"
  BY PoolAssumption DEF Checkout, PoolInv, PoolTypes
<1>2. ASSUME NEW s \in free,
             user' = [user EXCEPT ![s] = h],
             link' = [link EXCEPT ![s] = IF @ = "none" THEN "live" ELSE @],
             policy' = [policy EXCEPT ![s] = @ /\ link[s] # "none"],
             session' = [session EXCEPT ![h].state = "init"]
      PROVE  PoolInv' /\ OnlyOf(h)
  <2>1. s \in Slots /\ user[s] = Nobody
    BY DEF PoolOf
  <2>2. PoolTypes'
    BY <1>1, <1>2, <2>1 DEF PoolInv, PoolTypes, SessionType
  <2>3. /\ \A g \in Handles : g # h => session'[g] = session[g]
        /\ session'[h].state = "init"
    BY <1>1, <1>2 DEF PoolInv, PoolTypes, SessionType
  <2>4. /\ \A t \in Slots : t # s =>
             user'[t] = user[t] /\ link'[t] = link[t] /\ policy'[t] = policy[t]
        /\ user'[s] = h
    BY <1>2, <2>1 DEF PoolInv, PoolTypes
  <2>5. \A t \in Slots : user[t] # h
    BY <1>1, HoldsNone, Zenon
  <2>6. NothingLeaks'
    BY <2>1, <2>3, <2>4, <2>5 DEF PoolInv, NothingLeaks, State
  <2>7. NoUnguardedSession'
    BY <2>1, <2>3, <2>4, <2>5 DEF PoolInv, NoUnguardedSession, NothingLeaks, State
  <2> QED
    BY <2>2, <2>3, <2>6, <2>7 DEF PoolInv, OnlyOf
<1>3. ASSUME session' = [session EXCEPT ![h].state = "failed"], UNCHANGED <<link, policy, user>>
      PROVE  PoolInv' /\ OnlyOf(h)
  <2>1. [session[h] EXCEPT !.state = "failed"] \in SessionType
    BY <1>1 DEF SessionType
  <2>2. session' = [session EXCEPT ![h] = [session[h] EXCEPT !.state = "failed"]]
    BY <1>3
  <2> QED
    BY <1>1, <1>3, <2>1, <2>2, Slotless
<1>4. Distinguishable(IF idle # {} THEN idle ELSE free) \subseteq free
  BY DEF Distinguishable
<1> QED
  BY <1>2, <1>3, <1>4 DEF Checkout

LEMMA InitSessionInv ==
  ASSUME PoolInv, NEW h \in Handles, InitSession(h)
  PROVE  PoolInv' /\ OnlyOf(h)
<1>1. session[h] \in SessionType
  BY DEF PoolInv, PoolTypes
<1>2. CASE /\ Alive(h)
           /\ policy' = [policy EXCEPT ![Held(h)] = TRUE]
           /\ session' = [session EXCEPT ![h].state = "open"]
           /\ UNCHANGED <<link, user>>
  <2>1. PICK s \in Slots : user[s] = h /\ Held(h) = s
    BY <1>2, HeldSlot DEF Alive
  <2>2. \A g \in Handles : g # h => session'[g] = session[g]
    BY <1>2 DEF PoolInv, PoolTypes
  <2>3. session'[h].state = "open" /\ session' \in [Handles -> SessionType]
    BY <1>1, <1>2 DEF PoolInv, PoolTypes, SessionType
  <2>4. /\ policy' \in [Slots -> BOOLEAN] /\ policy'[s]
        /\ \A t \in Slots : t # s => policy'[t] = policy[t]
    BY <1>2, <2>1 DEF PoolInv, PoolTypes
  <2>5. PoolTypes'
    BY <1>2, <2>3, <2>4 DEF PoolInv, PoolTypes
  <2>6. NothingLeaks'
    BY <1>2, <2>2, <2>3 DEF PoolInv, NothingLeaks, State
  <2>7. NoUnguardedSession'
    <3> SUFFICES ASSUME NEW t \in Slots,
                        (user[t] # Nobody /\ State(user[t]) = "open" /\ link[t] = "live")'
                 PROVE  policy'[t]
      BY DEF NoUnguardedSession
    <3>1. user[t] = h => t = s
      BY <2>1, HeldSlot
    <3>2. user[t] # h => policy'[t] = policy[t] /\ session'[user[t]] = session[user[t]]
      BY <1>2, <2>1, <2>2, <2>4 DEF PoolInv, PoolTypes
    <3> QED
      BY <1>2, <2>4, <3>1, <3>2 DEF PoolInv, NoUnguardedSession, State
  <2> QED
    BY <2>2, <2>5, <2>6, <2>7 DEF PoolInv, OnlyOf
<1>3. CASE /\ Release(h) /\ session' = [session EXCEPT ![h].state = "failed"]
           /\ UNCHANGED <<link, policy>>
  <2>1. [session[h] EXCEPT !.state = "failed"] \in SessionType
    BY <1>1 DEF SessionType
  <2>2. session' = [session EXCEPT ![h] = [session[h] EXCEPT !.state = "failed"]]
    BY <1>3
  <2>3. link' \in [Slots -> {"none", "live", "killed", "stale", "absent"}]
    BY <1>3 DEF PoolInv, PoolTypes
  <2> QED
    BY <1>3, <2>1, <2>2, <2>3, GivenBack
<1>4. CASE /\ FailAndClose(h)
           /\ session' = [session EXCEPT ![h] = AfterDead(h)]
           /\ UNCHANGED policy
  <2>1. AfterDead(h) \in SessionType
    <3> DEFINE r == [session[h] EXCEPT !.tries = session[h].tries + 1]
    <3>1. session[h].tries + 1 \in Int
      BY <1>1 DEF SessionType
    <3>2. r \in SessionType
      BY <1>1, <3>1, Retyped
    <3>3. \A x \in {"failed", "checkout"} : [r EXCEPT !.state = x] \in SessionType
      <4> HIDE DEF r
      <4> QED BY <3>2, Retyped
    <3> QED
      BY <3>3 DEF AfterDead
  <2> QED
    BY <1>4, <2>1, FailedLink, GivenBack
<1> QED
  BY <1>2, <1>3, <1>4 DEF InitSession

LEMMA AcquireInv ==
  ASSUME PoolInv, NEW h, Acquire(h)
  PROVE  PoolInv' /\ OnlyOf(h)
<1>1. State(h) \notin {"init", "open"} /\ UNCHANGED <<link, policy, user>>
  BY DEF Acquire
<1> QED
  BY <1>1, ClosedType, Slotless DEF Acquire

LEMMA CloseInv ==
  ASSUME PoolInv, NEW h, Close(h)
  PROVE  PoolInv' /\ OnlyOf(h)
<1>1. /\ link' \in [Slots -> {"none", "live", "killed", "stale", "absent"}]
      /\ \A s \in Slots : link'[s] = "live" => link[s] = "live"
  BY DEF Close, PoolInv, PoolTypes
<1> QED
  BY <1>1, ClosedType, GivenBack DEF Close

LEMMA FailAndCloseInv ==
  ASSUME PoolInv, NEW h, FailAndClose(h), UNCHANGED policy,
         NEW r \in SessionType, session' = [session EXCEPT ![h] = r]
  PROVE  PoolInv' /\ OnlyOf(h)
  BY FailedLink, GivenBack

LEMMA QueryFailsInv ==
  ASSUME PoolInv, NEW h, QueryFails(h)
  PROVE  PoolInv' /\ OnlyOf(h)
<1>1. CASE State(h) = "failed" /\ session' = [session EXCEPT ![h] = Closed]
           /\ UNCHANGED <<link, policy, user>>
  BY <1>1, ClosedType, Slotless
<1>2. CASE FailAndClose(h) /\ session' = [session EXCEPT ![h] = Closed] /\ UNCHANGED policy
  BY <1>2, ClosedType, FailAndCloseInv
<1>3. CASE /\ link' = [link EXCEPT ![Held(h)] = "stale"]
           /\ Release(h) /\ session' = [session EXCEPT ![h] = Closed] /\ UNCHANGED policy
  <2>1. /\ link' \in [Slots -> {"none", "live", "killed", "stale", "absent"}]
        /\ \A s \in Slots : link'[s] = "live" => link[s] = "live"
    BY <1>3 DEF PoolInv, PoolTypes
  <2> QED
    BY <1>3, <2>1, ClosedType, GivenBack
<1> QED
  BY <1>1, <1>2, <1>3 DEF QueryFails

LEMMA PoolStepInv ==
  ASSUME PoolInv, NEW h \in Handles, PoolStep(h)
  PROVE  PoolInv' /\ OnlyOf(h)
<1>1. CASE Swap(h)
  BY <1>1, ClosedType, FailAndCloseInv DEF Swap
<1> QED
  BY <1>1, CheckoutInv, InitSessionInv DEF PoolStep

LEMMA KillInv ==
  ASSUME PoolInv, NEW s \in Slots, Kill(s)
  PROVE  PoolInv' /\ session' = session
  BY DEF Kill, PoolInv, PoolTypes, NothingLeaks, NoUnguardedSession, State

LEMMA PoolUnchanged == ASSUME PoolInv, UNCHANGED poolVars PROVE PoolInv' /\ session' = session
  BY DEF PoolInv, PoolTypes, NothingLeaks, NoUnguardedSession, State, poolVars


-----------------------------------------------------------------------------
(***************************************************************************)
(* The steps of the comparison.                                            *)
(***************************************************************************)
LEMMA WorkersHandles == Workers \subseteq Handles
  BY PoolAssumption DEF Workers, Handles, Slots

\* Without a snapshot the main program asks on the control sessions.
LEMMA AsksControl == ASSUME ~setting.snapshot PROVE Asks \notin Workers
  BY PoolAssumption DEF Asks, Control, Workers

\* A step on a session that is not a worker's keeps the workers waiting.
LEMMA StillWaiting ==
  ASSUME WorkersWait, NEW h, OnlyOf(h), setting' = setting,
         phase' \in Questions => phase \in Questions,
         phase \in Questions /\ ~setting.snapshot => h \notin Workers
  PROVE  WorkersWait'
  BY WorkersHandles DEF WorkersWait, OnlyOf, State, Workers, Questions

LEMMA SameSessions ==
  ASSUME WorkersWait, session' = session, setting' = setting,
         phase' \in Questions => phase \in Questions
  PROVE  WorkersWait'
  BY DEF WorkersWait, State, Workers, Questions

\* Every step of a worker keeps the pools.
LEMMA WorkerStepInv ==
  ASSUME PoolInv, NEW h \in Workers, WorkerStep(h)
  PROVE  PoolInv' /\ phase' \notin Questions
<1>1. h \in Handles
  BY WorkersHandles
<1>2. phase = "scan" /\ (phase' = phase \/ phase' = "panicked")
  BY DEF WorkerStep, TakeJob, ScanChunk, Rescan, FailWorker, CancelWorker, ReplacementFails,
         FinishWorker, mainVars
<1> SUFFICES PoolInv'
  BY <1>2 DEF Questions
<1>3. CASE TakeJob(h) \/ ReplacementFails(h)
  BY <1>3, PoolUnchanged DEF TakeJob, ReplacementFails
<1>4. CASE ScanChunk(h)
  BY <1>4, PoolUnchanged, CloseInv DEF ScanChunk, GiveBack
<1>5. CASE Rescan(h)
  BY <1>5, ClosedType, FailAndCloseInv DEF Rescan
<1>6. CASE FailWorker(h)
  <2>1. session' = [session EXCEPT ![h] = Closed] /\ UNCHANGED policy
    BY <1>6 DEF FailWorker
  <2>2. CASE FailAndClose(h)
    BY <2>1, <2>2, ClosedType, FailAndCloseInv
  <2>3. CASE State(h) = "failed" /\ UNCHANGED <<link, user>>
    BY <2>1, <2>3, ClosedType, Slotless
  <2> QED
    BY <1>6, <2>2, <2>3 DEF FailWorker
<1>7. CASE CancelWorker(h)
  BY <1>7, PoolUnchanged, CloseInv DEF CancelWorker, GiveBack
<1>8. CASE FinishWorker(h)
  BY <1>8, PoolUnchanged, CloseInv DEF FinishWorker, GiveBack
<1> QED
  BY <1>3, <1>4, <1>5, <1>6, <1>7, <1>8 DEF WorkerStep

\* The workers that Plan starts held no session.
LEMMA PlanInv == ASSUME SessionInv, Plan PROVE PoolInv'
<1> DEFINE started == {h \in Workers : h[2] <= Scanners(Len(chunks'))}
<1>1. /\ session' = [h \in Handles |->
            IF h \in started /\ ~setting.snapshot
            THEN [Closed EXCEPT !.state = "checkout"] ELSE session[h]]
      /\ UNCHANGED <<link, policy, user>>
  BY DEF Plan
<1>2. \A h \in Handles : session'[h] = session[h] \/ State(h) = "closed"
  BY <1>1 DEF Plan, SessionInv, WorkersWait, Questions
<1>3. \A s \in Slots : user[s] # Nobody => session'[user[s]] = session[user[s]]
  BY <1>2 DEF SessionInv, PoolInv, NothingLeaks
<1>4. PoolTypes'
  BY <1>1, ClosedType DEF SessionInv, PoolInv, PoolTypes
<1>5. NothingLeaks' /\ NoUnguardedSession'
  BY <1>1, <1>3 DEF SessionInv, PoolInv, NothingLeaks, NoUnguardedSession, State
<1> QED
  BY <1>4, <1>5 DEF PoolInv

\* The deferred closes give back the slots of the sessions they close.
LEMMA CloseDeferredInv == ASSUME PoolInv, CloseDeferred PROVE PoolInv'
<1>1. /\ user' = [s \in Slots |-> IF user[s] \in Deferred THEN Nobody ELSE user[s]]
      /\ session' = [h \in Handles |-> IF h \in Deferred THEN Closed ELSE session[h]]
      /\ UNCHANGED <<link, policy>>
  BY DEF CloseDeferred
<1>2. \A s \in Slots : user'[s] # Nobody =>
        user'[s] = user[s] /\ user[s] \in Handles /\ session'[user[s]] = session[user[s]]
  BY <1>1 DEF PoolInv, PoolTypes
<1>3. PoolTypes'
  BY <1>1, ClosedType DEF PoolInv, PoolTypes
<1>4. NothingLeaks' /\ NoUnguardedSession'
  BY <1>1, <1>2 DEF PoolInv, NothingLeaks, NoUnguardedSession, State
<1> QED
  BY <1>3, <1>4 DEF PoolInv


LEMMA SessionInit == Init => SessionInv
<1> SUFFICES ASSUME Init PROVE SessionInv
  OBVIOUS
<1>1. PoolInv
  BY PoolInitial DEF Init
<1>2. WorkersWait
  BY WorkersHandles DEF Init, PoolInit, Closed, WorkersWait, State
<1> QED
  BY <1>1, <1>2 DEF SessionInv

LEMMA SessionNext == SessionInv /\ [Next]_vars => SessionInv'
<1> SUFFICES ASSUME SessionInv, [Next]_vars PROVE SessionInv'
  OBVIOUS
<1>0. PoolInv /\ WorkersWait
  BY DEF SessionInv
<1>1. ASSUME NEW h \in Handles, SessionStep(h) PROVE SessionInv'
  <2>1. PoolInv' /\ OnlyOf(h)
    BY <1>0, <1>1, PoolStepInv DEF SessionStep
  <2>2. phase \in Questions /\ ~setting.snapshot => h \notin Workers
    BY <1>0, <1>1 DEF SessionStep, PoolStep, Checkout, InitSession, WorkersWait
  <2>3. phase' = phase /\ setting' = setting
    BY <1>1 DEF SessionStep, mainVars, dataVars
  <2> QED
    BY <1>0, <2>1, <2>2, <2>3, StillWaiting DEF SessionInv
<1>2. ASSUME NEW h \in Workers, WorkerStep(h) PROVE SessionInv'
  BY <1>0, <1>2, WorkerStepInv DEF SessionInv, WorkersWait
<1>3. CASE StartQuestion
  <2>1. PoolInv' /\ OnlyOf(Asks)
    BY <1>0, <1>3, AcquireInv DEF StartQuestion
  <2>2. phase' = phase /\ setting' = setting
    BY <1>3 DEF StartQuestion, mainVars, dataVars
  <2> QED
    BY <1>0, <2>1, <2>2, AsksControl, StillWaiting DEF SessionInv
<1>4. CASE FailQuestion
  <2>1. PoolInv'
    BY <1>0, <1>4, QueryFailsInv DEF FailQuestion
  <2>2. phase' \notin Questions
    BY <1>4 DEF FailQuestion, Questions
  <2> QED
    BY <2>1, <2>2 DEF SessionInv, WorkersWait
<1>5. CASE ReadSchema
  <2>1. PoolInv' /\ OnlyOf(Asks)
    BY <1>0, <1>5, CloseInv DEF ReadSchema
  <2>2. phase \in Questions /\ setting' = setting
    BY <1>5 DEF ReadSchema, dataVars, Questions
  <2> QED
    BY <1>0, <2>1, <2>2, AsksControl, StillWaiting DEF SessionInv
<1>6. CASE BeginSnapshot
  <2>1. phase \in Questions /\ setting' = setting
    BY <1>6 DEF BeginSnapshot, dataVars, Questions
  <2>2. CASE SnapshotIsolated
    <3>1. PoolInv' /\ session' = session
      BY <1>0, <1>6, <2>2, PoolUnchanged DEF BeginSnapshot
    <3> QED
      BY <1>0, <2>1, <3>1, SameSessions DEF SessionInv
  <2>3. CASE ~SnapshotIsolated
    <3>1. PoolInv' /\ OnlyOf(Asks)
      BY <1>0, <1>6, <2>3, CloseInv DEF BeginSnapshot
    <3> QED
      BY <1>0, <2>1, <3>1, AsksControl, StillWaiting DEF SessionInv
  <2> QED
    BY <2>2, <2>3
<1>7. CASE CountSource \/ CountDestination
  <2>1. Keep /\ phase \in Questions /\ setting' = setting
    BY <1>7 DEF CountSource, CountDestination, dataVars, Questions
  <2>2. CASE setting.snapshot
    <3>1. PoolInv' /\ session' = session
      BY <1>0, <2>1, <2>2, PoolUnchanged DEF Keep
    <3> QED
      BY <1>0, <2>1, <3>1, SameSessions DEF SessionInv
  <2>3. CASE ~setting.snapshot
    <3>1. PoolInv' /\ OnlyOf(Asks)
      BY <1>0, <2>1, <2>3, CloseInv DEF Keep
    <3> QED
      BY <1>0, <2>1, <3>1, AsksControl, StillWaiting DEF SessionInv
  <2> QED
    BY <2>2, <2>3
<1>8. CASE Plan
  <2>1. phase' \notin Questions
    BY <1>8 DEF Plan, Questions
  <2> QED
    BY <1>8, <2>1, PlanInv DEF SessionInv, WorkersWait
<1>9. CASE Fold
  <2>1. phase = "scan" /\ UNCHANGED poolVars
    BY <1>9 DEF Fold
  <2>2. phase' \notin Questions
    BY <1>9 DEF Fold, Questions
  <2> QED
    BY <1>0, <2>1, <2>2, PoolUnchanged DEF SessionInv, WorkersWait
<1>10. CASE StartDrill \/ DrillChunk \/ FailDrill
  <2>1. phase' \notin Questions
    BY <1>10 DEF StartDrill, DrillChunk, FailDrill, mainVars, Questions
  <2>2. PoolInv'
    BY <1>0, <1>10, AcquireInv, CloseInv, QueryFailsInv, PoolUnchanged
    DEF StartDrill, DrillChunk, FailDrill
  <2> QED
    BY <2>1, <2>2 DEF SessionInv, WorkersWait
<1>11. CASE CloseDeferred
  <2>1. phase' \notin Questions
    BY <1>11 DEF CloseDeferred, Questions
  <2> QED
    BY <1>0, <1>11, <2>1, CloseDeferredInv DEF SessionInv, WorkersWait
<1>12. CASE Move
  <2>1. phase' = phase /\ setting' = setting /\ UNCHANGED poolVars
    BY <1>12 DEF Move, mainVars
  <2> QED
    BY <1>0, <2>1, PoolUnchanged, SameSessions DEF SessionInv
<1>13. CASE KillSession
  <2>1. phase' = phase /\ setting' = setting
    BY <1>13 DEF KillSession, mainVars, dataVars
  <2>2. PoolInv' /\ session' = session
    BY <1>0, <1>13, KillInv DEF KillSession
  <2> QED
    BY <1>0, <2>1, <2>2, SameSessions DEF SessionInv
<1>14. CASE UNCHANGED vars
  <2>1. phase' = phase /\ setting' = setting /\ UNCHANGED poolVars
    BY <1>14 DEF vars, mainVars, dataVars
  <2> QED
    BY <1>0, <2>1, PoolUnchanged, SameSessions DEF SessionInv
<1> QED
  BY <1>1, <1>2, <1>3, <1>4, <1>5, <1>6, <1>7, <1>8, <1>9, <1>10, <1>11, <1>12, <1>13, <1>14
  DEF Next, Step, MainStep

LEMMA SessionsAlways == Spec => []SessionInv
  BY SessionInit, SessionNext, PTL DEF Spec

\* A connection of a pool serves one session at a time, and a session that is
\* not being acquired or used holds none (Session.Close, ControlQueryer.swap,
\* checkoutChecked, scanSide).
THEOREM PoolsCorrect == Spec => []NothingLeaks
<1>1. SessionInv => NothingLeaks
  BY DEF SessionInv, PoolInv
<1> QED
  BY <1>1, SessionsAlways, PTL

\* A session that is handed out has the session policy, also one that
\* replaces a killed one (checkoutChecked).
THEOREM PolicyCorrect == Spec => []NoUnguardedSession
<1>1. SessionInv => NoUnguardedSession
  BY DEF SessionInv, PoolInv
<1> QED
  BY <1>1, SessionsAlways, PTL

-----------------------------------------------------------------------------
(***************************************************************************)
(* Whatever happens to a table, every session is given back.               *)
(***************************************************************************)

\* Who may have a session in a phase.
MayHold(h) ==
  \/ h \in Deferred
  \/ phase \in Questions /\ h = Asks
  \/ phase = "scan" /\ h \in Workers /\ worker[h].state # "idle"
  \/ phase = "drill" /\ h = DrillHandle

HeldByUsers ==
  phase # "panicked" => \A h \in Handles : State(h) # "closed" => MayHold(h)

WorkerRecords ==
  /\ worker = [h \in Workers |-> worker[h]]
  /\ \A h \in Workers : worker[h] = [state |-> worker[h].state, chunk |-> worker[h].chunk]

\* With a snapshot only the first worker of a side runs, on its session.
SnapshotCourse ==
  /\ phase \in {"srcSnapshot", "dstSnapshot"} => setting.snapshot
  /\ setting.snapshot => \A h \in Workers : worker[h].state # "idle" => h[2] = 1

ReturnInv == WorkerRecords /\ SnapshotCourse /\ HeldByUsers /\ AllReturned

LEMMA WorkerStateSet ==
  ASSUME WorkerRecords, NEW h \in Workers, NEW x, worker' = [worker EXCEPT ![h].state = x]
  PROVE  /\ WorkerRecords'
         /\ worker'[h].state = x
         /\ \A g \in Workers \ {h} : worker'[g] = worker[g]
<1>1. worker' = [g \in Workers |->
        IF g = h THEN [state |-> x, chunk |-> worker[h].chunk] ELSE worker[g]]
  BY DEF WorkerRecords
<1> QED
  BY <1>1 DEF WorkerRecords

LEMMA SessionClosed ==
  ASSUME PoolInv, NEW h, session' = [session EXCEPT ![h] = Closed]
  PROVE  \A g \in Handles : State(g)' # "closed" => g # h /\ State(g) # "closed"
  BY DEF PoolInv, PoolTypes, State, Closed

LEMMA QueryFailsCloses ==
  ASSUME NEW h, QueryFails(h) PROVE session' = [session EXCEPT ![h] = Closed]
  BY DEF QueryFails

LEMMA FirstWorkerDeferred ==
  ASSUME NEW h \in Workers, h[2] = 1, setting.snapshot PROVE h \in Deferred
  BY DEF Workers, Deferred, Scan

\* A session that the main program asks on with a snapshot is deferred.
LEMMA AsksDeferred ==
  ASSUME setting.snapshot, phase \in Questions \ {"srcSchema", "dstSchema"}
  PROVE  Asks \in Deferred
  BY DEF Asks, SideOf, Deferred, Sides, Scan

\* A step of a worker keeps ReturnInv.
LEMMA WorkerReturns ==
  ASSUME PoolInv, ReturnInv, NEW h \in Workers, WorkerStep(h)
  PROVE  ReturnInv'
<1>1. h \in Handles
  BY WorkersHandles
<1>2. phase = "scan" /\ setting' = setting
  BY DEF WorkerStep, TakeJob, ScanChunk, Rescan, FailWorker, CancelWorker, ReplacementFails,
         FinishWorker, dataVars
<1>3. Deferred' = Deferred
  BY <1>2 DEF Deferred
<1>4. CASE ReplacementFails(h)
  BY <1>2, <1>4 DEF ReplacementFails, scanVars, ReturnInv, WorkerRecords, SnapshotCourse,
                    HeldByUsers, AllReturned
<1>5. ASSUME phase' = phase, WorkerRecords',
             \A g \in Workers \ {h} : worker'[g] = worker[g],
             worker[h].state # "idle" \/ worker'[h].state = "idle",
             \A g \in Handles \ {h} : session'[g] = session[g],
             State(h)' # "closed" => h \in Deferred \/ worker'[h].state # "idle"
      PROVE  ReturnInv'
  <2>1. SnapshotCourse'
    BY <1>2, <1>5 DEF ReturnInv, SnapshotCourse
  <2>2. HeldByUsers'
    BY <1>2, <1>3, <1>5 DEF ReturnInv, HeldByUsers, MayHold, State, Questions
  <2>3. AllReturned'
    BY <1>2, <1>5 DEF AllReturned
  <2> QED
    BY <1>5, <2>1, <2>2, <2>3 DEF ReturnInv
\* The worker ends: its session is closed, or it is the snapshot's.
<1>6. ASSUME phase' = phase, worker[h].state # "idle",
             worker' = [worker EXCEPT ![h].state = "idle"],
             GiveBack(h) \/ session' = [session EXCEPT ![h] = Closed]
      PROVE  ReturnInv'
  <2>1. /\ WorkerRecords' /\ worker'[h].state = "idle"
        /\ \A g \in Workers \ {h} : worker'[g] = worker[g]
    BY <1>6, WorkerStateSet DEF ReturnInv
  <2>2. CASE session' = [session EXCEPT ![h] = Closed]
    BY <1>1, <1>5, <1>6, <2>1, <2>2 DEF PoolInv, PoolTypes, State, Closed
  <2>3. CASE setting.snapshot /\ UNCHANGED poolVars
    <3>1. h \in Deferred
      BY <1>6, <2>3, FirstWorkerDeferred DEF ReturnInv, SnapshotCourse
    <3> QED
      BY <1>5, <1>6, <2>1, <2>3, <3>1 DEF poolVars
  <2> QED
    BY <1>6, <2>2, <2>3 DEF GiveBack, Close
\* The worker goes on, with or without another session.
<1>7. ASSUME phase' = phase, worker[h].state # "idle", WorkerRecords', worker'[h].state # "idle",
             \A g \in Workers \ {h} : worker'[g] = worker[g],
             \A g \in Handles \ {h} : session'[g] = session[g]
      PROVE  ReturnInv'
  BY <1>5, <1>7
<1>8. CASE TakeJob(h)
  <2>1. worker' = [worker EXCEPT ![h] = [state |-> "scanning", chunk |-> Head(jobs[h[1]])]]
    BY <1>8 DEF TakeJob
  <2>2. worker' = [g \in Workers |->
          IF g = h THEN [state |-> "scanning", chunk |-> Head(jobs[h[1]])] ELSE worker[g]]
    BY <2>1 DEF ReturnInv, WorkerRecords
  <2>3. /\ WorkerRecords' /\ worker'[h].state # "idle"
        /\ \A g \in Workers \ {h} : worker'[g] = worker[g]
    BY <2>2 DEF ReturnInv, WorkerRecords
  <2> QED
    BY <1>7, <1>8, <2>3 DEF TakeJob, poolVars, mainVars
<1>9. CASE ScanChunk(h)
  <2>1. phase' = phase /\ worker[h].state # "idle"
    BY <1>9 DEF ScanChunk, mainVars
  <2>2. CASE worker' = [worker EXCEPT ![h].state = "idle"] /\ GiveBack(h)
    BY <1>6, <2>1, <2>2
  <2>3. CASE worker' = [worker EXCEPT ![h].state = "ready"] /\ UNCHANGED poolVars
    <3>1. /\ WorkerRecords' /\ worker'[h].state = "ready"
          /\ \A g \in Workers \ {h} : worker'[g] = worker[g]
      <4>1. worker' = [worker EXCEPT ![h].state = "ready"]
        BY <2>3
      <4> QED
        BY <4>1, WorkerStateSet DEF ReturnInv
    <3> QED
      BY <1>7, <2>1, <2>3, <3>1 DEF poolVars
  <2> QED
    BY <1>9, <2>2, <2>3 DEF ScanChunk
<1>10. CASE Rescan(h)
  <2>1. /\ phase' = phase /\ worker[h].state # "idle"
        /\ worker' = [worker EXCEPT ![h].state = "rescanning"]
        /\ session' = [session EXCEPT ![h] = [Closed EXCEPT !.state = "checkout"]]
    BY <1>10 DEF Rescan, mainVars
  <2>2. /\ WorkerRecords' /\ worker'[h].state # "idle"
        /\ \A g \in Workers \ {h} : worker'[g] = worker[g]
    BY <2>1, WorkerStateSet DEF ReturnInv
  <2>3. \A g \in Handles \ {h} : session'[g] = session[g]
    BY <2>1 DEF PoolInv, PoolTypes
  <2> QED
    BY <1>7, <2>1, <2>2, <2>3
<1>11. CASE FailWorker(h) \/ CancelWorker(h) \/ FinishWorker(h)
  <2>1. phase' = phase /\ worker[h].state # "idle"
    BY <1>11 DEF FailWorker, CancelWorker, FinishWorker, mainVars
  <2>2. worker' = [worker EXCEPT ![h].state = "idle"]
    BY <1>11 DEF FailWorker, CancelWorker, FinishWorker, Return
  <2>3. GiveBack(h) \/ session' = [session EXCEPT ![h] = Closed]
    BY <1>11 DEF FailWorker, CancelWorker, FinishWorker
  <2> QED
    BY <1>6, <2>1, <2>2, <2>3
<1> QED
  BY <1>4, <1>8, <1>9, <1>10, <1>11 DEF WorkerStep


LEMMA ReturnInit == Init => ReturnInv
<1> SUFFICES ASSUME Init PROVE ReturnInv
  OBVIOUS
<1>1. WorkerRecords
  BY DEF Init, WorkerRecords
<1>2. SnapshotCourse /\ AllReturned
  BY DEF Init, SnapshotCourse, AllReturned
<1>3. HeldByUsers
  BY DEF Init, PoolInit, HeldByUsers, State, Closed
<1> QED
  BY <1>1, <1>2, <1>3 DEF ReturnInv

\* A step of the main program, which leaves the workers alone: the sessions
\* that are not closed after it are deferred, or asked on next.
LEMMA MainReturns ==
  ASSUME ReturnInv, UNCHANGED worker, setting' = setting,
         phase' \in {"srcSnapshot", "dstSnapshot"} => setting.snapshot, phase' # "done",
         \A g \in Handles : State(g)' # "closed" => MayHold(g)'
  PROVE  ReturnInv'
<1>1. SnapshotCourse'
  BY DEF ReturnInv, SnapshotCourse
<1> QED
  BY <1>1 DEF ReturnInv, WorkerRecords, HeldByUsers, AllReturned

\* A question was answered or failed and its session is deferred or closed.
LEMMA QuestionReturns ==
  ASSUME PoolInv, ReturnInv, phase \in Questions, UNCHANGED worker, setting' = setting,
         phase' \in {"srcSnapshot", "dstSnapshot"} => setting.snapshot, phase' # "done",
         \/ session' = [session EXCEPT ![Asks] = Closed]
         \/ setting.snapshot /\ phase \notin {"srcSchema", "dstSchema"} /\ session' = session
  PROVE  ReturnInv'
<1>1. \A g \in Handles : State(g)' # "closed" => g \in Deferred
  <2>1. \A g \in Handles : State(g) # "closed" => g \in Deferred \/ g = Asks
    BY DEF ReturnInv, HeldByUsers, MayHold, Questions
  <2>2. CASE session' = [session EXCEPT ![Asks] = Closed]
    BY <2>1, <2>2, SessionClosed
  <2>3. CASE setting.snapshot /\ phase \notin {"srcSchema", "dstSchema"} /\ session' = session
    BY <2>1, <2>3, AsksDeferred DEF State
  <2> QED
    BY <2>2, <2>3
<1>2. Deferred' = Deferred
  BY DEF Deferred
<1> QED
  BY <1>1, <1>2, MainReturns DEF MayHold

\* Before it is over, the drill-down holds deferred sessions and its own.
LEMMA DrillReturns ==
  ASSUME PoolInv, ReturnInv, phase = "drill", UNCHANGED worker, setting' = setting,
         phase' \in {"drill", "closing"},
         \/ session' = [session EXCEPT ![DrillHandle] = Closed]
         \/ setting.snapshot /\ session' = session
  PROVE  ReturnInv'
<1>1. \A g \in Handles : State(g)' # "closed" => g \in Deferred
  <2>1. \A g \in Handles : State(g) # "closed" => g \in Deferred \/ g = DrillHandle
    BY DEF ReturnInv, HeldByUsers, MayHold, Questions
  <2>2. CASE session' = [session EXCEPT ![DrillHandle] = Closed]
    BY <2>1, <2>2, SessionClosed
  <2>3. CASE setting.snapshot /\ session' = session
    <3>1. DrillHandle \in Handles => DrillHandle \in Deferred
      BY <2>3 DEF DrillHandle, Scan, Deferred, Handles, Slots
    <3> QED
      BY <2>1, <2>3, <3>1 DEF State
  <2> QED
    BY <2>2, <2>3
<1>2. Deferred' = Deferred
  BY DEF Deferred
<1> QED
  BY <1>1, <1>2, MainReturns DEF MayHold

LEMMA SameDrill == UNCHANGED <<todo, drilled>> => DrillHandle' = DrillHandle
  BY DEF DrillHandle, DrillSide, DrillId

\* A session of a pool goes on, or a connection is killed.
LEMMA SameUsers ==
  ASSUME ReturnInv, UNCHANGED <<mainVars, scanVars, setting>>, phase # "done",
         \A g \in Handles : State(g)' # "closed" => State(g) # "closed" \/ MayHold(g)
  PROVE  ReturnInv'
<1>1. phase' = phase /\ worker' = worker /\ setting' = setting
  BY DEF mainVars, scanVars
<1>2. \A g \in Handles : MayHold(g) => MayHold(g)'
  <2>1. DrillHandle' = DrillHandle
    BY SameDrill DEF mainVars
  <2> QED
    BY <1>1, <2>1 DEF MayHold, Deferred, Asks, SideOf
<1>3. HeldByUsers'
  BY <1>1, <1>2 DEF ReturnInv, HeldByUsers
<1> QED
  BY <1>1, <1>3 DEF ReturnInv, WorkerRecords, SnapshotCourse, AllReturned

LEMMA ReturnNext == SessionInv /\ ReturnInv /\ [Next]_vars => ReturnInv'
<1> SUFFICES ASSUME SessionInv, ReturnInv, [Next]_vars PROVE ReturnInv'
  OBVIOUS
<1>0. PoolInv
  BY DEF SessionInv
<1>1. ASSUME NEW h \in Handles, SessionStep(h) PROVE ReturnInv'
  <2>1. OnlyOf(h) /\ State(h) # "closed"
    BY <1>0, <1>1, PoolStepInv DEF SessionStep, PoolStep, Checkout, InitSession
  <2>2. UNCHANGED <<mainVars, scanVars, setting>> /\ phase # "done"
    BY <1>1 DEF SessionStep, dataVars, Over
  <2>3. \A g \in Handles : State(g)' # "closed" => State(g) # "closed"
    BY <2>1 DEF OnlyOf, State
  <2> QED
    BY <2>2, <2>3, SameUsers
<1>2. ASSUME NEW h \in Workers, WorkerStep(h) PROVE ReturnInv'
  BY <1>0, <1>2, WorkerReturns
<1>3. CASE StartQuestion
  <2>1. UNCHANGED <<mainVars, scanVars, setting>> /\ phase \in Questions /\ phase # "done"
    BY <1>3 DEF StartQuestion, dataVars, Questions
  <2>2. \A g \in Handles : g # Asks => State(g)' = State(g)
    BY <1>0, <1>3, AcquireInv DEF StartQuestion, OnlyOf, State
  <2>3. \A g \in Handles : State(g)' # "closed" => State(g) # "closed" \/ MayHold(g)
    BY <2>1, <2>2 DEF MayHold
  <2> QED
    BY <2>1, <2>3, SameUsers
<1>4. CASE FailQuestion
  <2>1. /\ phase \in Questions /\ phase' = "closing" /\ UNCHANGED worker /\ setting' = setting
        /\ session' = [session EXCEPT ![Asks] = Closed]
    BY <1>4, QueryFailsCloses DEF FailQuestion, scanVars, dataVars
  <2> QED
    BY <1>0, <2>1, QuestionReturns
<1>5. CASE ReadSchema
  <2>1. /\ phase \in Questions /\ phase' # "done" /\ UNCHANGED worker /\ setting' = setting
        /\ session' = [session EXCEPT ![Asks] = Closed]
        /\ phase' \in {"srcSnapshot", "dstSnapshot"} => setting.snapshot
    BY <1>5 DEF ReadSchema, Close, scanVars, dataVars, Questions
  <2> QED
    BY <1>0, <2>1, QuestionReturns
<1>6. CASE BeginSnapshot
  <2>1. /\ phase \in Questions \ {"srcSchema", "dstSchema"}
        /\ phase' # "done" /\ UNCHANGED worker /\ setting' = setting /\ setting.snapshot
    BY <1>6 DEF BeginSnapshot, ReturnInv, SnapshotCourse, scanVars, dataVars, Questions
  <2>2. session' = [session EXCEPT ![Asks] = Closed] \/ session' = session
    BY <1>6 DEF BeginSnapshot, Close, poolVars
  <2> QED
    BY <1>0, <2>1, <2>2, QuestionReturns
<1>7. CASE CountSource \/ CountDestination
  <2>1. /\ Keep /\ phase \in Questions \ {"srcSchema", "dstSchema"}
        /\ phase' \notin {"srcSnapshot", "dstSnapshot", "done"}
        /\ UNCHANGED worker /\ setting' = setting
    BY <1>7 DEF CountSource, CountDestination, scanVars, dataVars, Questions
  <2>2. \/ session' = [session EXCEPT ![Asks] = Closed]
        \/ setting.snapshot /\ session' = session
    BY <2>1 DEF Keep, Close, poolVars
  <2> QED
    BY <1>0, <2>1, <2>2, QuestionReturns
<1>8. CASE Plan
  <2> DEFINE started == {h \in Workers : h[2] <= Scanners(Len(chunks'))}
  <2>1. /\ worker' = [h \in Workers |->
              [worker[h] EXCEPT !.state = IF h \in started THEN "ready" ELSE "idle"]]
        /\ session' = [h \in Handles |->
              IF h \in started /\ ~setting.snapshot
              THEN [Closed EXCEPT !.state = "checkout"] ELSE session[h]]
        /\ phase = "plan" /\ phase' = "scan" /\ setting' = setting
    BY <1>8 DEF Plan, dataVars
  <2>2. \A h \in Workers :
          /\ h \in started => worker'[h] = [state |-> "ready", chunk |-> worker[h].chunk]
          /\ h \notin started => worker'[h] = [state |-> "idle", chunk |-> worker[h].chunk]
    <3> HIDE DEF started
    <3> QED BY <2>1 DEF ReturnInv, WorkerRecords
  <2>3. WorkerRecords'
    BY <2>1, <2>2 DEF WorkerRecords
  <2>4. setting.snapshot => \A h \in started : h[2] = 1
    BY PoolAssumption DEF Scanners, Workers
  <2>5. SnapshotCourse'
    <3>1. ASSUME NEW h \in Workers, h \notin started PROVE worker'[h].state = "idle"
      <4>1. worker'[h] = [state |-> "idle", chunk |-> worker[h].chunk]
        BY <2>2, <3>1, Zenon
      <4> QED
        BY <4>1
    <3> QED
      BY <2>1, <2>4, <3>1 DEF SnapshotCourse
  <2>6. Asks \in Deferred /\ Deferred' = Deferred
    BY <2>1 DEF Asks, SideOf, Deferred, Scan, Control, Sides
  <2>7. HeldByUsers'
    BY <2>1, <2>2, <2>6 DEF ReturnInv, HeldByUsers, MayHold, State, Questions
  <2>8. AllReturned'
    BY <2>1 DEF AllReturned
  <2> QED
    BY <2>3, <2>5, <2>7, <2>8 DEF ReturnInv
<1>9. CASE Fold
  <2>1. /\ phase = "scan" /\ phase' \in {"drill", "closing"}
        /\ UNCHANGED worker /\ setting' = setting /\ session' = session
        /\ \A h \in Workers : worker[h].state = "idle"
    BY <1>9 DEF Fold, Busy, Workers, poolVars, scanVars, dataVars
  <2>2. \A g \in Handles : State(g) # "closed" => g \in Deferred
    BY <2>1 DEF ReturnInv, HeldByUsers, MayHold, Questions
  <2>3. \A g \in Handles : State(g)' # "closed" => MayHold(g)'
    BY <2>1, <2>2 DEF MayHold, State, Deferred
  <2> QED
    BY <2>1, <2>3, MainReturns
<1>10. CASE StartDrill
  <2>1. UNCHANGED <<mainVars, scanVars, setting>> /\ phase = "drill"
    BY <1>10 DEF StartDrill, dataVars
  <2>2. \A g \in Handles : g # DrillHandle => State(g)' = State(g)
    BY <1>0, <1>10, AcquireInv DEF StartDrill, OnlyOf, State
  <2>3. \A g \in Handles : State(g)' # "closed" => State(g) # "closed" \/ MayHold(g)
    BY <2>1, <2>2 DEF MayHold
  <2> QED
    BY <2>1, <2>3, SameUsers
<1>11. CASE DrillChunk \/ FailDrill
  <2>1. /\ phase = "drill" /\ phase' \in {"drill", "closing"}
        /\ UNCHANGED worker /\ setting' = setting
    BY <1>11 DEF DrillChunk, FailDrill, scanVars, dataVars
  <2>2. \/ session' = [session EXCEPT ![DrillHandle] = Closed]
        \/ setting.snapshot /\ session' = session
    BY <1>11, QueryFailsCloses DEF DrillChunk, FailDrill, Close, poolVars
  <2> QED
    BY <1>0, <2>1, <2>2, DrillReturns
<1>12. CASE CloseDeferred
  <2>1. /\ phase = "closing" /\ phase' = "done" /\ UNCHANGED worker /\ setting' = setting
        /\ user' = [s \in Slots |-> IF user[s] \in Deferred THEN Nobody ELSE user[s]]
        /\ session' = [h \in Handles |-> IF h \in Deferred THEN Closed ELSE session[h]]
    BY <1>12 DEF CloseDeferred, scanVars, dataVars
  <2>2. \A g \in Handles : State(g) # "closed" => g \in Deferred
    BY <2>1 DEF ReturnInv, HeldByUsers, MayHold, Questions
  <2>3. HeldByUsers'
    BY <2>1, <2>2 DEF HeldByUsers, State, Closed
  <2>4. AllReturned'
    BY <1>0, <2>1, <2>2 DEF AllReturned, PoolInv, NothingLeaks
  <2>5. WorkerRecords' /\ SnapshotCourse'
    BY <2>1 DEF ReturnInv, WorkerRecords, SnapshotCourse
  <2> QED
    BY <2>3, <2>4, <2>5 DEF ReturnInv
<1>13. CASE Move
  <2>1. UNCHANGED <<mainVars, scanVars, setting>> /\ phase # "done" /\ session' = session
    BY <1>13 DEF Move, Over, poolVars
  <2> QED
    BY <2>1, SameUsers DEF State
<1>14. CASE KillSession
  <2>1. UNCHANGED <<mainVars, scanVars, setting>> /\ phase # "done" /\ session' = session
    BY <1>14 DEF KillSession, Kill, Over, dataVars
  <2> QED
    BY <2>1, SameUsers DEF State
<1>15. CASE UNCHANGED vars
  <2>1. DrillHandle' = DrillHandle
    BY <1>15, SameDrill DEF vars, mainVars
  <2> QED
    BY <1>15, <2>1 DEF vars, poolVars, mainVars, scanVars, dataVars, ReturnInv, WorkerRecords,
       SnapshotCourse, HeldByUsers, MayHold, AllReturned, Deferred, Asks, SideOf, State
<1> QED
  BY <1>1, <1>2, <1>3, <1>4, <1>5, <1>6, <1>7, <1>8, <1>9, <1>10, <1>11, <1>12, <1>13, <1>14,
     <1>15
  DEF Next, Step, MainStep

\* When a table is done, whether it was compared, differed or failed, and
\* whatever was killed or canceled on the way, all its sessions are back in
\* their pools (compareTable, scanSide and their deferred closes).
THEOREM ReturnCorrect == Spec => []AllReturned
<1>1. ReturnInv => AllReturned
  BY DEF ReturnInv
<1> QED
  BY <1>1, ReturnInit, ReturnNext, SessionsAlways, PTL DEF Spec

-----------------------------------------------------------------------------
(***************************************************************************)
(* What killed, refused and torn connections do to the comparison of a     *)
(* table, for any number of workers and any number of faults: a side is    *)
(* blamed only for a fault of its own, and one killed connection is        *)
(* survived.                                                               *)
(***************************************************************************)

(* The invariant of the pools: what a fault leaves behind.                 *)

FaultRecord == [kill : Nat, refuse : Nat, torn : Nat]
Kills       == faults["src"].kill + faults["dst"].kill

FaultTypes ==
  /\ faults \in [Sides -> FaultRecord] /\ budget \in Nat
  /\ Count("src") + Count("dst") + budget <= MaxFaults

\* A connection is dead or gone only where a fault happened.
DeadCounted ==
  \A s \in Slots : link[s] \in {"killed", "stale", "none"} => Count(s[1]) > 0

\* A session has a connection of its own side, and has one while it is used.
InPool ==
  /\ \A s \in Slots : user[s] # Nobody =>
       user[s][1] = s[1] /\ link[s] \in {"live", "killed", "stale"}
  /\ \A h \in Handles : State(h) \in {"init", "open"} => \E s \in Slots : user[s] = h

FailedCounted == \A h \in Handles : State(h) = "failed" => Count(h[1]) > 0

\* Three attempts in all.
Attempts ==
  \A h \in Handles :
    session[h].tries \in 0..3 /\ (State(h) \in {"checkout", "init"} => session[h].tries <= 2)

\* At most one connection was killed and nothing else happened.
Calm == Kills <= 1 /\ Count("src") + Count("dst") = Kills

\* No session and no chunk was tried again.
Fresh ==
  /\ \A h \in Handles : session[h].tries = 0 /\ ~session[h].retried
  /\ \A h \in Workers : worker[h].state # "rescanning"

Dead(s) == link[s] \in {"killed", "stale"}

\* The one dead connection is found by nobody, then by one session, and then
\* perhaps by a second attempt, after which it is discarded.
OneDead ==
  /\ Kills = 0 => Fresh /\ \A s \in Slots : ~Dead(s)
  /\ \A s, t \in Slots : Dead(s) /\ Dead(t) => s = t
  /\ \A s \in Slots : link[s] = "killed" => Fresh
  /\ \A s \in Slots : link[s] = "stale" => \A h \in Handles : session[h].tries <= 1
  /\ \A h \in Handles : session[h].tries <= 2 /\ State(h) # "failed"
  /\ \A s \in Slots : user[s] # Nobody /\ State(user[s]) = "open" => link[s] # "stale"

FaultInv ==
  FaultTypes /\ DeadCounted /\ InPool /\ FailedCounted /\ Attempts /\ (Calm => OneDead)

\* Faults are not taken back.
Grows == (\A d \in Sides : Count(d)' >= Count(d)) /\ (Calm' => Calm)

-----------------------------------------------------------------------------
(* Counting.                                                               *)

LEMMA SlotSides ==
  /\ \A s \in Slots : s[1] \in Sides /\ s[2] \in 0..Parallel
  /\ \A h \in Handles : h[1] \in Sides /\ h # Nobody
  BY PoolAssumption DEF Slots, Handles

LEMMA Counts ==
  ASSUME FaultTypes
  PROVE  \A d \in Sides : Count(d) \in Nat /\ faults[d].kill \in Nat /\ faults[d].kill <= Count(d)
  BY DEF FaultTypes, FaultRecord, Count

LEMMA FaultCounted ==
  ASSUME FaultTypes, NEW d \in Sides, NEW kind \in {"kill", "refuse", "torn"}, Fault(d, kind)
  PROVE  /\ FaultTypes' /\ Grows /\ Count(d)' > 0
         /\ kind # "kill" => ~Calm'
         /\ kind = "kill" => Kills' = Kills + 1
<1>1. \A e \in Sides : faults[e] \in FaultRecord
  BY DEF FaultTypes
<1>2. /\ faults' \in [Sides -> FaultRecord]
      /\ \A e \in Sides \ {d} : faults'[e] = faults[e]
      /\ faults'[d] = [faults[d] EXCEPT ![kind] = faults[d][kind] + 1]
  BY <1>1 DEF Fault, FaultTypes, FaultRecord
<1>3. \A e \in Sides \ {d} : Count(e)' = Count(e)
  BY <1>2 DEF Count
<1>4. Count(d)' = Count(d) + 1
  BY <1>1, <1>2 DEF Count, FaultRecord
<1>5. /\ kind # "kill" => faults'[d].kill = faults[d].kill
      /\ kind = "kill" => faults'[d].kill = faults[d].kill + 1
  BY <1>1, <1>2 DEF FaultRecord
<1>6. /\ kind # "kill" => Kills' = Kills
      /\ kind = "kill" => Kills' = Kills + 1
  BY <1>1, <1>2, <1>5 DEF Kills, Sides, FaultRecord
<1>7. Kills \in Nat /\ Kills <= Count("src") + Count("dst")
  BY Counts DEF Kills, Sides
<1>8. \A e \in Sides : Count(e) \in Nat
  BY Counts
<1>9. (Count("src") + Count("dst"))' = Count("src") + Count("dst") + 1
  BY <1>3, <1>4, <1>8 DEF Sides
<1>10. FaultTypes'
  BY <1>2, <1>8, <1>9 DEF FaultTypes, Fault, Sides
<1> QED
  BY <1>3, <1>4, <1>6, <1>7, <1>8, <1>9, <1>10 DEF Grows, Calm, Sides

LEMMA FaultsKept ==
  ASSUME FaultTypes, UNCHANGED <<faults, budget>>
  PROVE  /\ FaultTypes' /\ Grows /\ (Calm' <=> Calm) /\ Kills' = Kills
         /\ \A d \in Sides : Count(d)' = Count(d)
<1>1. /\ \A d \in Sides : Count(d)' = Count(d)
      /\ Kills' = Kills /\ Count("src")' = Count("src") /\ Count("dst")' = Count("dst")
  BY DEF Count, Kills
<1>2. FaultTypes'
  BY <1>1 DEF FaultTypes
<1>3. \A d \in Sides : Count(d) \in Nat
  BY Counts
<1> QED
  BY <1>1, <1>2, <1>3 DEF Grows, Calm

-----------------------------------------------------------------------------
(* The operations of ConnPool keep it.                                     *)

\* The chunks that are scanned again were scanned again before.
NoNewRescan ==
  \A h \in Workers : worker'[h].state = "rescanning" => worker[h].state = "rescanning"

\* Sessions are closed, or asked for anew, and leave their slots.
Resets ==
  \A g \in Handles :
    \/ session'[g] = session[g]
    \/ /\ session'[g].state \in {"closed", "checkout"}
       /\ session'[g].tries = 0 /\ ~session'[g].retried
LetGo ==
  \A s \in Slots :
    \/ user'[s] = user[s]
    \/ /\ user'[s] = Nobody
       /\ user[s] \in Handles => session'[user[s]].state \notin {"init", "open"}

LEMMA ResetKeeps ==
  ASSUME PoolInv, FaultInv, UNCHANGED <<link, faults, budget>>, Resets, LetGo, NoNewRescan
  PROVE  FaultInv' /\ Grows
<1>1. /\ FaultTypes' /\ Grows /\ (Calm' <=> Calm) /\ Kills' = Kills
      /\ \A d \in Sides : Count(d)' = Count(d)
  BY FaultsKept DEF FaultInv
<1>2. DeadCounted'
  BY <1>1, SlotSides DEF FaultInv, DeadCounted
<1>3. InPool'
  <2>1. \A s \in Slots : user'[s] # Nobody => user'[s] = user[s]
    BY DEF LetGo
  <2>2. ASSUME NEW h \in Handles, State(h)' \in {"init", "open"}
        PROVE  \E s \in Slots : user'[s] = h
    <3>1. session'[h] = session[h]
      BY <2>2 DEF Resets, State
    <3>2. PICK s \in Slots : user[s] = h
      BY <2>2, <3>1 DEF FaultInv, InPool, State
    <3>3. user'[s] = h
      BY <2>2, <3>2 DEF LetGo, State
    <3> QED
      BY <3>3
  <2> QED
    BY <2>1, <2>2 DEF FaultInv, InPool
<1>4. FailedCounted'
  BY <1>1, SlotSides DEF FaultInv, FailedCounted, Resets, State
<1>5. Attempts'
  BY DEF FaultInv, Attempts, Resets, State
<1>6. Fresh => Fresh'
  BY DEF Fresh, Resets, NoNewRescan
<1>7. OneDead => OneDead'
  <2> SUFFICES ASSUME OneDead PROVE OneDead'
    OBVIOUS
  <2>1. \A s \in Slots : Dead(s)' <=> Dead(s)
    BY DEF Dead
  <2>2. \A s \in Slots : link'[s] = "stale" => \A h \in Handles : session'[h].tries <= 1
    BY DEF OneDead, Resets
  <2>3. \A h \in Handles : session'[h].tries <= 2 /\ State(h)' # "failed"
    BY DEF OneDead, Resets, State
  <2>4. \A s \in Slots : user'[s] # Nobody /\ State(user[s])' = "open" => link'[s] # "stale"
    <3> SUFFICES ASSUME NEW s \in Slots, user'[s] # Nobody, State(user[s])' = "open"
                 PROVE  link[s] # "stale"
      OBVIOUS
    <3>1. user'[s] = user[s] /\ user[s] \in Handles
      BY DEF LetGo, PoolInv, PoolTypes
    <3>2. session'[user[s]] = session[user[s]]
      BY <3>1 DEF Resets, State
    <3> QED
      BY <3>1, <3>2 DEF OneDead, State
  <2> QED
    BY <1>1, <1>6, <2>1, <2>2, <2>3, <2>4 DEF OneDead
<1> QED
  BY <1>1, <1>2, <1>3, <1>4, <1>5, <1>7 DEF FaultInv

\* A session finds its connection dead and gives it back.
FoundDead(h, r) ==
  /\ State(h) \in {"init", "open"} /\ ~Alive(h) /\ FailAndClose(h)
  /\ session' = [session EXCEPT ![h] = r]
  /\ r.state \in {"closed", "checkout", "failed"}
  /\ \/ r.tries = 0 /\ r.state # "failed"
     \/ /\ State(h) = "init" /\ r.tries = session[h].tries + 1
        /\ r.state = "failed" <=> session[h].tries = 2

LEMMA FoundDeadKeeps ==
  ASSUME PoolInv, FaultInv, NEW h \in Handles, NEW r \in SessionType, FoundDead(h, r),
         UNCHANGED <<faults, budget>>
  PROVE  FaultInv' /\ Grows
<1>1. /\ FaultTypes' /\ Grows /\ (Calm' <=> Calm) /\ Kills' = Kills
      /\ \A d \in Sides : Count(d)' = Count(d)
  BY FaultsKept DEF FaultInv
<1>2. PICK s \in Slots : user[s] = h /\ Held(h) = s
  BY HeldSlot DEF FoundDead, FaultInv, InPool
<1>3. h # Nobody /\ h[1] = s[1] /\ Dead(s)
  BY <1>2, SlotSides DEF FaultInv, InPool, FoundDead, Alive, Dead
<1>4. /\ \A t \in Slots \ {s} : link'[t] = link[t]
      /\ link'[s] \in {"stale", "none"} /\ (link'[s] = "stale" => link[s] = "killed")
  BY <1>2 DEF FoundDead, FailAndClose, AfterFailure, PoolInv, PoolTypes
<1>5. /\ \A g \in Handles \ {h} : session'[g] = session[g]
      /\ session'[h] = r
  BY DEF FoundDead, PoolInv, PoolTypes
<1>6. \A t \in Slots : user'[t] = IF user[t] = h THEN Nobody ELSE user[t]
  BY DEF FoundDead, FailAndClose, Release
<1>7. \A t \in Slots : user[t] = h => t = s
  BY <1>2, HeldSlot
<1>8. Count(s[1]) > 0
  BY <1>3 DEF FaultInv, DeadCounted, Dead
<1>9. DeadCounted'
  BY <1>1, <1>4, <1>8, SlotSides DEF FaultInv, DeadCounted
<1>10. InPool'
  BY <1>3, <1>4, <1>5, <1>6, <1>7 DEF FaultInv, InPool, FoundDead, State
<1>11. FailedCounted'
  BY <1>1, <1>3, <1>5, <1>8, SlotSides DEF FaultInv, FailedCounted, State
<1>12. session[h].tries \in 0..3 /\ (State(h) = "init" => session[h].tries <= 2)
  BY DEF FaultInv, Attempts
<1>13. Attempts'
  <2>1. r.tries \in 0..3 /\ (r.state \in {"checkout", "init"} => r.tries <= 2)
    BY <1>12 DEF FoundDead
  <2> QED
    BY <1>5, <2>1 DEF FaultInv, Attempts, State
<1>14. OneDead => OneDead'
  <2> SUFFICES ASSUME OneDead PROVE OneDead'
    OBVIOUS
  <2>1. \A t \in Slots : Dead(t)' => t = s /\ link'[t] = "stale"
    BY <1>3, <1>4 DEF OneDead, Dead
  <2>2. Kills' # 0
    BY <1>1, <1>3 DEF OneDead
  <2>3. link[s] = "killed" => \A g \in Handles : session[g].tries = 0
    BY DEF OneDead, Fresh
  <2>4. link[s] = "stale" => \A g \in Handles : session[g].tries <= 1
    BY DEF OneDead
  <2>5. link[s] = "killed" \/ link[s] = "stale"
    BY <1>3 DEF Dead
  <2>6. session[h].tries <= 1
    BY <2>3, <2>4, <2>5
  <2>7. r.state # "failed" /\ r.tries <= 2 /\ (link'[s] = "stale" => r.tries <= 1)
    BY <1>4, <1>12, <2>3, <2>6 DEF FoundDead
  <2>8. \A g \in Handles : session'[g].tries <= 2 /\ State(g)' # "failed"
    BY <1>5, <2>7 DEF OneDead, State
  <2>9. \A t \in Slots : link'[t] = "stale" => \A g \in Handles : session'[g].tries <= 1
    <3> SUFFICES ASSUME NEW t \in Slots, link'[t] = "stale", NEW g \in Handles
                 PROVE  session'[g].tries <= 1
      OBVIOUS
    <3>1. t = s /\ link[s] = "killed"
      BY <1>4, <2>1 DEF Dead
    <3>2. g # h => session'[g].tries = 0
      BY <1>5, <2>3, <3>1
    <3> QED
      BY <1>5, <2>7, <3>1, <3>2
  <2>10. \A t \in Slots : user'[t] # Nobody /\ State(user[t])' = "open" => link'[t] # "stale"
    <3> SUFFICES ASSUME NEW t \in Slots, user'[t] # Nobody, link'[t] = "stale" PROVE FALSE
      OBVIOUS
    <3>1. t = s
      BY <2>1 DEF Dead
    <3> QED
      BY <1>2, <1>6, <3>1
  <2>11. \A t \in Slots : link'[t] # "killed"
    BY <2>1 DEF Dead
  <2>12. \A t, u \in Slots : Dead(t)' /\ Dead(u)' => t = u
    BY <2>1
  <2> QED
    BY <2>2, <2>8, <2>9, <2>10, <2>11, <2>12 DEF OneDead
<1> QED
  BY <1>1, <1>9, <1>10, <1>11, <1>13, <1>14 DEF FaultInv

LEMMA CheckoutKeeps ==
  ASSUME PoolInv, FaultInv, NEW h \in Handles, Checkout(h), UNCHANGED worker
  PROVE  FaultInv' /\ Grows
<1> DEFINE free == {s \in PoolOf(h) : user[s] = Nobody /\ link[s] # "absent"}
           idle == {s \in free : link[s] # "none"}
<1>1. h # Nobody /\ session[h] \in SessionType /\ State(h) = "checkout"
  BY PoolAssumption DEF Checkout, PoolInv, PoolTypes
<1>2. ASSUME NEW s \in free,
             user' = [user EXCEPT ![s] = h],
             link' = [link EXCEPT ![s] = IF @ = "none" THEN "live" ELSE @],
             session' = [session EXCEPT ![h].state = "init"],
             UNCHANGED <<faults, budget>>
      PROVE  FaultInv' /\ Grows
  <2>1. s \in Slots /\ s[1] = h[1] /\ user[s] = Nobody /\ link[s] # "absent"
    BY DEF PoolOf
  <2>2. /\ FaultTypes' /\ Grows /\ (Calm' <=> Calm) /\ Kills' = Kills
        /\ \A d \in Sides : Count(d)' = Count(d)
    BY <1>2, FaultsKept DEF FaultInv
  <2>3. /\ \A g \in Handles \ {h} : session'[g] = session[g]
        /\ session'[h].state = "init" /\ session'[h].tries = session[h].tries
        /\ session'[h].retried = session[h].retried
    BY <1>1, <1>2 DEF PoolInv, PoolTypes, SessionType
  <2>4. /\ \A t \in Slots \ {s} : user'[t] = user[t] /\ link'[t] = link[t]
        /\ user'[s] = h
    BY <1>2, <2>1 DEF PoolInv, PoolTypes
  <2>5. /\ link'[s] \in {"live", "killed", "stale"}
        /\ link'[s] = link[s] \/ (link[s] = "none" /\ link'[s] = "live")
    BY <1>2, <2>1 DEF PoolInv, PoolTypes
  <2>6. DeadCounted'
    BY <2>2, <2>4, <2>5, SlotSides DEF FaultInv, DeadCounted
  <2>7. InPool'
    <3>1. \A t \in Slots : user'[t] # Nobody =>
            user'[t][1] = t[1] /\ link'[t] \in {"live", "killed", "stale"}
      BY <2>1, <2>4, <2>5 DEF FaultInv, InPool
    <3>2. ASSUME NEW g \in Handles, State(g)' \in {"init", "open"}
          PROVE  \E t \in Slots : user'[t] = g
      <4>1. CASE g = h
        BY <2>1, <2>4, <4>1
      <4>2. CASE g # h
        <5>1. PICK t \in Slots : user[t] = g
          BY <2>3, <3>2, <4>2 DEF FaultInv, InPool, State
        <5>2. t # s
          BY <2>1, <5>1, SlotSides
        <5> QED
          BY <2>4, <5>1, <5>2
      <4> QED
        BY <4>1, <4>2
    <3> QED
      BY <3>1, <3>2 DEF InPool
  <2>8. FailedCounted'
    BY <2>2, <2>3, SlotSides DEF FaultInv, FailedCounted, State
  <2>9. Attempts'
    BY <1>1, <2>3 DEF FaultInv, Attempts, State
  <2>10. Fresh => Fresh'
    BY <2>3 DEF Fresh
  <2>11. OneDead => OneDead'
    <3> SUFFICES ASSUME OneDead PROVE OneDead'
      OBVIOUS
    <3>1. \A t \in Slots : /\ Dead(t)' => Dead(t)
                           /\ link'[t] = "killed" => link[t] = "killed"
                           /\ link'[t] = "stale" => link[t] = "stale"
      BY <2>4, <2>5 DEF Dead
    <3>2. \A g \in Handles : session'[g].tries = session[g].tries /\ State(g)' # "failed"
      BY <2>3 DEF OneDead, State
    <3>3. \A t \in Slots : user'[t] # Nobody /\ State(user[t])' = "open" => link'[t] # "stale"
      <4> SUFFICES ASSUME NEW t \in Slots, user'[t] # Nobody, State(user[t])' = "open"
                   PROVE  link'[t] # "stale"
        OBVIOUS
      <4>1. user'[t] # h /\ t # s
        BY <2>3, <2>4 DEF State
      <4>2. user'[t] = user[t] /\ user[t] \in Handles
        BY <2>4, <4>1 DEF PoolInv, PoolTypes
      <4>3. State(user[t]) = "open"
        BY <2>3, <4>1, <4>2 DEF State
      <4> QED
        BY <2>4, <4>1, <4>2, <4>3 DEF OneDead
    <3> QED
      BY <2>2, <2>10, <3>1, <3>2, <3>3 DEF OneDead
  <2> QED
    BY <2>2, <2>6, <2>7, <2>8, <2>9, <2>11 DEF FaultInv
<1>3. ASSUME Fault(h[1], "refuse"),
             session' = [session EXCEPT ![h].state = "failed"], UNCHANGED <<link, user>>
      PROVE  FaultInv' /\ Grows
  <2>1. /\ FaultTypes' /\ Grows /\ Count(h[1])' > 0 /\ ~Calm'
        /\ \A d \in Sides : Count(d)' >= Count(d)
    BY <1>3, FaultCounted, SlotSides DEF FaultInv, Grows
  <2>2. /\ \A g \in Handles \ {h} : session'[g] = session[g]
        /\ session'[h].state = "failed" /\ session'[h].tries = session[h].tries
    BY <1>1, <1>3 DEF PoolInv, PoolTypes, SessionType
  <2>3. \A d \in Sides : Count(d) > 0 => Count(d)' > 0
    BY <2>1, Counts DEF FaultInv, FaultTypes, FaultRecord, Count
  <2>4. DeadCounted'
    BY <1>3, <2>3, SlotSides DEF FaultInv, DeadCounted
  <2>5. InPool'
    BY <1>3, <2>2 DEF FaultInv, InPool, State
  <2>6. FailedCounted'
    BY <2>1, <2>2, <2>3, SlotSides DEF FaultInv, FailedCounted, State
  <2>7. Attempts'
    BY <1>1, <2>2 DEF FaultInv, Attempts, State
  <2> QED
    BY <2>1, <2>4, <2>5, <2>6, <2>7 DEF FaultInv
<1>4. Distinguishable(IF idle # {} THEN idle ELSE free) \subseteq free
  BY DEF Distinguishable
<1> QED
  BY <1>2, <1>3, <1>4 DEF Checkout

\* A statement is refused, or breaks off, and the session gives its slot back.
LEMMA BrokenKeeps ==
  ASSUME PoolInv, FaultInv, NEW h \in Handles, NEW kind \in {"refuse", "torn"},
         Fault(h[1], kind), Release(h),
         NEW r \in SessionType, r.state \in {"closed", "failed"}, r.tries \in 0..3,
         session' = [session EXCEPT ![h] = r],
         \A s \in Slots : link'[s] = link[s] \/ user[s] = h
  PROVE  FaultInv' /\ Grows /\ Count(h[1])' > 0 /\ ~Calm'
<1>1. /\ FaultTypes' /\ Grows /\ Count(h[1])' > 0 /\ ~Calm'
      /\ \A d \in Sides : Count(d)' >= Count(d)
  BY FaultCounted, SlotSides DEF FaultInv, Grows
<1>2. \A d \in Sides : Count(d) > 0 => Count(d)' > 0
  BY <1>1, Counts DEF FaultInv, FaultTypes, FaultRecord, Count
<1>3. /\ \A g \in Handles \ {h} : session'[g] = session[g]
      /\ session'[h] = r
  BY DEF PoolInv, PoolTypes
<1>4. \A t \in Slots : user'[t] = IF user[t] = h THEN Nobody ELSE user[t]
  BY DEF Release
<1>5. \A s \in Slots : user[s] = h => s[1] = h[1]
  BY SlotSides DEF FaultInv, InPool
<1>6. DeadCounted'
  BY <1>1, <1>2, <1>5, SlotSides DEF FaultInv, DeadCounted
<1>7. InPool'
  BY <1>3, <1>4 DEF FaultInv, InPool, State
<1>8. FailedCounted'
  BY <1>1, <1>2, <1>3, SlotSides DEF FaultInv, FailedCounted, State
<1>9. Attempts'
  BY <1>3 DEF FaultInv, Attempts, State
<1> QED
  BY <1>1, <1>6, <1>7, <1>8, <1>9 DEF FaultInv

LEMMA AfterDeadFields ==
  ASSUME PoolInv, NEW h \in Handles
  PROVE  /\ AfterDead(h) \in SessionType /\ AfterDead(h).tries = session[h].tries + 1
         /\ AfterDead(h).state = IF session[h].tries = 2 THEN "failed" ELSE "checkout"
<1>1. session[h] \in SessionType
  BY DEF PoolInv, PoolTypes
<1> DEFINE r == [session[h] EXCEPT !.tries = session[h].tries + 1]
<1>2. session[h].tries + 1 \in Int
  BY <1>1 DEF SessionType
<1>3. r \in SessionType /\ r.tries = session[h].tries + 1
  BY <1>1, <1>2 DEF SessionType
<1> DEFINE x == IF session[h].tries = 2 THEN "failed" ELSE "checkout"
<1>4. AfterDead(h) = [r EXCEPT !.state = x]
  BY DEF AfterDead
<1>5. x \in {"failed", "checkout"}
  OBVIOUS
<1> HIDE DEF r, x
<1>6. /\ [r EXCEPT !.state = x] \in SessionType
      /\ [r EXCEPT !.state = x].tries = r.tries /\ [r EXCEPT !.state = x].state = x
  BY <1>3, <1>5 DEF SessionType
<1> QED
  BY <1>3, <1>4, <1>6 DEF x

LEMMA InitSessionKeeps ==
  ASSUME PoolInv, FaultInv, NEW h \in Handles, InitSession(h), UNCHANGED worker
  PROVE  FaultInv' /\ Grows
<1>1. session[h] \in SessionType /\ State(h) = "init"
  BY DEF PoolInv, PoolTypes, InitSession
<1>2. session[h].tries \in 0..3
  BY DEF FaultInv, Attempts
<1>3. CASE /\ Alive(h) /\ session' = [session EXCEPT ![h].state = "open"]
           /\ UNCHANGED <<link, user, faults, budget>>
  <2>1. /\ FaultTypes' /\ Grows /\ (Calm' <=> Calm) /\ Kills' = Kills
        /\ \A d \in Sides : Count(d)' = Count(d)
    BY <1>3, FaultsKept DEF FaultInv
  <2>2. /\ \A g \in Handles \ {h} : session'[g] = session[g]
        /\ session'[h].state = "open" /\ session'[h].tries = session[h].tries
        /\ session'[h].retried = session[h].retried
    BY <1>1, <1>3 DEF PoolInv, PoolTypes, SessionType
  <2>3. PICK s \in Slots : user[s] = h /\ link[s] = "live"
    BY <1>3 DEF Alive
  <2>4. \A t \in Slots : user[t] = h => t = s
    BY <2>3, SlotSides DEF PoolInv, NothingLeaks
  <2>5. DeadCounted'
    BY <1>3, <2>1, SlotSides DEF FaultInv, DeadCounted
  <2>6. InPool'
    <3>1. \A g \in Handles : State(g)' \in {"init", "open"} => State(g) \in {"init", "open"}
      BY <1>1, <2>2 DEF State
    <3> QED
      BY <1>3, <3>1 DEF FaultInv, InPool
  <2>7. FailedCounted' /\ Attempts'
    BY <2>1, <2>2, SlotSides DEF FaultInv, FailedCounted, Attempts, State
  <2>8. OneDead => OneDead'
    <3> SUFFICES ASSUME OneDead PROVE OneDead'
      OBVIOUS
    <3>1. Fresh => Fresh'
      BY <2>2 DEF Fresh
    <3>2. \A g \in Handles : session'[g].tries = session[g].tries /\ State(g)' # "failed"
      BY <2>2 DEF OneDead, State
    <3>3. \A t \in Slots : user'[t] # Nobody /\ State(user[t])' = "open" => link'[t] # "stale"
      BY <1>3, <2>2, <2>3, <2>4 DEF OneDead, State, PoolInv, PoolTypes
    <3>4. \A t \in Slots : Dead(t)' <=> Dead(t)
      BY <1>3 DEF Dead
    <3> QED
      BY <1>3, <2>1, <3>1, <3>2, <3>3, <3>4 DEF OneDead
  <2> QED
    BY <2>1, <2>5, <2>6, <2>7, <2>8 DEF FaultInv
<1>4. CASE /\ Fault(h[1], "refuse") /\ Release(h)
           /\ session' = [session EXCEPT ![h].state = "failed"] /\ UNCHANGED <<link, policy>>
  <2> DEFINE r == [session[h] EXCEPT !.state = "failed"]
  <2>1. r \in SessionType /\ r.state = "failed" /\ r.tries = session[h].tries
    BY <1>1 DEF SessionType
  <2>2. session' = [session EXCEPT ![h] = r]
    BY <1>4
  <2> HIDE DEF r
  <2> QED
    BY <1>2, <1>4, <2>1, <2>2, BrokenKeeps
<1>5. CASE /\ ~Alive(h) /\ FailAndClose(h)
           /\ session' = [session EXCEPT ![h] = AfterDead(h)]
           /\ UNCHANGED <<policy, faults, budget>>
  <2>1. FoundDead(h, AfterDead(h))
    BY <1>1, <1>5, AfterDeadFields DEF FoundDead
  <2> QED
    BY <1>5, <2>1, AfterDeadFields, FoundDeadKeeps
<1> QED
  BY <1>3, <1>4, <1>5 DEF InitSession

LEMMA ClosedFields ==
  /\ Closed.state = "closed" /\ Closed.tries = 0 /\ ~Closed.retried
  /\ [Closed EXCEPT !.state = "checkout"].state = "checkout"
  /\ [Closed EXCEPT !.state = "checkout"].tries = 0
  /\ ~[Closed EXCEPT !.state = "checkout"].retried
  BY DEF Closed

\* A session is closed or asked for.
LEMMA OneResets ==
  ASSUME PoolInv, NEW h,
         \/ session' = [session EXCEPT ![h] = Closed]
         \/ session' = [session EXCEPT ![h] = [Closed EXCEPT !.state = "checkout"]]
  PROVE  Resets
<1> DEFINE r == [Closed EXCEPT !.state = "checkout"]
<1>1. /\ r.state = "checkout" /\ r.tries = 0 /\ ~r.retried
      /\ Closed.state = "closed" /\ Closed.tries = 0 /\ ~Closed.retried
  BY ClosedFields
<1>2. session' = [session EXCEPT ![h] = Closed] \/ session' = [session EXCEPT ![h] = r]
  OBVIOUS
<1> HIDE DEF r
<1> QED
  BY <1>1, <1>2 DEF Resets, PoolInv, PoolTypes

LEMMA AcquireKeeps ==
  ASSUME PoolInv, FaultInv, NEW h, Acquire(h), NoNewRescan
  PROVE  FaultInv' /\ Grows
<1>1. Resets
  BY OneResets DEF Acquire
<1>2. LetGo /\ UNCHANGED <<link, faults, budget>>
  BY DEF LetGo, Acquire
<1> QED
  BY <1>1, <1>2, ResetKeeps

LEMMA CloseKeeps ==
  ASSUME PoolInv, FaultInv, NEW h, Close(h), NoNewRescan
  PROVE  FaultInv' /\ Grows
<1>1. Resets
  BY OneResets DEF Close
<1>2. LetGo
  BY ClosedFields DEF LetGo, Close, Release, PoolInv, PoolTypes
<1> QED
  BY <1>1, <1>2, ResetKeeps DEF Close

LEMMA PoolKept ==
  ASSUME PoolInv, FaultInv, UNCHANGED poolVars, NoNewRescan
  PROVE  FaultInv' /\ Grows
<1>1. Resets /\ LetGo /\ UNCHANGED <<link, faults, budget>>
  BY DEF Resets, LetGo, poolVars
<1> QED
  BY <1>1, ResetKeeps

LEMMA DeadFields ==
  /\ [Closed EXCEPT !.state = "checkout", !.retried = TRUE].state = "checkout"
  /\ [Closed EXCEPT !.state = "checkout", !.retried = TRUE].tries = 0
  BY DEF Closed

LEMMA SwapKeeps ==
  ASSUME PoolInv, FaultInv, NEW h \in Handles, State(h) = "open", ~Alive(h), Swap(h)
  PROVE  FaultInv' /\ Grows
<1> DEFINE r == [Closed EXCEPT !.state = "checkout", !.retried = TRUE]
<1>1. r \in SessionType /\ r.state = "checkout" /\ r.tries = 0
  BY ClosedType, DeadFields
<1>2. FailAndClose(h) /\ session' = [session EXCEPT ![h] = r] /\ UNCHANGED <<faults, budget>>
  BY DEF Swap
<1> HIDE DEF r
<1>3. FoundDead(h, r)
  BY <1>1, <1>2 DEF FoundDead
<1> QED
  BY <1>1, <1>2, <1>3, FoundDeadKeeps

\* A dead session of a worker or of a query is closed, or replaced.
LEMMA DeadCloses ==
  ASSUME PoolInv, FaultInv, NEW h \in Handles, State(h) = "open", ~Alive(h), FailAndClose(h),
         UNCHANGED <<faults, budget>>,
         \/ session' = [session EXCEPT ![h] = Closed]
         \/ session' = [session EXCEPT ![h] = [Closed EXCEPT !.state = "checkout"]]
  PROVE  FaultInv' /\ Grows
<1>1. CASE session' = [session EXCEPT ![h] = Closed]
  <2>1. FoundDead(h, Closed)
    BY <1>1, ClosedFields DEF FoundDead
  <2> QED
    BY <2>1, ClosedType, FoundDeadKeeps
<1>2. CASE session' = [session EXCEPT ![h] = [Closed EXCEPT !.state = "checkout"]]
  <2>1. FoundDead(h, [Closed EXCEPT !.state = "checkout"])
    BY <1>2, ClosedFields DEF FoundDead
  <2> QED
    BY <2>1, ClosedType, FoundDeadKeeps
<1> QED
  BY <1>1, <1>2

\* The slot of an open session whose connection is dead: something happened
\* on its side, and if only one connection was killed, it is that one, nobody
\* has found it yet, and nothing was tried again.
LEMMA OpenDead ==
  ASSUME PoolInv, FaultInv, NEW h \in Handles, State(h) = "open", ~Alive(h)
  PROVE  Count(h[1]) > 0 /\ (Calm => Fresh)
<1>1. PICK s \in Slots : user[s] = h
  BY DEF FaultInv, InPool
<1>2. h[1] = s[1] /\ link[s] \in {"killed", "stale"}
  BY <1>1, SlotSides DEF FaultInv, InPool, Alive
<1>3. Count(s[1]) > 0
  BY <1>2 DEF FaultInv, DeadCounted
<1>4. OneDead => link[s] # "stale"
  BY <1>1, SlotSides DEF OneDead
<1> QED
  BY <1>2, <1>3, <1>4 DEF FaultInv, OneDead

LEMMA QueryFailsKeeps ==
  ASSUME PoolInv, FaultInv, NEW h \in Handles, QueryFails(h), NoNewRescan
  PROVE  FaultInv' /\ Grows /\ Count(h[1])' > 0 /\ (Calm' => h[2] # 0)
<1>1. CASE /\ State(h) = "failed" /\ session' = [session EXCEPT ![h] = Closed]
           /\ UNCHANGED <<link, policy, user, faults, budget>>
  <2>1. Resets
    BY <1>1, OneResets
  <2>2. LetGo
    BY <1>1 DEF LetGo
  <2>3. FaultInv' /\ Grows
    BY <1>1, <2>1, <2>2, ResetKeeps
  <2>4. Count(h[1])' > 0
    BY <1>1, FaultsKept, SlotSides DEF FaultInv, FailedCounted
  <2>5. ~Calm'
    BY <1>1, FaultsKept DEF FaultInv, OneDead
  <2> QED
    BY <2>3, <2>4, <2>5
<1>2. CASE /\ State(h) = "open" /\ ~Alive(h) /\ (session[h].retried \/ h[2] # 0)
           /\ FailAndClose(h)
           /\ session' = [session EXCEPT ![h] = Closed] /\ UNCHANGED <<policy, faults, budget>>
  <2>1. FaultInv' /\ Grows
    BY <1>2, DeadCloses
  <2>2. Count(h[1])' > 0
    BY <1>2, OpenDead, FaultsKept, SlotSides DEF FaultInv
  <2>3. Calm' => Calm
    BY <1>2, FaultsKept DEF FaultInv
  <2>4. Calm => ~session[h].retried
    BY <1>2, OpenDead DEF Fresh
  <2> QED
    BY <1>2, <2>1, <2>2, <2>3, <2>4
<1>3. CASE /\ State(h) = "open" /\ Alive(h) /\ Fault(h[1], "torn")
           /\ link' = [link EXCEPT ![Held(h)] = "stale"]
           /\ Release(h) /\ session' = [session EXCEPT ![h] = Closed] /\ UNCHANGED policy
  <2>1. PICK s \in Slots : user[s] = h /\ Held(h) = s
    BY <1>3, HeldSlot DEF Alive
  <2>2. \A t \in Slots : link'[t] = link[t] \/ user[t] = h
    BY <1>3, <2>1 DEF PoolInv, PoolTypes
  <2>3. Closed \in SessionType /\ Closed.state \in {"closed", "failed"} /\ Closed.tries \in 0..3
    BY ClosedType, ClosedFields
  <2>4. "torn" \in {"refuse", "torn"}
    OBVIOUS
  <2>5. FaultInv' /\ Grows /\ Count(h[1])' > 0 /\ ~Calm'
    BY <1>3, <2>2, <2>3, <2>4, BrokenKeeps
  <2> QED
    BY <2>5
<1> QED
  BY <1>1, <1>2, <1>3 DEF QueryFails

LEMMA PoolStepKeeps ==
  ASSUME PoolInv, FaultInv, NEW h \in Handles, PoolStep(h), UNCHANGED worker
  PROVE  FaultInv' /\ Grows
  BY CheckoutKeeps, InitSessionKeeps, SwapKeeps DEF PoolStep

LEMMA KillKeeps ==
  ASSUME PoolInv, FaultInv, NEW s \in Slots, Kill(s), UNCHANGED worker
  PROVE  FaultInv' /\ Grows
<1>1. s[1] \in Sides /\ link[s] = "live" /\ Fault(s[1], "kill")
  BY SlotSides DEF Kill
<1>2. /\ FaultTypes' /\ Grows /\ Count(s[1])' > 0 /\ Kills' = Kills + 1
      /\ \A d \in Sides : Count(d)' >= Count(d)
  BY <1>1, FaultCounted DEF FaultInv, Grows
<1>3. /\ link'[s] = "killed" /\ \A t \in Slots \ {s} : link'[t] = link[t]
      /\ UNCHANGED <<user, session>>
  BY DEF Kill, PoolInv, PoolTypes
<1>4. \A d \in Sides : Count(d) > 0 => Count(d)' > 0
  BY <1>2, Counts DEF FaultInv, FaultTypes, FaultRecord, Count
<1>5. DeadCounted'
  BY <1>2, <1>3, <1>4, SlotSides DEF FaultInv, DeadCounted
<1>6. InPool'
  BY <1>3 DEF FaultInv, InPool, State
<1>7. FailedCounted' /\ Attempts'
  BY <1>3, <1>4, SlotSides DEF FaultInv, FailedCounted, Attempts, State
<1>8. ASSUME Calm' PROVE OneDead'
  <2>1. Kills \in Nat /\ Kills' <= 1
    BY <1>8, Counts DEF FaultInv, Kills, Sides, Calm
  <2>2. Kills = 0 /\ Kills' # 0
    BY <1>2, <2>1
  <2>3. Fresh /\ (\A t \in Slots : ~Dead(t)) /\ OneDead
    BY <1>2, <1>8, <2>2 DEF Grows, FaultInv, OneDead
  <2>4. \A t \in Slots : Dead(t)' => t = s /\ link'[t] = "killed"
    BY <1>3, <2>3 DEF Dead
  <2>5. Fresh'
    BY <1>3, <2>3 DEF Fresh
  <2>6. \A h \in Handles : session'[h].tries <= 2 /\ State(h)' # "failed"
    BY <1>3, <2>3 DEF OneDead, State
  <2>7. \A t \in Slots : link'[t] # "stale"
    BY <2>4 DEF Dead
  <2>8. \A t, u \in Slots : Dead(t)' /\ Dead(u)' => t = u
    BY <2>4
  <2> QED
    BY <2>2, <2>5, <2>6, <2>7, <2>8 DEF OneDead
<1> QED
  BY <1>2, <1>5, <1>6, <1>7, <1>8 DEF FaultInv

-----------------------------------------------------------------------------
(***************************************************************************)
(* The comparison: who is blamed.                                          *)
(***************************************************************************)

VerdictTypes ==
  /\ verdict = [status |-> verdict.status, blamed |-> verdict.blamed, diff |-> verdict.diff]
  /\ verdict.status \in {"none", "OK", "DIFFERENT", "ERROR"}
  /\ verdict.blamed \in Sides \cup {Nobody}

\* A side fails on a fault of its own, and is canceled after another failed.
SideErrors ==
  /\ sideErr \in [Sides -> {"none", "failed", "canceled"}]
  /\ \A d \in Sides : sideErr[d] = "failed" => Count(d) > 0
  /\ (\E d \in Sides : sideErr[d] # "none") => \E e \in Sides : sideErr[e] = "failed"

Course ==
  /\ verdict.status = "ERROR" => phase \in {"closing", "done"}
  /\ phase = "drill" => todo # {}

\* One killed connection fails no side, and no table before the drill-down.
Survived ==
  Calm /\ ~setting.snapshot =>
    (\A d \in Sides : sideErr[d] = "none") /\ (verdict.status = "ERROR" => todo # {})

BlameInv == FaultInv /\ VerdictTypes /\ SideErrors /\ Course /\ Survived /\ BlamedSideFailed

\* What every step has to show about the verdict of an error.
Blamed(side) ==
  /\ side \in Sides
  /\ Count(side)' > 0 \/ (setting.snapshot /\ ~SnapshotIsolated)

LEMMA IsolationKept == setting' = setting => (SnapshotIsolated' <=> SnapshotIsolated)
  BY DEF SnapshotIsolated

LEMMA CountsKept ==
  ASSUME FaultInv, FaultInv', Grows
  PROVE  \A d \in Sides : Count(d) > 0 => Count(d)' > 0
  BY DEF Grows, FaultInv, FaultTypes, FaultRecord, Count

LEMMA SideErrorsKept ==
  ASSUME FaultInv, FaultInv', SideErrors, Grows, UNCHANGED sideErr PROVE SideErrors'
  BY CountsKept DEF SideErrors

LEMMA BlamedStays ==
  ASSUME FaultInv, FaultInv', VerdictTypes, BlamedSideFailed, Grows,
         verdict'.blamed = verdict.blamed, setting' = setting
  PROVE  BlamedSideFailed'
<1>1. verdict.blamed \in Sides \cup {Nobody}
  BY DEF VerdictTypes
<1>2. verdict.blamed # Nobody =>
        Count(verdict.blamed)' > 0 \/ (setting.snapshot /\ ~SnapshotIsolated)
  BY <1>1, CountsKept DEF BlamedSideFailed
<1> QED
  BY <1>2, IsolationKept DEF BlamedSideFailed

\* A step that neither ends a side nor the table.
LEMMA BlameKept ==
  ASSUME BlameInv, FaultInv', Grows, UNCHANGED <<sideErr, verdict, setting>>,
         verdict.status = "ERROR" => phase' \in {"closing", "done"} /\ todo' = todo,
         phase' = "drill" => todo' # {}
  PROVE  BlameInv'
<1>1. SideErrors'
  BY SideErrorsKept DEF BlameInv
<1>2. VerdictTypes' /\ Course'
  BY DEF BlameInv, VerdictTypes, Course
<1>3. Survived'
  BY DEF BlameInv, Survived, Grows
<1>4. BlamedSideFailed'
  BY BlamedStays DEF BlameInv
<1> QED
  BY <1>1, <1>2, <1>3, <1>4 DEF BlameInv

LEMMA ErrorFields ==
  ASSUME NEW d
  PROVE  Error(d) = [status |-> "ERROR", blamed |-> d, diff |-> {}]
  BY DEF Error

\* A step that fails the table.
LEMMA ErrorKept ==
  ASSUME BlameInv, FaultInv', Grows, UNCHANGED <<sideErr, setting>>,
         NEW d, Blamed(d), verdict' = Error(d), phase' = "closing",
         Calm' /\ ~setting.snapshot => todo' # {}
  PROVE  BlameInv'
<1>1. SideErrors'
  BY SideErrorsKept DEF BlameInv
<1>2. verdict'.status = "ERROR" /\ verdict'.blamed = d
  BY DEF Error
<1>3. VerdictTypes'
  BY <1>2 DEF VerdictTypes, Error, Blamed
<1>4. Course' /\ Survived'
  BY <1>2 DEF BlameInv, Course, Survived, Grows
<1>5. BlamedSideFailed'
  BY <1>2, IsolationKept DEF BlamedSideFailed, Blamed
<1> QED
  BY <1>1, <1>3, <1>4, <1>5 DEF BlameInv

-----------------------------------------------------------------------------
(* The workers.                                                            *)

LEMMA Returned ==
  ASSUME SideErrors, NEW h \in Workers, NEW err \in {"none", "failed", "canceled"}, Return(h, err)
  PROVE  /\ sideErr' \in [Sides -> {"none", "failed", "canceled"}]
         /\ sideErr'[h[1]] = IF sideErr[h[1]] = "none" THEN err ELSE sideErr[h[1]]
         /\ \A d \in Sides \ {h[1]} : sideErr'[d] = sideErr[d]
         /\ h[1] \in Sides
  BY DEF SideErrors, Return, Workers

LEMMA NoRescan ==
  ASSUME WorkerRecords, NEW h \in Workers, NEW x \in {"idle", "ready"},
         worker' = [worker EXCEPT ![h].state = x]
  PROVE  NoNewRescan
  BY WorkerStateSet DEF NoNewRescan

LEMMA GiveBackKeeps ==
  ASSUME PoolInv, FaultInv, NEW h, GiveBack(h), NoNewRescan
  PROVE  FaultInv' /\ Grows
  BY PoolKept, CloseKeeps DEF GiveBack

\* A worker that does not end its side.
LEMMA WorkerGoesOn ==
  ASSUME BlameInv, phase = "scan", FaultInv', Grows, UNCHANGED mainVars, UNCHANGED sideErr,
         UNCHANGED dataVars
  PROVE  BlameInv'
<1>1. UNCHANGED <<sideErr, verdict, setting, phase, todo>>
  BY DEF mainVars, dataVars
<1>2. verdict.status # "ERROR"
  BY DEF BlameInv, Course
<1> QED
  BY <1>1, <1>2, BlameKept

\* A worker ends its side with an error that the side has a reason for.
LEMMA SideEnds ==
  ASSUME BlameInv, phase = "scan", NEW h \in Workers, NEW err \in {"failed", "canceled"},
         Return(h, err), FaultInv', Grows, UNCHANGED mainVars, UNCHANGED dataVars,
         err = "failed" => Count(h[1])' > 0,
         err = "canceled" => \E d \in Sides : sideErr[d] # "none",
         Calm' => setting.snapshot
  PROVE  BlameInv'
<1>1. UNCHANGED <<verdict, setting, phase, todo>> /\ verdict.status # "ERROR"
  BY DEF mainVars, dataVars, BlameInv, Course
<1>2. /\ sideErr' \in [Sides -> {"none", "failed", "canceled"}]
      /\ sideErr'[h[1]] = IF sideErr[h[1]] = "none" THEN err ELSE sideErr[h[1]]
      /\ \A d \in Sides \ {h[1]} : sideErr'[d] = sideErr[d]
      /\ h[1] \in Sides
  BY Returned DEF BlameInv
<1>3. \A d \in Sides : Count(d) > 0 => Count(d)' > 0
  BY CountsKept DEF BlameInv
<1>4. SideErrors'
  <2>1. \A d \in Sides : sideErr'[d] = "failed" => Count(d)' > 0
    BY <1>2, <1>3 DEF BlameInv, SideErrors
  <2>2. \A d \in Sides : sideErr[d] = "failed" => sideErr'[d] = "failed"
    BY <1>2
  <2>3. \E e \in Sides : sideErr'[e] = "failed"
    <3>1. CASE err = "canceled"
      BY <2>2, <3>1 DEF BlameInv, SideErrors
    <3>2. CASE err = "failed" /\ sideErr[h[1]] = "none"
      BY <1>2, <3>2
    <3>3. CASE sideErr[h[1]] # "none"
      BY <1>2, <2>2, <3>3 DEF BlameInv, SideErrors
    <3> QED
      BY <3>1, <3>2, <3>3
  <2> QED
    BY <1>2, <2>1, <2>3 DEF SideErrors
<1>5. VerdictTypes' /\ Course' /\ Survived'
  BY <1>1 DEF BlameInv, VerdictTypes, Course, Survived
<1>6. BlamedSideFailed'
  BY <1>1, BlamedStays DEF BlameInv
<1> QED
  BY <1>4, <1>5, <1>6 DEF BlameInv

LEMMA WorkerBlame ==
  ASSUME PoolInv, WorkerRecords, BlameInv, NEW h \in Workers, WorkerStep(h)
  PROVE  BlameInv'
<1>1. h \in Handles /\ h[1] \in Sides
  BY WorkersHandles, SlotSides
<1>2. phase = "scan" /\ FaultInv /\ SideErrors /\ UNCHANGED dataVars
  BY DEF WorkerStep, BlameInv, TakeJob, ScanChunk, Rescan, FailWorker, CancelWorker,
         ReplacementFails, FinishWorker, dataVars
<1>3. CASE TakeJob(h)
  <2>1. NoNewRescan
    <3>1. worker' = [g \in Workers |->
            IF g = h THEN [state |-> "scanning", chunk |-> Head(jobs[h[1]])] ELSE worker[g]]
      BY <1>3 DEF TakeJob, WorkerRecords
    <3> QED
      BY <3>1 DEF NoNewRescan
  <2>2. UNCHANGED poolVars /\ UNCHANGED mainVars /\ UNCHANGED sideErr
    BY <1>3 DEF TakeJob
  <2> QED
    BY <1>2, <2>1, <2>2, PoolKept, WorkerGoesOn
<1>4. CASE ScanChunk(h)
  <2>1. \/ worker' = [worker EXCEPT ![h].state = "idle"] /\ GiveBack(h)
        \/ worker' = [worker EXCEPT ![h].state = "ready"] /\ UNCHANGED poolVars
    BY <1>4 DEF ScanChunk
  <2>2. NoNewRescan
    BY <2>1, NoRescan
  <2>3. FaultInv' /\ Grows
    BY <1>2, <2>1, <2>2, PoolKept, GiveBackKeeps
  <2>4. UNCHANGED mainVars /\ UNCHANGED sideErr
    BY <1>4 DEF ScanChunk
  <2> QED
    BY <1>2, <2>3, <2>4, WorkerGoesOn
<1>5. CASE Rescan(h)
  <2>1. /\ State(h) = "open" /\ ~Alive(h) /\ FailAndClose(h)
        /\ session' = [session EXCEPT ![h] = [Closed EXCEPT !.state = "checkout"]]
        /\ UNCHANGED <<faults, budget>> /\ UNCHANGED mainVars /\ UNCHANGED sideErr
    BY <1>5 DEF Rescan
  <2>2. FaultInv' /\ Grows
    BY <1>1, <1>2, <2>1, DeadCloses
  <2> QED
    BY <1>2, <2>1, <2>2, WorkerGoesOn
<1>6. CASE FailWorker(h)
  <2>1. /\ session' = [session EXCEPT ![h] = Closed] /\ Return(h, "failed")
        /\ UNCHANGED <<faults, budget>> /\ UNCHANGED mainVars
    BY <1>6 DEF FailWorker
  <2>2. NoNewRescan
    BY <2>1, NoRescan DEF Return
  <2>3. CASE /\ worker[h].state = "rescanning" \/ (worker[h].state = "scanning" /\ setting.snapshot)
             /\ State(h) = "open" /\ ~Alive(h) /\ FailAndClose(h)
    <3>1. FaultInv' /\ Grows
      BY <1>1, <1>2, <2>1, <2>3, DeadCloses
    <3>2. Count(h[1])' > 0 /\ (Calm' => Calm /\ Fresh)
      BY <1>1, <1>2, <2>1, <2>3, OpenDead, FaultsKept DEF FaultInv
    <3>3. Calm' => setting.snapshot
      BY <2>3, <3>2 DEF Fresh
    <3> QED
      BY <1>2, <2>1, <3>1, <3>2, <3>3, SideEnds
  <2>4. CASE State(h) = "failed" /\ UNCHANGED <<link, user>>
    <3>1. Resets /\ LetGo
      BY <2>1, <2>4, OneResets DEF LetGo
    <3>2. FaultInv' /\ Grows
      BY <1>2, <2>1, <2>2, <2>4, <3>1, ResetKeeps
    <3>3. Count(h[1])' > 0 /\ ~Calm'
      BY <1>1, <1>2, <2>1, <2>4, FaultsKept DEF FaultInv, FailedCounted, OneDead
    <3> QED
      BY <1>2, <2>1, <3>2, <3>3, SideEnds
  <2> QED
    BY <1>6, <2>3, <2>4 DEF FailWorker
<1>7. CASE CancelWorker(h)
  <2>1. Canceled(h[1]) /\ GiveBack(h) /\ Return(h, "canceled") /\ UNCHANGED mainVars
    BY <1>7 DEF CancelWorker
  <2>2. NoNewRescan
    BY <2>1, NoRescan DEF Return
  <2>3. FaultInv' /\ Grows
    BY <1>2, <2>1, <2>2, GiveBackKeeps
  <2>4. \E d \in Sides : sideErr[d] # "none"
    <3>1. Other(h[1]) \in Sides
      BY <1>1 DEF Other, Sides
    <3> QED
      BY <1>1, <2>1, <3>1 DEF Canceled
  <2>5. Calm' => setting.snapshot
    BY <2>3, <2>4 DEF BlameInv, Survived, Grows
  <2> QED
    BY <1>2, <2>1, <2>3, <2>4, <2>5, SideEnds
<1>8. CASE ReplacementFails(h)
  <2>1. /\ UNCHANGED poolVars /\ UNCHANGED <<sideErr, verdict, setting, todo>>
        /\ phase' = "panicked" /\ UNCHANGED worker
    BY <1>8 DEF ReplacementFails, scanVars, dataVars
  <2>2. FaultInv' /\ Grows
    BY <1>2, <2>1, PoolKept DEF NoNewRescan
  <2>3. verdict.status # "ERROR"
    BY <1>2 DEF BlameInv, Course
  <2> QED
    BY <2>1, <2>2, <2>3, BlameKept
<1>9. CASE FinishWorker(h)
  <2>1. GiveBack(h) /\ Return(h, "none") /\ UNCHANGED mainVars
    BY <1>9 DEF FinishWorker
  <2>2. NoNewRescan
    BY <2>1, NoRescan DEF Return
  <2>3. FaultInv' /\ Grows
    BY <1>2, <2>1, <2>2, GiveBackKeeps
  <2>4. sideErr' = sideErr
    BY <1>2, <2>1, Returned DEF SideErrors
  <2> QED
    BY <1>2, <2>1, <2>3, <2>4, WorkerGoesOn
<1> QED
  BY <1>3, <1>4, <1>5, <1>6, <1>7, <1>8, <1>9 DEF WorkerStep

-----------------------------------------------------------------------------
(* The main program.                                                       *)

LEMMA AsksHandle ==
  ASSUME phase \in Questions
  PROVE  /\ Asks \in Handles /\ Asks[1] = SideOf(phase) /\ SideOf(phase) \in Sides
         /\ ~setting.snapshot => Asks[2] = 0
  BY PoolAssumption DEF Asks, SideOf, Scan, Control, Handles, Slots, Sides

LEMMA DrillsHandle == DrillHandle \in Handles /\ DrillHandle[1] = DrillSide /\ DrillSide \in Sides
  BY PoolAssumption DEF DrillHandle, DrillSide, Scan, Handles, Slots, Sides

\* A step of the main program between its questions.
LEMMA MainGoesOn ==
  ASSUME BlameInv, phase \notin {"closing", "done"}, FaultInv', Grows,
         UNCHANGED <<sideErr, verdict, setting>>, phase' = "drill" => todo' # {}
  PROVE  BlameInv'
  BY BlameKept DEF BlameInv, Course

LEMMA PlanBlame ==
  ASSUME PoolInv, WorkerRecords, BlameInv, Plan
  PROVE  BlameInv'
<1> DEFINE started == {h \in Workers : h[2] <= Scanners(Len(chunks'))}
<1>1. /\ worker' = [h \in Workers |->
            [worker[h] EXCEPT !.state = IF h \in started THEN "ready" ELSE "idle"]]
      /\ session' = [h \in Handles |->
            IF h \in started /\ ~setting.snapshot
            THEN [Closed EXCEPT !.state = "checkout"] ELSE session[h]]
      /\ phase = "plan" /\ phase' = "scan"
      /\ UNCHANGED <<link, user, faults, budget, sideErr, verdict, setting>>
  BY DEF Plan, dataVars
<1> HIDE DEF started
<1>2. NoNewRescan
  <2>1. \A h \in Workers : worker[h] = [state |-> worker[h].state, chunk |-> worker[h].chunk]
    BY DEF WorkerRecords
  <2>2. \A h \in Workers : worker'[h].state \in {"ready", "idle"}
    <3> SUFFICES ASSUME NEW h \in Workers PROVE worker'[h].state \in {"ready", "idle"}
      OBVIOUS
    <3>1. worker'[h] = [[state |-> worker[h].state, chunk |-> worker[h].chunk] EXCEPT
                          !.state = IF h \in started THEN "ready" ELSE "idle"]
      BY <1>1, <2>1, Zenon
    <3> QED
      BY <3>1
  <2> QED
    BY <2>2 DEF NoNewRescan
<1>3. Resets /\ LetGo
  BY <1>1, ClosedFields DEF Resets, LetGo
<1>4. FaultInv' /\ Grows
  BY <1>1, <1>2, <1>3, ResetKeeps DEF BlameInv
<1> QED
  BY <1>1, <1>4, MainGoesOn

LEMMA FoldBlame ==
  ASSUME PoolInv, BlameInv, Fold
  PROVE  BlameInv'
<1>1. /\ phase = "scan" /\ UNCHANGED poolVars /\ UNCHANGED worker /\ UNCHANGED sideErr
      /\ UNCHANGED setting
  BY DEF Fold, scanVars, dataVars
<1>2. FaultInv' /\ Grows
  BY <1>1, PoolKept DEF BlameInv, NoNewRescan
<1>3. CASE \E d \in Sides : sideErr[d] # "none"
  <2>1. verdict' = Error(ScanError) /\ phase' = "closing"
    BY <1>3 DEF Fold
  <2>2. PICK d \in Sides : d = ScanError /\ sideErr[d] = "failed"
    BY <1>3 DEF BlameInv, SideErrors, ScanError, Sides
  <2>3. Blamed(d)
    BY <1>2, <2>2, CountsKept DEF BlameInv, SideErrors, Blamed
  <2>4. Calm' => setting.snapshot
    BY <1>2, <1>3 DEF BlameInv, Survived, Grows
  <2> QED
    BY <1>1, <1>2, <2>1, <2>2, <2>3, <2>4, ErrorKept
<1>4. CASE ~\E d \in Sides : sideErr[d] # "none"
  <2>1. PICK x \in {"OK", "DIFFERENT"} : \E y : verdict' = [status |-> x, blamed |-> Nobody, diff |-> y]
    BY <1>4, Zenon DEF Fold
  <2>2. phase' = IF todo' = {} THEN "closing" ELSE "drill"
    BY <1>4 DEF Fold
  <2>3. verdict'.status = x /\ verdict'.blamed = Nobody /\ VerdictTypes'
    BY <2>1 DEF VerdictTypes
  <2>4. SideErrors'
    BY <1>1, <1>2, SideErrorsKept DEF BlameInv
  <2>5. Course' /\ Survived' /\ BlamedSideFailed'
    BY <1>1, <1>4, <2>2, <2>3 DEF Course, Survived, BlamedSideFailed
  <2> QED
    BY <1>2, <2>3, <2>4, <2>5 DEF BlameInv
<1> QED
  BY <1>3, <1>4

LEMMA FailQuestionBlame ==
  ASSUME PoolInv, BlameInv, FailQuestion
  PROVE  BlameInv'
<1>1. /\ phase \in Questions /\ QueryFails(Asks) /\ phase' = "closing"
      /\ UNCHANGED worker /\ UNCHANGED <<sideErr, setting>>
  BY DEF FailQuestion, scanVars, dataVars
<1>2. PICK h \in Handles : h = Asks /\ h[1] = SideOf(phase) /\ (~setting.snapshot => h[2] = 0)
  BY <1>1, AsksHandle
<1>3. FaultInv' /\ Grows /\ Count(h[1])' > 0 /\ (Calm' => h[2] # 0)
  BY <1>1, <1>2, QueryFailsKeeps DEF BlameInv, NoNewRescan
<1>4. PICK d \in Sides : d = h[1]
  BY SlotSides
<1>5. Blamed(d) /\ verdict' = Error(d)
  BY <1>2, <1>3, <1>4 DEF Blamed, FailQuestion
<1>6. Calm' => setting.snapshot
  BY <1>2, <1>3
<1> QED
  BY <1>1, <1>3, <1>5, <1>6, ErrorKept

LEMMA FailDrillBlame ==
  ASSUME PoolInv, BlameInv, FailDrill
  PROVE  BlameInv'
<1>1. /\ phase = "drill" /\ QueryFails(DrillHandle) /\ phase' = "closing"
      /\ UNCHANGED worker /\ UNCHANGED <<sideErr, setting>> /\ todo' = todo
  BY DEF FailDrill, scanVars, dataVars
<1>2. PICK h \in Handles : h = DrillHandle /\ h[1] = DrillSide
  BY DrillsHandle
<1>3. FaultInv' /\ Grows /\ Count(h[1])' > 0
  BY <1>1, <1>2, QueryFailsKeeps DEF BlameInv, NoNewRescan
<1>4. PICK d \in Sides : d = h[1]
  BY SlotSides
<1>5. Blamed(d) /\ verdict' = Error(d)
  BY <1>2, <1>3, <1>4 DEF Blamed, FailDrill
<1>6. todo' # {}
  BY <1>1 DEF BlameInv, Course
<1> QED
  BY <1>1, <1>3, <1>5, <1>6, ErrorKept

LEMMA BeginSnapshotBlame ==
  ASSUME PoolInv, SnapshotCourse, BlameInv, BeginSnapshot
  PROVE  BlameInv'
<1>1. /\ phase \in {"srcSnapshot", "dstSnapshot"} /\ setting.snapshot
      /\ UNCHANGED worker /\ UNCHANGED <<sideErr, setting>>
  BY DEF BeginSnapshot, SnapshotCourse, scanVars, dataVars
<1>2. NoNewRescan
  BY <1>1 DEF NoNewRescan
<1>3. CASE SnapshotIsolated
  <2>1. /\ UNCHANGED poolVars /\ UNCHANGED verdict /\ phase' # "drill"
    BY <1>3 DEF BeginSnapshot
  <2>2. FaultInv' /\ Grows
    BY <1>2, <2>1, PoolKept DEF BlameInv
  <2> QED
    BY <1>1, <2>1, <2>2, MainGoesOn
<1>4. CASE ~SnapshotIsolated
  <2>1. PICK d \in Sides : d = SideOf(phase)
    BY <1>1 DEF SideOf, Sides
  <2>2. verdict' = Error(d) /\ phase' = "closing" /\ Close(Asks)
    BY <1>4, <2>1 DEF BeginSnapshot
  <2>3. FaultInv' /\ Grows
    BY <1>2, <2>2, CloseKeeps DEF BlameInv
  <2>4. Blamed(d)
    BY <1>1, <1>4 DEF Blamed
  <2> QED
    BY <1>1, <2>2, <2>3, <2>4, ErrorKept
<1> QED
  BY <1>3, <1>4

LEMMA CountsBlame ==
  ASSUME PoolInv, BlameInv, CountSource \/ CountDestination
  PROVE  BlameInv'
<1>1. /\ phase \notin {"closing", "done"} /\ Keep /\ phase' # "drill"
      /\ UNCHANGED worker /\ UNCHANGED <<sideErr, setting>>
  BY DEF CountSource, CountDestination, scanVars, dataVars
<1>2. FaultInv' /\ Grows
  BY <1>1, PoolKept, CloseKeeps DEF BlameInv, Keep, NoNewRescan
<1>3. CASE UNCHANGED verdict
  BY <1>1, <1>2, <1>3, MainGoesOn
<1>4. CASE verdict' = [verdict EXCEPT !.status = "DIFFERENT"]
  <2>1. /\ verdict'.status = "DIFFERENT" /\ verdict'.blamed = verdict.blamed
        /\ verdict' = [status |-> verdict'.status, blamed |-> verdict'.blamed, diff |-> verdict'.diff]
    BY <1>4 DEF BlameInv, VerdictTypes
  <2>2. VerdictTypes'
    BY <2>1 DEF BlameInv, VerdictTypes
  <2>3. SideErrors'
    BY <1>1, <1>2, SideErrorsKept DEF BlameInv
  <2>4. Course' /\ Survived'
    BY <1>1, <1>2, <2>1 DEF BlameInv, Course, Survived, Grows
  <2>5. BlamedSideFailed'
    BY <1>1, <1>2, <2>1, BlamedStays DEF BlameInv
  <2> QED
    BY <1>2, <2>2, <2>3, <2>4, <2>5 DEF BlameInv
<1> QED
  BY <1>3, <1>4 DEF CountSource, CountDestination

LEMMA CloseDeferredBlame ==
  ASSUME PoolInv, BlameInv, CloseDeferred
  PROVE  BlameInv'
<1>1. /\ phase' = "done"
      /\ user' = [s \in Slots |-> IF user[s] \in Deferred THEN Nobody ELSE user[s]]
      /\ session' = [h \in Handles |-> IF h \in Deferred THEN Closed ELSE session[h]]
      /\ UNCHANGED <<link, faults, budget, worker, sideErr, verdict, setting, todo>>
  BY DEF CloseDeferred, scanVars, dataVars
<1>2. Resets /\ LetGo
  BY <1>1, ClosedFields DEF Resets, LetGo
<1>3. FaultInv' /\ Grows
  BY <1>1, <1>2, ResetKeeps DEF BlameInv, NoNewRescan
<1> QED
  BY <1>1, <1>3, BlameKept

LEMMA BlameNext == SessionInv /\ ReturnInv /\ BlameInv /\ [Next]_vars => BlameInv'
<1> SUFFICES ASSUME SessionInv, ReturnInv, BlameInv, [Next]_vars PROVE BlameInv'
  OBVIOUS
<1>0. PoolInv /\ WorkerRecords /\ SnapshotCourse /\ FaultInv
  BY DEF SessionInv, ReturnInv, BlameInv
\* Nothing happens to the main program.
<1>a. ASSUME FaultInv', Grows, UNCHANGED <<mainVars, scanVars, setting>> PROVE BlameInv'
  <2>1. UNCHANGED <<sideErr, verdict, setting, phase, todo>>
    BY <1>a DEF mainVars, scanVars
  <2>2. /\ verdict.status = "ERROR" => phase' \in {"closing", "done"}
        /\ phase' = "drill" => todo' # {}
    BY <2>1 DEF BlameInv, Course
  <2> QED
    BY <1>a, <2>1, <2>2, BlameKept
<1>1. ASSUME NEW h \in Handles, SessionStep(h) PROVE BlameInv'
  <2>1. PoolStep(h) /\ UNCHANGED worker /\ UNCHANGED <<mainVars, scanVars, setting>>
    BY <1>1 DEF SessionStep, scanVars, dataVars
  <2> QED
    BY <1>0, <1>a, <2>1, PoolStepKeeps
<1>2. ASSUME NEW h \in Workers, WorkerStep(h) PROVE BlameInv'
  BY <1>0, <1>2, WorkerBlame
<1>3. CASE StartQuestion
  <2>1. Acquire(Asks) /\ NoNewRescan /\ UNCHANGED <<mainVars, scanVars, setting>>
    BY <1>3 DEF StartQuestion, NoNewRescan, scanVars, dataVars
  <2> QED
    BY <1>0, <1>a, <2>1, AcquireKeeps
<1>4. CASE StartDrill
  <2>1. Acquire(DrillHandle) /\ NoNewRescan /\ UNCHANGED <<mainVars, scanVars, setting>>
    BY <1>4 DEF StartDrill, NoNewRescan, scanVars, dataVars
  <2> QED
    BY <1>0, <1>a, <2>1, AcquireKeeps
<1>5. CASE ReadSchema
  <2>1. /\ Close(Asks) /\ NoNewRescan /\ phase \notin {"closing", "done"} /\ phase' # "drill"
        /\ UNCHANGED <<sideErr, verdict, setting>>
    BY <1>5 DEF ReadSchema, NoNewRescan, scanVars, dataVars
  <2>2. FaultInv' /\ Grows
    BY <1>0, <2>1, CloseKeeps
  <2> QED
    BY <2>1, <2>2, MainGoesOn
<1>6. CASE DrillChunk
  <2>1. /\ UNCHANGED poolVars \/ Close(DrillHandle)
        /\ NoNewRescan /\ phase \notin {"closing", "done"} /\ (phase' = "drill" => todo' # {})
        /\ UNCHANGED <<sideErr, verdict, setting>>
    BY <1>6 DEF DrillChunk, NoNewRescan, scanVars, dataVars
  <2>2. FaultInv' /\ Grows
    BY <1>0, <2>1, PoolKept, CloseKeeps
  <2> QED
    BY <2>1, <2>2, MainGoesOn
<1>7. CASE Move
  <2>1. UNCHANGED poolVars /\ NoNewRescan /\ UNCHANGED <<mainVars, scanVars, setting>>
    BY <1>7 DEF Move, NoNewRescan, scanVars
  <2> QED
    BY <1>0, <1>a, <2>1, PoolKept
<1>8. CASE KillSession
  <2>1. PICK s \in Slots : Kill(s)
    BY <1>8 DEF KillSession
  <2>2. UNCHANGED worker /\ UNCHANGED <<mainVars, scanVars, setting>>
    BY <1>8 DEF KillSession, scanVars, dataVars
  <2> QED
    BY <1>0, <1>a, <2>1, <2>2, KillKeeps
<1>9. CASE UNCHANGED vars
  <2>1. UNCHANGED poolVars /\ NoNewRescan /\ UNCHANGED <<mainVars, scanVars, setting>>
    BY <1>9 DEF vars, NoNewRescan, scanVars, dataVars
  <2> QED
    BY <1>0, <1>a, <2>1, PoolKept
<1> QED
  BY <1>0, <1>1, <1>2, <1>3, <1>4, <1>5, <1>6, <1>7, <1>8, <1>9, FailQuestionBlame, FailDrillBlame,
     BeginSnapshotBlame, CountsBlame, PlanBlame, FoldBlame, CloseDeferredBlame
  DEF Next, Step, MainStep

LEMMA BlameInit == Init => BlameInv
<1> SUFFICES ASSUME Init PROVE BlameInv
  OBVIOUS
<1>1. PICK n \in Nat : PoolInit(n) /\ setting.parallel = n
  BY PoolAssumption, CompareAssumption DEF Init
<1>2. faults = [d \in Sides |-> [kill |-> 0, refuse |-> 0, torn |-> 0]] /\ budget \in 0..MaxFaults
  BY <1>1 DEF PoolInit
<1>3. faults \in [Sides -> FaultRecord] /\ \A d \in Sides : Count(d) = 0
  BY <1>2 DEF FaultRecord, Count
<1>4. FaultTypes
  BY <1>2, <1>3, PoolAssumption DEF FaultTypes, Sides
<1>5. \A h \in Handles : State(h) = "closed" /\ session[h].tries = 0 /\ ~session[h].retried
  BY <1>1 DEF PoolInit, Closed, State
<1>6. \A s \in Slots : user[s] = Nobody /\ link[s] \in {"live", "absent"}
  BY <1>1 DEF PoolInit
<1>7. Fresh
  BY <1>5 DEF Fresh, Init
<1>8. OneDead
  BY <1>5, <1>6, <1>7 DEF OneDead, Dead
<1>9. FaultInv
  BY <1>4, <1>5, <1>6, <1>8 DEF FaultInv, DeadCounted, InPool, FailedCounted, Attempts
<1>10. VerdictTypes /\ SideErrors /\ Course /\ Survived /\ BlamedSideFailed
  BY DEF Init, VerdictTypes, SideErrors, Course, Survived, BlamedSideFailed
<1> QED
  BY <1>9, <1>10 DEF BlameInv

LEMMA ReturnAlways == Spec => []ReturnInv
  BY ReturnInit, ReturnNext, SessionsAlways, PTL DEF Spec

LEMMA BlameAlways == Spec => []BlameInv
  BY BlameInit, BlameNext, SessionsAlways, ReturnAlways, PTL DEF Spec

\* A side is blamed for an error only if a connection of that side was
\* killed, refused or torn, or its snapshot is refused: never the side that
\* was canceled because the other one failed (pickScanError, compareTable).
THEOREM BlameCorrect == Spec => []BlamedSideFailed
<1>1. BlameInv => BlamedSideFailed
  BY DEF BlameInv
<1> QED
  BY <1>1, BlameAlways, PTL

\* One killed connection is survived, whichever it is, whenever it happens
\* and whatever the number of workers: three attempts of a checkout, one
\* replacement of a control session and one scan more of a chunk are enough
\* (checkoutChecked, ControlQueryer.QueryContext, scanSide).
THEOREM KillSurvived == Spec => []OneKillSurvived
<1>1. BlameInv => OneKillSurvived
  <2> SUFFICES ASSUME BlameInv, verdict.status = "ERROR", ~setting.snapshot, todo = {},
                      ~(Count("src") + Count("dst") > Kills), ~(Kills > 1)
               PROVE  FALSE
    BY DEF OneKillSurvived, Kills
  <2>1. \A d \in Sides : Count(d) \in Nat /\ faults[d].kill \in Nat /\ faults[d].kill <= Count(d)
    BY Counts DEF BlameInv, FaultInv
  <2>2. Calm
    BY <2>1 DEF Calm, Kills, Sides
  <2> QED
    BY <2>2 DEF BlameInv, Survived
<1> QED
  BY <1>1, BlameAlways, PTL

-----------------------------------------------------------------------------
(* Types.                                                                  *)

Phases == Questions \cup {"scan", "drill", "closing", "done", "panicked"}

DataTypes ==
  /\ setting \in Settings
  /\ table \in [Sides -> Table] /\ seen \in [Sides -> Table \cup {NoTable}]
  /\ phase \in Phases /\ total \in [Sides -> 0..Cardinality(Keys)]
  /\ \A h \in Workers : worker[h].state \in {"idle", "ready", "scanning", "rescanning"}
  /\ moves \in 0..setting.moves

LEMMA SettingTypes ==
  ASSUME DataTypes
  PROVE  setting.moves \in Nat /\ setting.tables \subseteq [Sides -> Table]
  BY CompareAssumption DEF DataTypes

LEMMA PresentCounted ==
  ASSUME NEW d \in Sides
  PROVE  IsFiniteSet(Present(d)) /\ Cardinality(Present(d)) \in 0..Cardinality(Keys)
<1>1. Present(d) \subseteq Keys /\ IsFiniteSet(Keys)
  BY CompareAssumption DEF Present, RowsIn
<1>2. IsFiniteSet(Present(d)) /\ Cardinality(Present(d)) <= Cardinality(Keys)
  BY <1>1, FS_Subset
<1> QED
  BY <1>1, <1>2, FS_CardinalityType

LEMMA DataTypesInit == Init => DataTypes
<1> SUFFICES ASSUME Init PROVE DataTypes
  OBVIOUS
<1>1. setting.moves \in Nat /\ setting.tables \subseteq [Sides -> Table]
  BY CompareAssumption DEF Init
<1>2. 0 \in 0..Cardinality(Keys)
  BY CompareAssumption, FS_CardinalityType
<1> QED
  BY <1>1, <1>2 DEF Init, DataTypes, Phases, Questions

\* The worker's state after one of its steps.
LEMMA WorkerStates ==
  ASSUME WorkerRecords, DataTypes, NEW h \in Workers, WorkerStep(h)
  PROVE  \A g \in Workers : worker'[g].state \in {"idle", "ready", "scanning", "rescanning"}
<1> DEFINE Set(x) == worker' = [worker EXCEPT ![h].state = x]
<1>1. \/ TakeJob(h) \/ UNCHANGED worker
      \/ \E x \in {"idle", "ready", "rescanning"} : Set(x)
  BY DEF WorkerStep, ScanChunk, Rescan, FailWorker, CancelWorker, ReplacementFails, FinishWorker,
         Return, scanVars
<1>2. CASE TakeJob(h)
  <2>1. worker' = [worker EXCEPT ![h] = [state |-> "scanning", chunk |-> Head(jobs[h[1]])]]
    BY <1>2 DEF TakeJob
  <2>2. worker' = [g \in Workers |->
          IF g = h THEN [state |-> "scanning", chunk |-> Head(jobs[h[1]])] ELSE worker[g]]
    BY <2>1 DEF WorkerRecords
  <2> QED
    BY <2>2 DEF DataTypes
<1>3. CASE UNCHANGED worker
  BY <1>3 DEF DataTypes
<1>4. CASE \E x \in {"idle", "ready", "rescanning"} : Set(x)
  <2>1. PICK x \in {"idle", "ready", "rescanning"} : Set(x)
    BY <1>4
  <2>2. worker'[h].state = x /\ \A g \in Workers \ {h} : worker'[g] = worker[g]
    BY <2>1, WorkerStateSet
  <2> QED
    BY <2>1, <2>2 DEF DataTypes
<1> QED
  BY <1>1, <1>2, <1>3, <1>4

LEMMA DataTypesNext == ReturnInv /\ DataTypes /\ [Next]_vars => DataTypes'
<1> SUFFICES ASSUME ReturnInv, DataTypes, [Next]_vars PROVE DataTypes'
  OBVIOUS
\* All but the tables and the counts.
<1>a. ASSUME UNCHANGED <<dataVars, seen, total>>, phase' \in Phases,
             \A h \in Workers : worker'[h].state \in {"idle", "ready", "scanning", "rescanning"}
      PROVE  DataTypes'
  BY <1>a DEF DataTypes, dataVars
<1>1. ASSUME NEW h \in Handles, SessionStep(h) PROVE DataTypes'
  BY <1>1 DEF SessionStep, mainVars, scanVars, dataVars, DataTypes
<1>2. ASSUME NEW h \in Workers, WorkerStep(h) PROVE DataTypes'
  <2>1. \A g \in Workers : worker'[g].state \in {"idle", "ready", "scanning", "rescanning"}
    BY <1>2, WorkerStates DEF ReturnInv
  <2>2. UNCHANGED <<dataVars, seen, total>> /\ phase' \in {"scan", "panicked"}
    BY <1>2 DEF WorkerStep, TakeJob, ScanChunk, Rescan, FailWorker, CancelWorker,
                ReplacementFails, FinishWorker, mainVars
  <2> QED
    BY <1>a, <2>1, <2>2 DEF Phases
<1>3. CASE StartQuestion \/ FailQuestion \/ ReadSchema \/ Fold \/ StartDrill \/ DrillChunk
           \/ FailDrill \/ CloseDeferred
  <2>1. UNCHANGED <<dataVars, seen, total>> /\ UNCHANGED worker
    BY <1>3 DEF StartQuestion, FailQuestion, ReadSchema, Fold, StartDrill, DrillChunk, FailDrill,
                CloseDeferred, mainVars, scanVars
  <2>2. phase' \in Phases
    BY <1>3 DEF StartQuestion, FailQuestion, ReadSchema, Fold, StartDrill, DrillChunk, FailDrill,
                CloseDeferred, mainVars, Phases, Questions, DataTypes
  <2> QED
    BY <1>a, <2>1, <2>2 DEF DataTypes
<1>4. CASE BeginSnapshot
  <2>1. UNCHANGED <<dataVars, total>> /\ UNCHANGED worker /\ SideOf(phase) \in Sides
    BY <1>4 DEF BeginSnapshot, scanVars, SideOf, Sides
  <2>2. seen' \in [Sides -> Table \cup {NoTable}]
    BY <1>4, <2>1 DEF BeginSnapshot, DataTypes
  <2>3. phase' \in Phases
    BY <1>4 DEF BeginSnapshot, Phases, Questions
  <2> QED
    BY <2>1, <2>2, <2>3 DEF DataTypes, dataVars
<1>5. CASE CountSource \/ CountDestination
  <2>1. UNCHANGED <<dataVars, seen>> /\ UNCHANGED worker
    BY <1>5 DEF CountSource, CountDestination, scanVars
  <2>2. \E d \in Sides : total' = [total EXCEPT ![d] = Cardinality(Present(d))]
    BY <1>5 DEF CountSource, CountDestination, Sides
  <2>3. total' \in [Sides -> 0..Cardinality(Keys)]
    BY <2>2, PresentCounted DEF DataTypes
  <2>4. phase' \in Phases
    BY <1>5 DEF CountSource, CountDestination, Phases, Questions
  <2> QED
    BY <2>1, <2>3, <2>4 DEF DataTypes, dataVars
<1>6. CASE Plan
  <2> DEFINE started == {h \in Workers : h[2] <= Scanners(Len(chunks'))}
  <2>1. /\ worker' = [h \in Workers |->
              [worker[h] EXCEPT !.state = IF h \in started THEN "ready" ELSE "idle"]]
        /\ UNCHANGED <<dataVars, seen, total>> /\ phase' = "scan"
    BY <1>6 DEF Plan
  <2> HIDE DEF started
  <2>2. ASSUME NEW h \in Workers PROVE worker'[h].state \in {"idle", "ready"}
    <3>1. worker[h] = [state |-> worker[h].state, chunk |-> worker[h].chunk]
      BY DEF ReturnInv, WorkerRecords
    <3>2. worker'[h] = [[state |-> worker[h].state, chunk |-> worker[h].chunk] EXCEPT
                          !.state = IF h \in started THEN "ready" ELSE "idle"]
      BY <2>1, <3>1, Zenon
    <3> QED
      BY <3>2
  <2> QED
    BY <1>a, <2>1, <2>2 DEF Phases
<1>7. CASE Move
  <2>1. PICK d \in Sides, k \in Keys, v \in Values \cup {NoRow} :
          table' = [table EXCEPT ![d] = [table[d] EXCEPT ![k] = v]]
    BY <1>7 DEF Move
  <2>2. [table[d] EXCEPT ![k] = v] \in Table
    BY DEF DataTypes, Table
  <2>3. table' \in [Sides -> Table]
    BY <2>1, <2>2 DEF DataTypes
  <2>4. moves' \in 0..setting.moves
    BY <1>7, SettingTypes DEF Move, DataTypes
  <2> QED
    BY <1>7, <2>3, <2>4 DEF Move, mainVars, scanVars, DataTypes
<1>8. CASE KillSession \/ UNCHANGED vars
  BY <1>8 DEF KillSession, vars, mainVars, scanVars, dataVars, DataTypes
<1> QED
  BY <1>1, <1>2, <1>3, <1>4, <1>5, <1>6, <1>7, <1>8 DEF Next, Step, MainStep

LEMMA DataTypesAlways == Spec => []DataTypes
  BY DataTypesInit, DataTypesNext, ReturnAlways, PTL DEF Spec

\* Types of the state: at most three attempts of a checkout, no more faults
\* than the bound, no more rows than keys.
THEOREM TypeCorrect == Spec => []TypeOK
<1>1. SessionInv /\ BlameInv /\ DataTypes => TypeOK
  <2> SUFFICES ASSUME SessionInv, BlameInv, DataTypes PROVE TypeOK
    OBVIOUS
  <2>1. /\ PoolTypes /\ FaultTypes /\ Attempts /\ VerdictTypes /\ SideErrors
    BY DEF SessionInv, PoolInv, BlameInv, FaultInv
  <2>2. session \in [Handles -> [state : {"closed", "checkout", "init", "open", "failed"},
                                 tries : 0..3, retried : BOOLEAN]]
    BY <2>1 DEF PoolTypes, SessionType, Attempts
  <2>3. \A d \in Sides : Count(d) \in Nat /\ Count(d) <= MaxFaults
    BY <2>1, Counts, PoolAssumption DEF FaultTypes, Sides
  <2>4. budget \in 0..MaxFaults
    BY <2>1, Counts, PoolAssumption DEF FaultTypes, Sides
  <2>5. faults \in [Sides -> [kill : 0..MaxFaults, refuse : 0..MaxFaults, torn : 0..MaxFaults]]
    <3>1. ASSUME NEW d \in Sides
          PROVE  faults[d] \in [kill : 0..MaxFaults, refuse : 0..MaxFaults, torn : 0..MaxFaults]
      <4>1. faults[d] \in [kill : Nat, refuse : Nat, torn : Nat]
        BY <2>1 DEF FaultTypes, FaultRecord
      <4>2. faults[d].kill + faults[d].refuse + faults[d].torn <= MaxFaults
        BY <2>3 DEF Count
      <4> QED
        BY <4>1, <4>2, PoolAssumption
    <3> QED
      BY <2>1, <3>1 DEF FaultTypes
  <2>6. PoolTypeOK
    BY <2>1, <2>2, <2>4, <2>5 DEF PoolTypeOK, PoolTypes
  <2> QED
    BY <2>1, <2>6 DEF TypeOK, DataTypes, Phases, VerdictTypes, SideErrors
<1> QED
  BY <1>1, SessionsAlways, BlameAlways, DataTypesAlways, PTL

-----------------------------------------------------------------------------
(***************************************************************************)
(* The verdict of a comparison, for any tables, key columns and settings,  *)
(* any number of workers and of killed connections: it is about the two    *)
(* tables, if they are not written to or are read in snapshots.            *)
(***************************************************************************)

(***************************************************************************)
(* What the digests of a plan say about the two tables.                    *)
(***************************************************************************)

\* The gate of range mode: the two sides order the key in the same way, and
\* a side's WHERE in the way of its ORDER BY (KeyRangeChunkable).
LEMMA SidesAgree ==
  ASSUME RangeMode
  PROVE  /\ \A x : By("src", x) = By("dst", x) /\ Where("src", x) = Where("dst", x)
         /\ \A x : By("src", x) = Where("src", x)
         /\ \A x \in Int : Where("src", x) \in Int
<1> DEFINE a == setting.key["src"]
           b == setting.key["dst"]
<1>1. /\ a.family = b.family /\ a.family # "enum"
      /\ \/ a.family = "value"
         \/ /\ a.family = "string" /\ a.collation = b.collation
            /\ a.collation = "" => a.binary /\ b.binary
  BY DEF RangeMode, KeyRangeChunkable, KeyOrderCompatible, KeyRangeAddressable
<1> HIDE DEF a, b
<1>2. \A x, p, q : a.family = "string" => StringRank(a, p, x) = StringRank(b, q, x)
  BY <1>1 DEF StringRank
<1>3. \A x, p, q : WhereRank(a, p, x) = WhereRank(b, q, x)
  BY <1>1, <1>2 DEF WhereRank
<1>4. \A x, p, q : OrderRank(a, p, x) = WhereRank(a, p, x) /\ OrderRank(b, q, x) = WhereRank(b, q, x)
  BY <1>1 DEF OrderRank
<1>5. \A x \in Int : \A p : WhereRank(a, p, x) \in Int
  <2> SUFFICES ASSUME NEW x \in Int, NEW p PROVE WhereRank(a, p, x) \in Int
    OBVIOUS
  <2>1. -x \in Int
    OBVIOUS
  <2>2. StringRank(a, p, x) \in Int
    BY <2>1, Zenon DEF StringRank
  <2> QED
    BY <2>2, Zenon DEF WhereRank
<1> QED
  BY <1>3, <1>4, <1>5 DEF By, Where, a, b

\* The chunks of the plan.
Planned == {chunks[p] : p \in DOMAIN chunks}

LEMMA PlanIds ==
  ASSUME NEW cs \in PlanChunks
  PROVE  /\ cs \in Seq({cs[p] : p \in DOMAIN cs})
         /\ \A p \in DOMAIN cs : cs[p].id = p - 1
         /\ ~RangeMode => \A p \in DOMAIN cs : cs[p].lo = <<>>
<1>1. CASE cs = <<>>
  BY <1>1
<1>2. CASE ~RangeMode /\ cs = << WholeTable >>
  <2>1. DOMAIN cs = {1} /\ cs[1] = WholeTable /\ WholeTable.id = 0 /\ WholeTable.lo = <<>>
    BY <1>2 DEF WholeTable
  <2> QED
    BY <1>2, <2>1
<1>3. ASSUME NEW ks \in KeyOrders, RangeMode, cs = ChunksOf(ks)
      PROVE  cs \in Seq({cs[p] : p \in DOMAIN cs}) /\ \A p \in DOMAIN cs : cs[p].id = p - 1
  <2>1. PICK n \in Nat : DOMAIN ks = 1..n
    BY PresentCounted DEF KeyOrders, Sides
  <2>2. DOMAIN cs = 1..n /\ \A p \in 1..n : cs[p].id = p - 1
    BY <1>3, <2>1 DEF ChunksOf
  <2>3. cs = [p \in 1..n |-> cs[p]]
    BY <1>3, <2>1 DEF ChunksOf
  <2> QED
    BY <2>2, <2>3
<1> QED
  BY <1>1, <1>2, <1>3 DEF PlanChunks

LEMMA PlanChunkIds ==
  ASSUME chunks \in PlanChunks
  PROVE  /\ chunks \in Seq(Planned)
         /\ \A p \in DOMAIN chunks : chunks[p].id = p - 1
         /\ ~RangeMode => \A c \in Planned : c.lo = <<>>
  BY PlanIds DEF Planned

\* A row of the source is in some chunk.
LEMMA RowsPlanned ==
  ASSUME chunks \in PlanChunks, total["src"] # 0, NEW k \in Present("src")
  PROVE  \E c \in Planned : Selects("src", c, k)
<1>1. CASE ~RangeMode
  <2>1. chunks = << WholeTable >>
    BY <1>1 DEF PlanChunks
  <2>2. DOMAIN chunks = {1} /\ chunks[1] = WholeTable
    BY <2>1
  <2>3. WholeTable \in Planned
    BY <2>2 DEF Planned
  <2>4. WholeTable.lo = <<>>
    BY DEF WholeTable
  <2> QED
    BY <2>3, <2>4 DEF Selects
<1>2. CASE RangeMode
  <2>1. PICK ks \in KeyOrders : chunks = ChunksOf(ks)
    BY <1>2 DEF PlanChunks
  <2>2. PICK n \in Nat : n = Cardinality(Present("src")) /\ DOMAIN ks = 1..n
    BY PresentCounted DEF KeyOrders, Sides
  <2>3. PICK i \in 1..n : ks[i] = k
    BY <2>2 DEF KeyOrders, Range
  <2> DEFINE low == ks[IF i = 1 THEN 1 ELSE i - 1]
             c == [id |-> i - 1, lo |-> <<low>>, hi |-> <<k>>, loIncl |-> i = 1]
  <2>4. c \in Planned
    BY <2>1, <2>2, <2>3 DEF ChunksOf, Planned
  <2>5. k \in Int
    BY CompareAssumption DEF Present, RowsIn
  <2>6. Where("src", k) \in Int
    BY <1>2, <2>5, SidesAgree
  <2>7. \/ i = 1 /\ low = k
        \/ i # 1 /\ By("src", low) < By("src", k)
    BY <2>2, <2>3 DEF KeyOrders
  <2>8. \/ i = 1 /\ low = k
        \/ i # 1 /\ Where("src", low) < Where("src", k)
    BY <1>2, <2>7, SidesAgree
  <2>9. c.lo[1] = low /\ c.hi[1] = k /\ (c.loIncl <=> i = 1)
    BY DEF c
  <2>10. Selects("src", c, k)
    <3> HIDE DEF c, low
    <3> QED
      BY <2>6, <2>8, <2>9 DEF Selects
  <2> QED
    BY <2>4, <2>10
<1> QED
  BY <1>1, <1>2

\* Equal rows in a chunk make equal digests.
LEMMA RowsDecide ==
  ASSUME NEW c, RowsOf("src", c) = RowsOf("dst", c)
  PROVE  Digest("src", c) = Digest("dst", c)
  BY SidesAgree DEF Digest

LEMMA DigestRows ==
  ASSUME NEW c, Digest("src", c) = Digest("dst", c)
  PROVE  RowsOf("src", c) = RowsOf("dst", c)
<1>1. \A d : Digest(d, c).rows = RowsOf(d, c)
  BY DEF Digest
<1> QED
  BY <1>1

LEMMA ReadTable ==
  ASSUME NEW d \in Sides, DataTypes
  PROVE  Read(d) \in Table
  BY DEF Read, DataTypes

\* Equal tables have equal rows in every chunk.
LEMMA SameTables ==
  ASSUME chunks \in PlanChunks, NEW c \in Planned, Read("src") = Read("dst")
  PROVE  RowsOf("src", c) = RowsOf("dst", c)
<1>1. \A k : Selects("src", c, k) <=> Selects("dst", c, k)
  BY PlanChunkIds, SidesAgree DEF Selects
<1> QED
  BY <1>1 DEF RowsOf, ChunkOf

\* The digests and the row counts tell whether the tables are equal.
LEMMA DigestsDecide ==
  ASSUME DataTypes, chunks \in PlanChunks,
         \A d \in Sides : total[d] = Cardinality(Present(d))
  PROVE  /\ (\A c \in Planned : Digest("src", c) = Digest("dst", c)) /\ total["src"] = total["dst"]
              <=> Read("src") = Read("dst")
<1> DEFINE same == \A c \in Planned : Digest("src", c) = Digest("dst", c)
<1>1. /\ Read("src") \in Table /\ Read("dst") \in Table
      /\ IsFiniteSet(Present("src")) /\ IsFiniteSet(Present("dst"))
      /\ total["src"] = Cardinality(Present("src")) /\ total["dst"] = Cardinality(Present("dst"))
  BY ReadTable, PresentCounted DEF Sides
<1>2. ASSUME Read("src") = Read("dst") PROVE same /\ total["src"] = total["dst"]
  <2>1. same
    BY <1>2, SameTables, RowsDecide
  <2>2. Present("src") = Present("dst")
    BY <1>2 DEF Present
  <2> QED
    BY <1>1, <2>1, <2>2
<1>3. ASSUME same, total["src"] = total["dst"] PROVE Read("src") = Read("dst")
  <2>1. ASSUME NEW k \in Present("src") PROVE Read("dst")[k] = Read("src")[k]
    <3>1. total["src"] # 0
      BY <1>1, <2>1, FS_EmptySet
    <3>2. PICK c \in Planned : Selects("src", c, k)
      BY <3>1, RowsPlanned
    <3>3. <<k, Read("src")[k]>> \in RowsOf("src", c)
      BY <3>2 DEF RowsOf, ChunkOf, Present
    <3>4. <<k, Read("src")[k]>> \in RowsOf("dst", c)
      BY <1>3, <3>3, DigestRows
    <3> QED
      BY <3>4 DEF RowsOf, ChunkOf
  <2>2. Present("src") \subseteq Present("dst")
    BY <2>1 DEF Present, RowsIn
  <2>3. Present("src") = Present("dst")
    BY <1>1, <1>3, <2>2, FS_Subset
  <2>4. \A k \in Keys : Read("src")[k] = Read("dst")[k]
    BY <2>1, <2>3 DEF Present, RowsIn
  <2> QED
    BY <1>1, <2>4 DEF Table
<1> QED
  BY <1>2, <1>3

-----------------------------------------------------------------------------
(***************************************************************************)
(* The tables stand still: nobody writes, or both are read in snapshots.   *)
(***************************************************************************)

Still == moves = 0 \/ setting.snapshot

\* From the first count on, and for good once there is a verdict.
Reading == phase \in {"srcCount", "dstCount", "plan", "scan", "drill"} \/ Decided

\* A verdict ends the questions and the scan.
VerdictPhase == verdict.status = "none" <=> phase \in Questions \cup {"scan", "panicked"}

SnapshotsTaken ==
  /\ moves = 0 => \A d \in Sides : seen[d] \in {NoTable, table[d]}
  /\ setting.snapshot /\ (Reading \/ phase = "dstSnapshot") =>
       SnapshotIsolated /\ seen["src"] \in Table
  /\ setting.snapshot /\ Reading => seen["dst"] \in Table

StillInv == VerdictPhase /\ SnapshotsTaken

LEMMA NoTableIsNone == NoTable \notin Table
<1>1. PICK k \in Keys : TRUE
  BY CompareAssumption
<1>2. \A t \in Table : k \in DOMAIN t
  BY DEF Table
<1>3. k \notin DOMAIN NoTable
  BY CompareAssumption DEF NoTable
<1> QED
  BY <1>2, <1>3

LEMMA ReadIs ==
  ASSUME SnapshotsTaken, Reading, Still, NEW d \in Sides
  PROVE  /\ setting.snapshot => Read(d) = seen[d]
         /\ moves = 0 => Read(d) = table[d]
<1>1. setting.snapshot => Read(d) = seen[d]
  BY NoTableIsNone DEF SnapshotsTaken, SnapshotIsolated, Read, Sides
<1>2. moves = 0 => Read(d) = table[d]
  BY DEF SnapshotsTaken, Read
<1> QED
  BY <1>1, <1>2

\* What is read of a table makes its rows and digests.
LEMMA SameRead ==
  ASSUME setting' = setting, NEW d, Read(d)' = Read(d)
  PROVE  /\ Present(d)' = Present(d)
         /\ \A c : RowsOf(d, c)' = RowsOf(d, c) /\ Digest(d, c)' = Digest(d, c)
<1>2. Present(d)' = Present(d)
  BY DEF Present
<1>3. ASSUME NEW c PROVE RowsOf(d, c)' = RowsOf(d, c)
  BY DEF RowsOf, ChunkOf, Selects, Where
<1>4. ASSUME NEW c PROVE Digest(d, c)' = Digest(d, c)
  <2>1. \A x, k : By(x, k)' = By(x, k)
    BY DEF By
  <2>2. RangeMode' <=> RangeMode
    BY DEF RangeMode
  <2>3. RowsOf(d, c)' = RowsOf(d, c)
    BY <1>3
  <2> QED
    BY <2>1, <2>2, <2>3 DEF Digest
<1> QED
  BY <1>2, <1>3, <1>4

LEMMA StillInit == Init => StillInv
  BY DEF Init, StillInv, VerdictPhase, Questions, SnapshotsTaken, Reading, Decided

\* The steps that neither write to a table nor begin a transaction.
LEMMA StillKept ==
  ASSUME StillInv, UNCHANGED <<setting, table, seen, moves>>, VerdictPhase', Reading' => Reading,
         phase' = "dstSnapshot" => phase = "dstSnapshot"
  PROVE  StillInv'
<1>1. SnapshotIsolated' <=> SnapshotIsolated
  BY DEF SnapshotIsolated
<1> QED
  BY <1>1 DEF StillInv, SnapshotsTaken

LEMMA SameMain == StillInv /\ UNCHANGED <<mainVars, dataVars, seen>> => StillInv'
<1> SUFFICES ASSUME StillInv, UNCHANGED <<mainVars, dataVars, seen>> PROVE StillInv'
  OBVIOUS
<1>1. UNCHANGED <<setting, table, seen, moves, phase, verdict>>
  BY DEF mainVars, dataVars
<1>2. VerdictPhase' /\ (Reading' <=> Reading)
  BY <1>1 DEF StillInv, VerdictPhase, Reading, Decided
<1> QED
  BY <1>1, <1>2, StillKept

LEMMA BeginStill == ASSUME DataTypes, StillInv, BeginSnapshot PROVE StillInv'
<1>1. /\ phase \in {"srcSnapshot", "dstSnapshot"} /\ UNCHANGED <<setting, table, moves>>
      /\ verdict.status = "none"
  BY DEF BeginSnapshot, dataVars, StillInv, VerdictPhase, Questions
<1>2. CASE ~SnapshotIsolated
  <2>1. UNCHANGED seen /\ verdict'.status = "ERROR" /\ phase' = "closing"
    BY <1>2 DEF BeginSnapshot, Error
  <2>2. VerdictPhase' /\ ~Reading'
    BY <2>1 DEF VerdictPhase, Reading, Decided, Questions
  <2> QED
    BY <1>1, <2>1, <2>2, StillKept
<1>3. CASE SnapshotIsolated
  <2>1. PICK d \in Sides : d = SideOf(phase) /\ seen' = [seen EXCEPT ![d] = table[d]]
    BY <1>1, <1>3 DEF BeginSnapshot, SideOf, Sides
  <2>2. seen'[d] = table[d] /\ table[d] \in Table /\ \A e \in Sides \ {d} : seen'[e] = seen[e]
    BY <2>1 DEF DataTypes
  <2>3. /\ UNCHANGED verdict
        /\ phase = "srcSnapshot" => phase' = "dstSnapshot" /\ d = "src"
        /\ phase = "dstSnapshot" => phase' = "srcCount" /\ d = "dst"
    BY <1>1, <1>3, <2>1 DEF BeginSnapshot, SideOf
  <2>4. VerdictPhase'
    BY <1>1, <2>3 DEF VerdictPhase, Questions
  <2>5. SnapshotIsolated'
    BY <1>1, <1>3 DEF SnapshotIsolated
  <2>6. moves' = 0 => \A e \in Sides : seen'[e] \in {NoTable, table'[e]}
    BY <1>1, <2>2 DEF StillInv, SnapshotsTaken
  <2>7. phase' \in {"dstSnapshot", "srcCount"} /\ ~Decided'
    BY <1>1, <2>3 DEF Decided
  <2>8. setting.snapshot /\ (Reading' \/ phase' = "dstSnapshot") => seen'["src"] \in Table
    BY <1>1, <2>2, <2>3 DEF StillInv, SnapshotsTaken, Sides
  <2>9. setting.snapshot /\ Reading' => seen'["dst"] \in Table
    BY <1>1, <2>2, <2>3, <2>7 DEF Reading
  <2>10. SnapshotsTaken'
    BY <1>1, <2>5, <2>6, <2>8, <2>9 DEF SnapshotsTaken
  <2> QED
    BY <2>4, <2>10 DEF StillInv
<1> QED
  BY <1>2, <1>3

LEMMA StillNext == ReturnInv /\ BlameInv /\ DataTypes /\ StillInv /\ [Next]_vars => StillInv'
<1> SUFFICES ASSUME ReturnInv, BlameInv, DataTypes, StillInv, [Next]_vars PROVE StillInv'
  OBVIOUS
<1>0. SnapshotCourse /\ VerdictTypes /\ VerdictPhase
  BY DEF ReturnInv, BlameInv, StillInv
<1>1. ASSUME NEW h \in Handles, SessionStep(h) PROVE StillInv'
  BY <1>1, SameMain DEF SessionStep
<1>2. ASSUME NEW h \in Workers, WorkerStep(h) PROVE StillInv'
  <2>1. UNCHANGED <<setting, table, seen, moves, verdict>> /\ phase = "scan"
        /\ phase' \in {"scan", "panicked"}
    BY <1>2 DEF WorkerStep, TakeJob, ScanChunk, Rescan, FailWorker, CancelWorker,
                ReplacementFails, FinishWorker, mainVars, dataVars
  <2>2. VerdictPhase' /\ Reading
    BY <1>0, <2>1 DEF VerdictPhase, Reading
  <2> QED
    BY <2>1, <2>2, StillKept
<1>3. CASE StartQuestion \/ StartDrill \/ KillSession
  BY <1>3, SameMain DEF StartQuestion, StartDrill, KillSession
<1>4. CASE FailQuestion \/ FailDrill
  <2>1. UNCHANGED <<setting, table, seen, moves>> /\ verdict'.status = "ERROR" /\ phase' = "closing"
    BY <1>4 DEF FailQuestion, FailDrill, Error, dataVars
  <2>2. VerdictPhase' /\ ~Reading'
    BY <2>1 DEF VerdictPhase, Reading, Decided, Questions
  <2> QED
    BY <2>1, <2>2, StillKept
<1>5. CASE ReadSchema
  <2>1. /\ UNCHANGED <<setting, table, seen, moves, verdict>> /\ phase \in {"srcSchema", "dstSchema"}
        /\ phase' \in {"dstSchema", "srcSnapshot", "srcCount"}
        /\ phase' = "srcCount" => ~setting.snapshot
    BY <1>5 DEF ReadSchema, dataVars
  <2>2. VerdictPhase'
    BY <1>0, <2>1 DEF VerdictPhase, Questions
  <2>3. ~Decided'
    BY <1>0, <2>1 DEF VerdictPhase, Decided, Questions
  <2>4. SnapshotsTaken'
    BY <2>1, <2>3 DEF StillInv, SnapshotsTaken, Reading
  <2> QED
    BY <2>2, <2>4 DEF StillInv
<1>6. CASE BeginSnapshot
  BY <1>6, BeginStill
<1>7. CASE CountSource \/ CountDestination
  <2>1. /\ UNCHANGED <<setting, table, seen, moves>> /\ phase \in {"srcCount", "dstCount"}
        /\ \/ UNCHANGED verdict /\ phase' \in {"dstCount", "plan", "scan"}
           \/ verdict' = [verdict EXCEPT !.status = "DIFFERENT"] /\ phase' = "closing"
    BY <1>7 DEF CountSource, CountDestination, dataVars
  <2>2. VerdictPhase'
    BY <1>0, <2>1 DEF VerdictPhase, VerdictTypes, Questions
  <2> QED
    BY <2>1, <2>2, StillKept DEF Reading
<1>8. CASE Plan \/ DrillChunk
  <2>1. /\ UNCHANGED <<setting, table, seen, moves, verdict>>
        /\ \/ phase = "plan" /\ phase' = "scan"
           \/ phase = "drill" /\ phase' \in {"drill", "closing"}
    BY <1>8 DEF Plan, DrillChunk, dataVars
  <2>2. VerdictPhase'
    BY <1>0, <2>1 DEF VerdictPhase, Questions
  <2> QED
    BY <2>1, <2>2, StillKept DEF Reading
<1>9. CASE Fold
  <2>1. /\ UNCHANGED <<setting, table, seen, moves>> /\ phase = "scan"
        /\ phase' \in {"drill", "closing"}
    BY <1>9 DEF Fold, dataVars
  <2>2. verdict'.status \in {"OK", "DIFFERENT", "ERROR"}
    <3>1. \E x \in {"OK", "DIFFERENT", "ERROR"} :
            \E y, z : verdict' = [status |-> x, blamed |-> y, diff |-> z]
      BY <1>9, Zenon DEF Fold, Error
    <3> QED
      BY <3>1
  <2>3. VerdictPhase'
    BY <2>1, <2>2 DEF VerdictPhase, Questions
  <2> QED
    BY <2>1, <2>3, StillKept DEF Reading
<1>10. CASE CloseDeferred
  <2>1. UNCHANGED <<setting, table, seen, moves, verdict>> /\ phase = "closing" /\ phase' = "done"
    BY <1>10 DEF CloseDeferred, dataVars
  <2>2. VerdictPhase' /\ (Reading' => Reading)
    BY <1>0, <2>1 DEF VerdictPhase, Reading, Decided, Questions
  <2> QED
    BY <2>1, <2>2, StillKept
<1>11. CASE Move
  <2>1. UNCHANGED <<setting, seen, phase, verdict>> /\ moves' # 0
    BY <1>11 DEF Move, DataTypes, mainVars
  <2>2. VerdictPhase' /\ (Reading' <=> Reading) /\ (SnapshotIsolated' <=> SnapshotIsolated)
    BY <1>0, <2>1 DEF VerdictPhase, Reading, Decided, SnapshotIsolated
  <2> QED
    BY <2>1, <2>2 DEF StillInv, SnapshotsTaken
<1>12. CASE UNCHANGED vars
  BY <1>12, SameMain DEF vars
<1> QED
  BY <1>1, <1>2, <1>3, <1>4, <1>5, <1>6, <1>7, <1>8, <1>9, <1>10, <1>11, <1>12
  DEF Next, Step, MainStep

\* While the tables stand still, what is read of them stays the same.
LEMMA ReadKept ==
  ASSUME DataTypes, StillInv, [Next]_vars, Still', Reading, NEW d \in Sides
  PROVE  Still /\ setting' = setting /\ Read(d)' = Read(d)
<1>1. setting' = setting
  BY DEF Next, Step, MainStep, SessionStep, WorkerStep, TakeJob, ScanChunk, Rescan, FailWorker,
     CancelWorker, ReplacementFails, FinishWorker, StartQuestion, FailQuestion, ReadSchema,
     BeginSnapshot, CountSource, CountDestination, Plan, Fold, StartDrill, DrillChunk, FailDrill,
     CloseDeferred, Move, KillSession, vars, dataVars
<1>2. CASE Move
  <2>1. moves' # 0 /\ seen' = seen
    BY <1>2 DEF Move, DataTypes
  <2>2. setting.snapshot
    BY <1>1, <2>1 DEF Still
  <2>3. seen[d] \in Table /\ SnapshotIsolated
    BY <2>2 DEF StillInv, SnapshotsTaken, Sides
  <2>4. Read(d) = seen[d] /\ Read(d)' = seen[d]
    BY <1>1, <2>1, <2>3, NoTableIsNone DEF SnapshotIsolated, Read
  <2> QED
    BY <1>1, <2>2, <2>4 DEF Still
<1>3. CASE ~Move
  <2>1. ~BeginSnapshot
    BY DEF BeginSnapshot, StillInv, VerdictPhase, Reading, Decided, Questions
  <2>2. UNCHANGED <<table, seen, moves>>
    BY <1>3, <2>1 DEF Next, Step, MainStep, SessionStep, WorkerStep, TakeJob, ScanChunk, Rescan,
       FailWorker, CancelWorker, ReplacementFails, FinishWorker, StartQuestion, FailQuestion,
       ReadSchema, CountSource, CountDestination, Plan, Fold, StartDrill, DrillChunk, FailDrill,
       CloseDeferred, KillSession, vars, dataVars
  <2> QED
    BY <1>1, <2>2 DEF Still, Read
<1> QED
  BY <1>2, <1>3

LEMMA PlanKept ==
  ASSUME setting' = setting, Read("src")' = Read("src"), total'["src"] = total["src"]
  PROVE  PlanChunks' = PlanChunks
<1>1. Present("src")' = Present("src") /\ (RangeMode' <=> RangeMode)
  BY SameRead DEF RangeMode
<1>2. \A k : By("src", k)' = By("src", k)
  BY DEF By
<1>3. KeyOrders' = KeyOrders
  BY <1>1, <1>2 DEF KeyOrders
<1> QED
  BY <1>1, <1>3 DEF PlanChunks

-----------------------------------------------------------------------------
(***************************************************************************)
(* The scan: no chunk is lost between the channel, the workers and the     *)
(* digests.                                                                *)
(***************************************************************************)

MapTypes ==
  /\ jobs = [d \in Sides |-> jobs[d]] /\ digests = [d \in Sides |-> digests[d]]
  /\ drilled = [d \in Sides |-> drilled[d]]

Scanning(h) == worker[h].state \in {"scanning", "rescanning"}

\* Nothing is planned before the plan, nothing drilled before the verdict.
Unstarted ==
  /\ phase \in Questions =>
       /\ chunks = <<>>
       /\ \A d \in Sides : jobs[d] = <<>> /\ DOMAIN digests[d] = {} /\ ~Busy(d)
  /\ phase \in Questions \cup {"scan"} =>
       todo = {} /\ verdict.diff = {} /\ \A d \in Sides : DOMAIN drilled[d] = {}

\* A chunk waits, is scanned or has its digest.
HasPlace(d, c) ==
  \/ c.id \in DOMAIN digests[d]
  \/ \E i \in DOMAIN jobs[d] : jobs[d][i] = c
  \/ \E h \in Workers : h[1] = d /\ Scanning(h) /\ worker[h].chunk = c

\* No chunk of the plan is lost, unless the side has failed; somebody is
\* there to take the chunks that wait.
Scheduled(d) ==
  /\ jobs[d] \in Seq(Planned)
  /\ \A h \in Workers : h[1] = d /\ Scanning(h) => worker[h].chunk \in Planned
  /\ \A id \in DOMAIN digests[d] : \E c \in Planned : c.id = id
  /\ sideErr[d] = "none" => (jobs[d] # <<>> => Busy(d)) /\ \A c \in Planned : HasPlace(d, c)

ScanInv == MapTypes /\ Unstarted /\ (phase = "scan" => \A d \in Sides : Scheduled(d))

LEMMA ScanInit == Init => ScanInv
  BY DEF Init, ScanInv, MapTypes, Unstarted, Questions, Nothing, Workers, Sides, Busy

\* A side that no step touches, or whose step only loses workers of a failed
\* side, keeps its schedule.
LEMMA SideKept ==
  ASSUME NEW e \in Sides, Scheduled(e), chunks' = chunks, jobs'[e] = jobs[e],
         digests'[e] = digests[e], sideErr'[e] = sideErr[e],
         \A g \in Workers : g[1] = e => worker'[g] = worker[g]
  PROVE  Scheduled(e)'
<1>1. Planned' = Planned
  BY DEF Planned
<1>2. \A g \in Workers : g[1] = e => (Scanning(g)' <=> Scanning(g))
  BY DEF Scanning
<1>3. Busy(e)' <=> Busy(e)
  BY DEF Busy
<1>4. \A c : HasPlace(e, c)' <=> HasPlace(e, c)
  BY <1>2 DEF HasPlace
<1> QED
  BY <1>1, <1>2, <1>3, <1>4 DEF Scheduled

LEMMA SideFailed ==
  ASSUME NEW e \in Sides, Scheduled(e), chunks' = chunks, jobs'[e] = jobs[e],
         digests'[e] = digests[e], sideErr'[e] # "none",
         \A g \in Workers : worker'[g] = worker[g] \/ worker'[g].state = "idle"
  PROVE  Scheduled(e)'
<1>1. Planned' = Planned
  BY DEF Planned
<1>2. \A g \in Workers : Scanning(g)' => Scanning(g) /\ worker'[g].chunk = worker[g].chunk
  BY DEF Scanning
<1> QED
  BY <1>1, <1>2 DEF Scheduled

\* The steps of one worker on its side.
LEMMA TakeSchedules ==
  ASSUME MapTypes, WorkerRecords, NEW h \in Workers, NEW d \in Sides, d = h[1], TakeJob(h),
         Scheduled(d)
  PROVE  Scheduled(d)'
<1> DEFINE j == Head(jobs[d])
<1>1. /\ worker[h].state = "ready" /\ jobs[d] # <<>> /\ jobs'[d] = Tail(jobs[d])
      /\ worker'[h].state = "scanning" /\ worker'[h].chunk = j
      /\ \A g \in Workers \ {h} : worker'[g] = worker[g]
      /\ UNCHANGED <<chunks, digests, sideErr>>
  BY DEF TakeJob, MapTypes, WorkerRecords, mainVars
<1>2. Planned' = Planned
  BY <1>1 DEF Planned
<1>3. /\ jobs[d] \in Seq(Planned) /\ j = jobs[d][1] /\ j \in Planned
      /\ jobs'[d] \in Seq(Planned)
      /\ \A i \in DOMAIN jobs[d] : i = 1 \/ (i - 1 \in DOMAIN jobs'[d] /\ jobs'[d][i - 1] = jobs[d][i])
  BY <1>1 DEF Scheduled
<1> HIDE DEF j
<1>4. Scanning(h)' /\ ~Scanning(h) /\ \A g \in Workers \ {h} : Scanning(g)' <=> Scanning(g)
  BY <1>1 DEF Scanning
<1>5. Busy(d)'
  BY <1>1 DEF Busy
<1>6. ASSUME NEW c, HasPlace(d, c) PROVE HasPlace(d, c)'
  <2>1. CASE c.id \in DOMAIN digests[d]
    BY <1>1, <2>1 DEF HasPlace
  <2>2. ASSUME NEW i \in DOMAIN jobs[d], jobs[d][i] = c PROVE HasPlace(d, c)'
    <3>1. CASE i = 1
      BY <1>1, <1>3, <1>4, <2>2, <3>1 DEF HasPlace
    <3>2. CASE i - 1 \in DOMAIN jobs'[d] /\ jobs'[d][i - 1] = jobs[d][i]
      BY <2>2, <3>2 DEF HasPlace
    <3> QED
      BY <1>3, <3>1, <3>2
  <2>3. ASSUME NEW g \in Workers, g[1] = d, Scanning(g), worker[g].chunk = c PROVE HasPlace(d, c)'
    BY <1>1, <1>4, <2>3 DEF HasPlace
  <2> QED
    BY <1>6, <2>1, <2>2, <2>3 DEF HasPlace
<1>7. \A g \in Workers : g[1] = d /\ Scanning(g)' => worker'[g].chunk \in Planned
  BY <1>1, <1>3, <1>4 DEF Scheduled
<1> QED
  BY <1>1, <1>2, <1>3, <1>5, <1>6, <1>7 DEF Scheduled

LEMMA ScanSchedules ==
  ASSUME MapTypes, WorkerRecords, NEW h \in Workers, NEW d \in Sides, d = h[1], ScanChunk(h),
         Scheduled(d)
  PROVE  Scheduled(d)'
<1> DEFINE j == worker[h].chunk
<1>1. PICK x \in {"idle", "ready"} :
        worker' = [worker EXCEPT ![h].state = x] /\ (jobs[d] # <<>> => x = "ready")
  BY DEF ScanChunk
<1>2. worker'[h].state = x /\ \A g \in Workers \ {h} : worker'[g] = worker[g]
  BY <1>1, WorkerStateSet
<1>3. /\ UNCHANGED <<chunks, jobs, sideErr>> /\ Scanning(h)
      /\ digests' = [digests EXCEPT ![d] = Put(@, j.id, Digest(d, j))]
  BY DEF ScanChunk, Scanning, mainVars
<1>4. DOMAIN digests'[d] = DOMAIN digests[d] \cup {j.id}
  <2>1. digests'[d] = Put(digests[d], j.id, Digest(d, j))
    BY <1>3 DEF MapTypes
  <2> HIDE DEF j
  <2> QED
    BY <2>1 DEF Put
<1>5. j \in Planned
  BY <1>3 DEF Scheduled
<1> HIDE DEF j
<1>6. Planned' = Planned
  BY <1>3 DEF Planned
<1>7. ~Scanning(h)' /\ \A g \in Workers \ {h} : Scanning(g)' <=> Scanning(g)
  BY <1>2 DEF Scanning
<1>8. jobs[d] # <<>> => Busy(d)'
  BY <1>1, <1>2 DEF Busy
<1>9. ASSUME NEW c, HasPlace(d, c) PROVE HasPlace(d, c)'
  <2>1. CASE \E g \in Workers : g[1] = d /\ Scanning(g) /\ worker[g].chunk = c
    BY <1>2, <1>4, <1>7, <2>1 DEF HasPlace, j
  <2>2. CASE c.id \in DOMAIN digests[d] \/ \E i \in DOMAIN jobs[d] : jobs[d][i] = c
    BY <1>3, <1>4, <2>2 DEF HasPlace
  <2> QED
    BY <1>9, <2>1, <2>2 DEF HasPlace
<1>10. \A g \in Workers : g[1] = d /\ Scanning(g)' => worker'[g].chunk \in Planned
  BY <1>2, <1>7 DEF Scheduled
<1>11. \A id \in DOMAIN digests'[d] : \E c \in Planned : c.id = id
  BY <1>4, <1>5 DEF Scheduled
<1> QED
  BY <1>3, <1>6, <1>8, <1>9, <1>10, <1>11 DEF Scheduled
LEMMA GoesOnSchedules ==
  ASSUME SideErrors, WorkerRecords, NEW h \in Workers, NEW d \in Sides, d = h[1], Scheduled(d),
         Rescan(h) \/ FinishWorker(h)
  PROVE  Scheduled(d)'
<1>1. PICK x \in {"rescanning", "idle"} :
        /\ worker' = [worker EXCEPT ![h].state = x]
        /\ x = "rescanning" => worker[h].state = "scanning"
        /\ x = "idle" => worker[h].state = "ready" /\ jobs[d] = <<>>
  BY DEF Rescan, FinishWorker, Return
<1>2. /\ worker'[h].state = x /\ worker'[h].chunk = worker[h].chunk
      /\ \A g \in Workers \ {h} : worker'[g] = worker[g]
  BY <1>1, WorkerStateSet DEF WorkerRecords
<1>3. UNCHANGED <<chunks, jobs, digests>> /\ (sideErr'[d] = "none" => sideErr[d] = "none")
  <2>1. CASE Rescan(h)
    BY <2>1 DEF Rescan, mainVars
  <2>2. CASE FinishWorker(h)
    <3>1. sideErr'[d] = sideErr[d]
      BY <2>2, Returned DEF FinishWorker
    <3> QED
      BY <2>2, <3>1 DEF FinishWorker, Return, mainVars
  <2> QED
    BY <2>1, <2>2
<1>4. Planned' = Planned
  BY <1>3 DEF Planned
<1>5. \A g \in Workers : (Scanning(g)' <=> Scanning(g)) /\ worker'[g].chunk = worker[g].chunk
  BY <1>1, <1>2 DEF Scanning
<1>6. jobs[d] # <<>> /\ Busy(d) => Busy(d)'
  BY <1>1, <1>2 DEF Busy
<1>7. \A c : HasPlace(d, c)' <=> HasPlace(d, c)
  BY <1>3, <1>5 DEF HasPlace
<1> QED
  BY <1>3, <1>4, <1>5, <1>6, <1>7 DEF Scheduled

LEMMA FailSchedules ==
  ASSUME SideErrors, WorkerRecords, NEW h \in Workers, NEW d \in Sides, d = h[1], Scheduled(d),
         FailWorker(h) \/ CancelWorker(h)
  PROVE  Scheduled(d)'
<1>1. PICK err \in {"failed", "canceled"} : Return(h, err)
  BY DEF FailWorker, CancelWorker
<1>2. UNCHANGED <<chunks, jobs, digests>>
  BY <1>1 DEF FailWorker, CancelWorker, Return, mainVars
<1>3. worker'[h].state = "idle" /\ \A g \in Workers \ {h} : worker'[g] = worker[g]
  BY <1>1, WorkerStateSet DEF Return
<1>4. sideErr'[d] # "none"
  BY <1>1 DEF Return, SideErrors
<1> QED
  BY <1>2, <1>3, <1>4, SideFailed

\* A step of a worker leaves the other side alone.
LEMMA OtherSide ==
  ASSUME MapTypes, SideErrors, WorkerRecords, NEW h \in Workers, WorkerStep(h), phase' = "scan",
         NEW e \in Sides, e # h[1]
  PROVE  /\ chunks' = chunks /\ jobs'[e] = jobs[e] /\ digests'[e] = digests[e]
         /\ sideErr'[e] = sideErr[e] /\ \A g \in Workers : g[1] = e => worker'[g] = worker[g]
<1> DEFINE d == h[1]
<1>1. d \in Sides /\ \A g \in Workers : g[1] = e => g # h
  BY DEF Workers
<1>2. CASE TakeJob(h)
  BY <1>1, <1>2 DEF TakeJob, MapTypes, WorkerRecords, mainVars
<1>3. CASE ScanChunk(h)
  <2>1. \E x : worker' = [worker EXCEPT ![h].state = x]
    BY <1>3 DEF ScanChunk
  <2>2. \E v : digests' = [digests EXCEPT ![d] = v]
    BY <1>3 DEF ScanChunk
  <2> QED
    BY <1>1, <1>3, <2>1, <2>2, WorkerStateSet DEF ScanChunk, MapTypes, mainVars
<1>4. CASE Rescan(h)
  BY <1>1, <1>4, WorkerStateSet DEF Rescan, mainVars
<1>5. CASE FailWorker(h) \/ CancelWorker(h) \/ FinishWorker(h)
  <2>1. PICK err \in {"none", "failed", "canceled"} : Return(h, err) /\ UNCHANGED mainVars
    BY <1>5 DEF FailWorker, CancelWorker, FinishWorker
  <2>2. sideErr'[e] = sideErr[e]
    BY <2>1, Returned
  <2> QED
    BY <1>1, <2>1, <2>2, WorkerStateSet DEF Return, mainVars
<1> QED
  BY <1>2, <1>3, <1>4, <1>5 DEF WorkerStep, ReplacementFails

LEMMA WorkerSchedules ==
  ASSUME ReturnInv, SideErrors, ScanInv, NEW h \in Workers, WorkerStep(h) PROVE ScanInv'
<1> DEFINE d == h[1]
<1>1. d \in Sides /\ MapTypes /\ Unstarted /\ WorkerRecords /\ phase = "scan"
  BY DEF Workers, ScanInv, ReturnInv, WorkerStep
<1>2. UNCHANGED <<todo, verdict, drilled>> /\ phase' \in {"scan", "panicked"}
  BY <1>1 DEF WorkerStep, TakeJob, ScanChunk, Rescan, FailWorker, CancelWorker,
         ReplacementFails, FinishWorker, mainVars
<1>3. Unstarted'
  BY <1>1, <1>2 DEF Unstarted, Questions
<1>4. MapTypes'
  BY <1>1, <1>2 DEF WorkerStep, TakeJob, ScanChunk, Rescan, FailWorker, CancelWorker,
         ReplacementFails, FinishWorker, Return, mainVars, scanVars, MapTypes
<1>5. ASSUME phase' = "scan", NEW e \in Sides PROVE Scheduled(e)'
  <2>1. Scheduled(e)
    BY <1>1 DEF ScanInv
  <2>2. CASE e = d
    BY <1>1, <1>5, <2>1, <2>2, TakeSchedules, ScanSchedules, GoesOnSchedules, FailSchedules
    DEF WorkerStep, ReplacementFails
  <2>3. CASE e # d
    <3> HIDE DEF WorkerStep
    <3> QED
      BY <1>1, <1>5, <2>1, <2>3, OtherSide, SideKept
  <2> QED
    BY <2>2, <2>3
<1> QED
  BY <1>3, <1>4, <1>5 DEF ScanInv
\* The steps between the first question and the plan.
LEMMA QuestionSchedules ==
  ASSUME ScanInv, phase \in Questions, UNCHANGED <<chunks, todo, drilled, scanVars>>,
         phase' \in Questions \cup {"scan"} => verdict' = verdict
  PROVE  ScanInv'
<1>1. UNCHANGED <<jobs, worker, digests, sideErr>> /\ \A d \in Sides : Busy(d)' <=> Busy(d)
  BY DEF scanVars, Busy
<1>2. /\ chunks = <<>> /\ todo = {} /\ verdict.diff = {}
      /\ \A d \in Sides : jobs[d] = <<>> /\ DOMAIN digests[d] = {} /\ DOMAIN drilled[d] = {} /\ ~Busy(d)
  BY DEF ScanInv, Unstarted
<1>3. MapTypes' /\ Unstarted'
  BY <1>1, <1>2 DEF ScanInv, MapTypes, Unstarted
<1>4. ASSUME NEW d \in Sides PROVE Scheduled(d)'
  <2>1. Planned' = {}
    BY <1>2 DEF Planned
  <2>2. jobs'[d] \in Seq(Planned')
    <3>1. \A S : <<>> \in Seq(S)
      OBVIOUS
    <3>2. jobs'[d] = <<>>
      BY <1>1, <1>2
    <3> QED
      BY <3>1, <3>2
  <2>3. \A h \in Workers : h[1] = d => ~Scanning(h)'
    BY <1>1, <1>2 DEF Scanning, Busy
  <2> QED
    BY <1>1, <1>2, <2>1, <2>2, <2>3 DEF Scheduled
<1> QED
  BY <1>3, <1>4 DEF ScanInv

\* Every planned chunk is in the channel of each side, and somebody takes it.
LEMMA PlanSchedules ==
  ASSUME DataTypes, ScanInv, WorkerRecords, Plan
  PROVE  ScanInv'
<1>1. PICK cs \in PlanChunks : chunks' = cs
  BY DEF Plan
<1> DEFINE n == Len(cs)
           started == {h \in Workers : h[2] <= Scanners(n)}
<1>2. /\ jobs' = [d \in Sides |-> cs]
      /\ worker' = [h \in Workers |->
            [worker[h] EXCEPT !.state = IF h \in started THEN "ready" ELSE "idle"]]
      /\ UNCHANGED <<todo, verdict, drilled, digests, sideErr>> /\ phase = "plan" /\ phase' = "scan"
  BY <1>1 DEF Plan
<1>3. cs \in Seq(Planned') /\ Planned' = {cs[p] : p \in DOMAIN cs}
  BY <1>1, PlanIds DEF Planned
<1>4. ASSUME NEW h \in Workers PROVE worker'[h].state = IF h \in started THEN "ready" ELSE "idle"
  <2> HIDE DEF started
  <2>1. worker[h] = [state |-> worker[h].state, chunk |-> worker[h].chunk]
    BY DEF WorkerRecords
  <2>2. worker'[h] = [[state |-> worker[h].state, chunk |-> worker[h].chunk] EXCEPT
                        !.state = IF h \in started THEN "ready" ELSE "idle"]
    BY <1>2, <2>1, Zenon
  <2> QED
    BY <2>2
<1>5. cs # <<>> => \A d \in Sides : <<d, 1>> \in started
  <2>1. n \in Nat /\ (cs # <<>> => n > 0)
    BY <1>3
  <2>2. setting.parallel \in Nat /\ setting.parallel >= 1
    BY CompareAssumption, PoolAssumption DEF DataTypes
  <2>3. cs # <<>> => Scanners(n) >= 1
    <3> HIDE DEF n
    <3> QED
      BY <2>1, <2>2 DEF Scanners, Least
  <2>4. \A d \in Sides : <<d, 1>> \in Workers
    BY PoolAssumption DEF Workers
  <2> QED
    BY <2>3, <2>4
<1> HIDE DEF started, n
<1>6. \A h \in Workers : ~Scanning(h)'
  BY <1>4 DEF Scanning
<1>7. \A d \in Sides : DOMAIN digests[d] = {} /\ DOMAIN drilled[d] = {}
  BY <1>2 DEF ScanInv, Unstarted, Questions
<1>8. MapTypes' /\ Unstarted'
  BY <1>2, <1>7 DEF ScanInv, MapTypes, Unstarted, Questions
<1>9. ASSUME NEW d \in Sides PROVE Scheduled(d)'
  <2>1. jobs'[d] = cs /\ digests'[d] = digests[d]
    BY <1>2
  <2>2. cs # <<>> => Busy(d)'
    <3>1. cs # <<>> => <<d, 1>> \in started /\ <<d, 1>> \in Workers
      BY <1>5 DEF started
    <3>2. cs # <<>> => worker'[<<d, 1>>].state = "ready"
      BY <1>4, <3>1
    <3> QED
      BY <3>1, <3>2 DEF Busy
  <2>3. \A c \in Planned' : \E i \in DOMAIN cs : cs[i] = c
    BY <1>3
  <2>4. \A c \in Planned' : HasPlace(d, c)'
    BY <2>1, <2>3 DEF HasPlace
  <2> QED
    BY <1>3, <1>6, <1>7, <2>1, <2>2, <2>4 DEF Scheduled
<1> QED
  BY <1>8, <1>9 DEF ScanInv

LEMMA ScanNext ==
  ReturnInv /\ SideErrors /\ DataTypes /\ ScanInv /\ [Next]_vars => ScanInv'
<1> SUFFICES ASSUME ReturnInv, SideErrors, DataTypes, ScanInv, [Next]_vars PROVE ScanInv'
  OBVIOUS
<1>1. ASSUME UNCHANGED <<mainVars, scanVars>> PROVE ScanInv'
  <2>1. UNCHANGED <<phase, chunks, verdict, todo, drilled, jobs, worker, digests, sideErr>>
    BY <1>1 DEF mainVars, scanVars
  <2>2. MapTypes' /\ Unstarted'
    BY <2>1 DEF ScanInv, MapTypes, Unstarted, Busy
  <2> QED
    BY <2>1, <2>2, SideKept DEF ScanInv
<1>2. ASSUME NEW h \in Handles, SessionStep(h) PROVE ScanInv'
  BY <1>1, <1>2 DEF SessionStep
<1>3. ASSUME NEW h \in Workers, WorkerStep(h) PROVE ScanInv'
  BY <1>3, WorkerSchedules
<1>4. CASE StartQuestion \/ StartDrill \/ KillSession \/ Move \/ UNCHANGED vars
  BY <1>1, <1>4 DEF StartQuestion, StartDrill, KillSession, Move, vars
<1>5. CASE FailQuestion \/ ReadSchema \/ BeginSnapshot \/ CountSource \/ CountDestination
  <2>1. /\ phase \in Questions /\ UNCHANGED <<chunks, todo, drilled, scanVars>>
        /\ verdict' = verdict \/ phase' = "closing"
    BY <1>5 DEF FailQuestion, ReadSchema, BeginSnapshot, CountSource, CountDestination, Questions
  <2> QED
    BY <2>1, QuestionSchedules DEF Questions
<1>6. CASE Plan
  BY <1>6, PlanSchedules DEF ReturnInv
<1>7. CASE Fold \/ DrillChunk \/ FailDrill \/ CloseDeferred
  <2>1. UNCHANGED <<jobs, digests>> /\ phase' \in {"closing", "drill", "done"}
    BY <1>7 DEF Fold, DrillChunk, FailDrill, CloseDeferred, scanVars
  <2>2. drilled' = drilled \/ \E v : drilled' = [drilled EXCEPT ![DrillSide] = v]
    BY <1>7 DEF Fold, DrillChunk, FailDrill, CloseDeferred
  <2>3. MapTypes'
    BY <2>1, <2>2 DEF ScanInv, MapTypes
  <2> QED
    BY <2>1, <2>3 DEF ScanInv, Unstarted, Questions
<1> QED
  BY <1>2, <1>3, <1>4, <1>5, <1>6, <1>7 DEF Next, Step, MainStep

-----------------------------------------------------------------------------
(***************************************************************************)
(* The counts, the plan, the digests and the verdict are about what is     *)
(* read of the tables.                                                     *)
(***************************************************************************)

Counted ==
  /\ phase # "srcCount" => total["src"] = Cardinality(Present("src"))
  /\ phase \notin {"srcCount", "dstCount"} => total["dst"] = Cardinality(Present("dst"))

PlanRead == phase \in {"scan", "drill"} => chunks \in PlanChunks

DigestsRead ==
  phase = "scan" =>
    \A d \in Sides : \A c \in Planned : c.id \in DOMAIN digests[d] => digests[d][c.id] = Digest(d, c)

VerdictRead ==
  /\ verdict.status = "OK" <=> Read("src") = Read("dst")
  /\ \A id \in verdict.diff : \E c \in Planned : c.id = id /\ RowsOf("src", c) # RowsOf("dst", c)

\* The whole chunk was kept, unless its rows were too many.
Whole(d, c) == drilled[d][c.id].truncated \/ drilled[d][c.id].rows = RowsOf(d, c)

DrillRead ==
  /\ todo \subseteq verdict.diff
  /\ \A d \in Sides : \A c \in Planned : c.id \in DOMAIN drilled[d] => Whole(d, c)
  /\ DOMAIN drilled["dst"] \subseteq DOMAIN drilled["src"]
  /\ Enough(drilled) => todo = {}
  /\ setting.drill =>
       \A id \in verdict.diff : id \in todo \/ Enough(drilled) \/ \A d \in Sides : id \in DOMAIN drilled[d]
  /\ phase \in {"closing", "done"} => todo = {}

DataParts == Counted /\ PlanRead /\ DigestsRead /\ (Decided => VerdictRead /\ DrillRead)

DataInv == Still /\ Reading => DataParts
LEMMA DataInit == Init => DataInv
  BY DEF Init, DataInv, Reading, Decided

LEMMA SameId ==
  ASSUME chunks \in PlanChunks, NEW b \in Planned, NEW c \in Planned, b.id = c.id
  PROVE  b = c
<1>1. PICK p \in DOMAIN chunks, q \in DOMAIN chunks : b = chunks[p] /\ c = chunks[q]
  BY DEF Planned
<1>2. p \in Int /\ q \in Int /\ b.id = p - 1 /\ c.id = q - 1
  BY <1>1, PlanChunkIds
<1> QED
  BY <1>1, <1>2

\* What is read of the tables stays the same in a step.
Unmoved == setting' = setting /\ \A d \in Sides : Read(d)' = Read(d)

LEMMA UnmovedParts ==
  ASSUME Unmoved
  PROVE  \A d \in Sides : /\ Present(d)' = Present(d)
                          /\ \A c : RowsOf(d, c)' = RowsOf(d, c) /\ Digest(d, c)' = Digest(d, c)
  BY SameRead DEF Unmoved

LEMMA UnmovedPlan ==
  ASSUME Unmoved, total'["src"] = total["src"]
  PROVE  PlanChunks' = PlanChunks
  BY PlanKept DEF Unmoved, Sides

LEMMA SameVerdict ==
  ASSUME Unmoved, VerdictRead, UNCHANGED <<chunks, verdict>>
  PROVE  VerdictRead'
<1>1. Planned' = Planned
  BY DEF Planned
<1>2. \A d \in Sides : Read(d)' = Read(d) /\ \A c : RowsOf(d, c)' = RowsOf(d, c)
  BY UnmovedParts DEF Unmoved
<1> QED
  BY <1>1, <1>2 DEF VerdictRead, Sides

LEMMA EnoughThen ==
  ASSUME setting' = setting
  PROVE  Enough(drilled)' <=> Enough(drilled')
  BY DEF Enough, Examples, Kept, Identity, BothKeyed, By

LEMMA NothingEnough ==
  ASSUME setting \in Settings, DOMAIN drilled["dst"] = {}
  PROVE  ~Enough(drilled)
<1>1. UNION {{id} \X Examples(drilled, id) : id \in DOMAIN drilled["dst"]} = {}
  OBVIOUS
<1>2. setting.limit \in Nat \ {0}
  BY CompareAssumption
<1> QED
  BY <1>1, <1>2, FS_EmptySet DEF Enough

LEMMA SameDrills ==
  ASSUME Unmoved, DrillRead, UNCHANGED <<chunks, verdict, todo, drilled>>,
         phase' = "done" => phase \in {"closing", "done"}, phase' = "closing" => phase = "closing"
  PROVE  DrillRead'
<1>1. Planned' = Planned /\ setting' = setting
  BY DEF Planned, Unmoved
<1>2. \A d \in Sides : \A c : RowsOf(d, c)' = RowsOf(d, c)
  BY UnmovedParts
<1>3. Enough(drilled)' <=> Enough(drilled)
  BY <1>1, EnoughThen
<1>4. /\ todo' \subseteq verdict'.diff /\ (phase' \in {"closing", "done"} => todo' = {})
      /\ DOMAIN drilled'["dst"] \subseteq DOMAIN drilled'["src"] /\ (Enough(drilled)' => todo' = {})
  BY <1>3 DEF DrillRead
<1>5. setting'.drill =>
        \A id \in verdict'.diff :
          id \in todo' \/ Enough(drilled)' \/ \A d \in Sides : id \in DOMAIN drilled'[d]
  BY <1>1, <1>3 DEF DrillRead
<1>6. \A d \in Sides : \A c \in Planned' : c.id \in DOMAIN drilled'[d] => Whole(d, c)'
  BY <1>1, <1>2 DEF DrillRead, Whole
<1> QED
  BY <1>4, <1>5, <1>6 DEF DrillRead

LEMMA SameCounts ==
  ASSUME Unmoved, Counted, UNCHANGED total, phase' # "srcCount" => phase # "srcCount",
         phase' \notin {"srcCount", "dstCount"} => phase \notin {"srcCount", "dstCount"}
  PROVE  Counted'
  BY UnmovedParts DEF Counted, Sides

LEMMA SamePlan ==
  ASSUME Unmoved, PlanRead, UNCHANGED <<total, chunks>>,
         phase' \in {"scan", "drill"} => phase \in {"scan", "drill"}
  PROVE  PlanRead'
  BY UnmovedPlan DEF PlanRead

LEMMA SameDigests ==
  ASSUME Unmoved, DigestsRead, UNCHANGED <<chunks, digests>>, phase' = "scan" => phase = "scan"
  PROVE  DigestsRead'
<1>1. Planned' = Planned
  BY DEF Planned
<1> QED
  BY <1>1, UnmovedParts DEF DigestsRead

LEMMA SameData ==
  ASSUME Unmoved, DataParts, UNCHANGED <<phase, total, chunks, digests, verdict, todo, drilled>>
  PROVE  DataParts'
<1>1. Decided' <=> Decided
  BY DEF Decided
<1> QED
  BY <1>1, SameCounts, SamePlan, SameDigests, SameVerdict, SameDrills DEF DataParts
LEMMA CountSourceData ==
  ASSUME DataTypes, VerdictPhase, Unmoved, DataParts, CountSource
  PROVE  DataParts'
<1>1. /\ phase = "srcCount" /\ phase' = "dstCount" /\ verdict' = verdict
      /\ total' = [total EXCEPT !["src"] = Cardinality(Present("src"))]
  BY DEF CountSource
<1>2. ~Decided'
  BY <1>1 DEF VerdictPhase, Questions, Decided
<1>3. Counted'
  BY <1>1, UnmovedParts DEF Counted, DataTypes, Sides
<1> QED
  BY <1>1, <1>2, <1>3 DEF DataParts, PlanRead, DigestsRead

LEMMA CountDestinationData ==
  ASSUME DataTypes, VerdictPhase, VerdictTypes, ScanInv, Unmoved, DataParts, CountDestination
  PROVE  DataParts'
<1>1. /\ phase = "dstCount" /\ phase' \in {"closing", "scan", "plan"}
      /\ UNCHANGED <<chunks, todo, drilled, digests>>
      /\ total' = [total EXCEPT !["dst"] = Cardinality(Present("dst"))]
  BY DEF CountDestination, scanVars
<1>2. /\ total'["src"] = total["src"] /\ total["src"] = Cardinality(Present("src"))
      /\ total'["dst"] = Cardinality(Present("dst"))
  BY <1>1 DEF DataTypes, DataParts, Counted, Sides
<1>3. Counted'
  BY <1>1, <1>2, UnmovedParts DEF Counted, Sides
<1>4. /\ chunks = <<>> /\ Planned = {} /\ Planned' = {} /\ todo = {} /\ verdict.diff = {}
      /\ verdict.status = "none" /\ \A d \in Sides : DOMAIN drilled[d] = {}
  BY <1>1 DEF ScanInv, Unstarted, Questions, Planned, VerdictPhase
<1>5. DigestsRead'
  BY <1>4 DEF DigestsRead
<1>6. CASE total["src"] # total'["dst"] /\ ~setting.drill
  <2>1. verdict' = [verdict EXCEPT !.status = "DIFFERENT"] /\ phase' = "closing"
    BY <1>6 DEF CountDestination
  <2>2. verdict'.status = "DIFFERENT" /\ verdict'.diff = {}
    BY <1>4, <2>1 DEF VerdictTypes
  <2>3. Read("src") # Read("dst")
    BY <1>2, <1>6 DEF Present
  <2>4. Read("src")' # Read("dst")'
    BY <2>3 DEF Unmoved, Sides
  <2>5. VerdictRead'
    BY <2>2, <2>4 DEF VerdictRead
  <2>6. DrillRead'
    BY <1>1, <1>4, <2>2 DEF DrillRead, Sides
  <2> QED
    BY <1>3, <1>5, <2>1, <2>5, <2>6 DEF DataParts, PlanRead
<1>7. CASE ~(total["src"] # total'["dst"] /\ ~setting.drill)
  <2>1. /\ verdict' = verdict
        /\ phase' = IF total["src"] = 0 /\ total'["dst"] = 0 THEN "scan" ELSE "plan"
    BY <1>7 DEF CountDestination
  <2>2. ~Decided'
    BY <1>4, <2>1 DEF Decided
  <2>3. phase' = "scan" => chunks' \in PlanChunks'
    BY <1>1, <1>2, <1>4, <2>1 DEF PlanChunks
  <2>4. PlanRead'
    BY <2>1, <2>3 DEF PlanRead
  <2> QED
    BY <1>3, <1>5, <2>2, <2>4 DEF DataParts
<1> QED
  BY <1>6, <1>7

LEMMA PlanData ==
  ASSUME VerdictPhase, ScanInv, Unmoved, DataParts, Plan
  PROVE  DataParts'
<1>1. /\ phase = "plan" /\ phase' = "scan" /\ chunks' \in PlanChunks
      /\ UNCHANGED <<total, verdict, digests>>
  BY DEF Plan
<1>2. Counted'
  BY <1>1, SameCounts DEF DataParts
<1>3. PlanRead'
  BY <1>1, UnmovedPlan DEF PlanRead
<1>4. \A d \in Sides : DOMAIN digests'[d] = {}
  BY <1>1 DEF ScanInv, Unstarted, Questions
<1>5. DigestsRead'
  BY <1>4 DEF DigestsRead
<1>6. ~Decided'
  BY <1>1 DEF VerdictPhase, Questions, Decided
<1> QED
  BY <1>2, <1>3, <1>5, <1>6 DEF DataParts

LEMMA ScanChunkData ==
  ASSUME VerdictPhase, ScanInv, Unmoved, DataParts, phase = "scan", NEW h \in Workers, ScanChunk(h)
  PROVE  DataParts'
<1> DEFINE d == h[1]
           j == worker[h].chunk
<1>1. /\ UNCHANGED <<phase, total, chunks, verdict, todo, drilled>> /\ Scanning(h)
      /\ digests' = [digests EXCEPT ![d] = Put(@, j.id, Digest(d, j))]
  BY DEF ScanChunk, Scanning, mainVars
<1>2. d \in Sides /\ j \in Planned /\ MapTypes /\ chunks \in PlanChunks
  BY <1>1 DEF Workers, ScanInv, Scheduled, DataParts, PlanRead
<1> HIDE DEF d, j
<1>3. /\ digests'[d] = Put(digests[d], j.id, Digest(d, j))
      /\ \A e \in Sides \ {d} : digests'[e] = digests[e]
  BY <1>1, <1>2 DEF MapTypes
<1>4. Planned' = Planned
  BY <1>1 DEF Planned
<1>5. ASSUME NEW e \in Sides, NEW c \in Planned, c.id \in DOMAIN digests'[e]
      PROVE  digests'[e][c.id] = Digest(e, c)
  <2>1. c.id \in DOMAIN digests[e] => digests[e][c.id] = Digest(e, c)
    BY DEF DataParts, DigestsRead
  <2>2. CASE e # d
    BY <1>3, <1>5, <2>1, <2>2
  <2>3. CASE e = d
    <3>1. CASE c.id = j.id
      <4>1. c = j
        BY <1>2, <3>1, SameId
      <4> QED
        BY <1>3, <1>5, <2>3, <4>1 DEF Put
    <3>2. CASE c.id # j.id
      BY <1>3, <1>5, <2>1, <2>3, <3>2 DEF Put
    <3> QED
      BY <3>1, <3>2
  <2> QED
    BY <2>2, <2>3
<1>6. DigestsRead'
  BY <1>4, <1>5, UnmovedParts DEF DigestsRead
<1>7. ~Decided'
  BY <1>1 DEF VerdictPhase, Decided
<1> QED
  BY <1>1, <1>6, <1>7, SameCounts, SamePlan DEF DataParts
\* When no worker is left, the digests of a side that did not fail are those
\* of the whole plan.
LEMMA AllScanned ==
  ASSUME NEW d \in Sides, Scheduled(d), sideErr[d] = "none", ~Busy(d)
  PROVE  DOMAIN digests[d] = {c.id : c \in Planned}
<1>1. \A h \in Workers : h[1] = d => ~Scanning(h)
  BY DEF Busy, Scanning
<1>2. DOMAIN jobs[d] = {}
  BY DEF Scheduled
<1>3. \A c \in Planned : c.id \in DOMAIN digests[d]
  BY <1>1, <1>2 DEF Scheduled, HasPlace
<1> QED
  BY <1>3 DEF Scheduled

LEMMA FoldData ==
  ASSUME DataTypes, ScanInv, Unmoved, DataParts, Fold, Reading'
  PROVE  DataParts'
<1> DEFINE uneven == Cardinality(DOMAIN digests["src"]) # Cardinality(DOMAIN digests["dst"])
           diff   == IF uneven THEN {} ELSE DiffIds
           differ == uneven \/ diff # {} \/ total["src"] # total["dst"]
<1>1. /\ phase = "scan" /\ \A d \in Sides : ~Busy(d) /\ Scheduled(d)
      /\ phase' \in {"closing", "drill"} /\ UNCHANGED <<total, chunks, drilled>>
  BY DEF Fold, ScanInv
<1>2. \A d \in Sides : sideErr[d] = "none"
  <2> SUFFICES ASSUME \E d \in Sides : sideErr[d] # "none" PROVE FALSE
    OBVIOUS
  <2>1. verdict' = Error(ScanError) /\ phase' = "closing"
    BY DEF Fold
  <2> QED
    BY <2>1 DEF Reading, Decided, Error
<1>3. /\ verdict' = [status |-> IF differ THEN "DIFFERENT" ELSE "OK", blamed |-> Nobody, diff |-> diff]
      /\ todo' = IF setting.drill THEN diff ELSE {}
      /\ phase' = IF todo' = {} THEN "closing" ELSE "drill"
  BY <1>2, Zenon DEF Fold
<1>4. \A d \in Sides : DOMAIN digests[d] = {c.id : c \in Planned}
  BY <1>1, <1>2, AllScanned
<1>5. ~uneven /\ diff = DiffIds
  BY <1>4 DEF Sides
<1>6. chunks \in PlanChunks /\ \A d \in Sides : total[d] = Cardinality(Present(d))
  BY <1>1 DEF DataParts, PlanRead, Counted, Sides
<1>7. \A d \in Sides : \A c \in Planned : digests[d][c.id] = Digest(d, c)
  BY <1>1, <1>4 DEF DataParts, DigestsRead
<1>8. \A id \in DiffIds : \E c \in Planned : c.id = id /\ Digest("src", c) # Digest("dst", c)
  BY <1>4, <1>7 DEF DiffIds, Sides
<1>9. \A c \in Planned : Digest("src", c) # Digest("dst", c) => c.id \in DiffIds
  BY <1>4, <1>7 DEF DiffIds, Sides
<1>10. differ <=> Read("src") # Read("dst")
  <2>1. DiffIds = {} <=> \A c \in Planned : Digest("src", c) = Digest("dst", c)
    BY <1>8, <1>9
  <2> QED
    BY <1>5, <1>6, <2>1, DigestsDecide
<1>11. Planned' = Planned /\ \A d \in Sides : DOMAIN drilled[d] = {}
  BY <1>1 DEF Planned, ScanInv, Unstarted
<1> HIDE DEF uneven, diff, differ
<1>12. verdict'.diff = DiffIds /\ (verdict'.status = "OK" <=> ~differ)
  BY <1>3, <1>5
<1>13. VerdictRead'
  <2>1. verdict'.status = "OK" <=> Read("src")' = Read("dst")'
    BY <1>10, <1>12 DEF Unmoved, Sides
  <2>2. \A id \in verdict'.diff : \E c \in Planned : c.id = id /\ RowsOf("src", c) # RowsOf("dst", c)
    BY <1>8, <1>12, RowsDecide
  <2>3. \A id \in verdict'.diff : \E c \in Planned' : c.id = id /\ RowsOf("src", c)' # RowsOf("dst", c)'
    BY <1>11, <2>2, UnmovedParts DEF Sides
  <2> QED
    BY <2>1, <2>3 DEF VerdictRead
<1>14. DrillRead'
  <2>1. todo' \subseteq verdict'.diff /\ (setting.drill => todo' = verdict'.diff)
    BY <1>3, <1>5, <1>12
  <2>2. phase' \in {"closing", "done"} => todo' = {}
    BY <1>3
  <2>3. ~Enough(drilled)'
    <3>1. setting' = setting /\ drilled' = drilled /\ setting \in Settings /\ DOMAIN drilled["dst"] = {}
      BY <1>1, <1>11 DEF Unmoved, DataTypes, Sides
    <3> QED
      BY <3>1, EnoughThen, NothingEnough
  <2> QED
    BY <1>1, <1>11, <2>1, <2>2, <2>3 DEF DrillRead, Unmoved, Sides
<1>15. Counted' /\ PlanRead'
  BY <1>1, SameCounts, SamePlan DEF DataParts
<1>16. DigestsRead'
  BY <1>1 DEF DigestsRead
<1> QED
  BY <1>13, <1>14, <1>15, <1>16 DEF DataParts

Below == {p \in Nat \X Nat : p[1] < p[2]}

LEMMA LeastId ==
  ASSUME NEW T, T \subseteq Nat, T # {}
  PROVE  Min(T) \in T
<1>1. IsWellFoundedOn(Below, Nat)
  BY NatLessThanWellFounded, Zenon DEF OpToRel, Below
<1>2. \E x \in T : \A y \in T : ~(<<y, x>> \in Below)
  BY <1>1, WFMin
<1>3. \A x, y \in T : ~(<<y, x>> \in Below) => x <= y
  BY DEF Below
<1>4. \E x \in T : \A y \in T : x <= y
  BY <1>2, <1>3
<1> QED
  BY <1>4 DEF Min

LEMMA DrillChunkData ==
  ASSUME DataTypes, MapTypes, Course, Unmoved, DataParts, DrillChunk
  PROVE  DataParts'
<1> DEFINE id == DrillId
           d  == DrillSide
           c  == chunks[id + 1]
<1>1. PICK b \in Buffers(d, RowsOf(d, c)) :
         drilled' = [drilled EXCEPT ![d] = Put(@, id, [rows |-> b, truncated |-> b # RowsOf(d, c)])]
  BY DEF DrillChunk, DrillRows
<1> DEFINE kept == [rows |-> b, truncated |-> b # RowsOf(d, c)]
<1>2. /\ phase = "drill" /\ phase' \in {"closing", "drill"} /\ UNCHANGED <<total, chunks, verdict>>
      /\ todo' = CASE d = "src" -> todo
                   [] d = "dst" /\ Enough(drilled') -> {}
                   [] OTHER -> todo \ {id}
      /\ phase' = "closing" => todo' = {}
  BY DEF DrillChunk
<1>3. Counted' /\ PlanRead'
  BY <1>2, SameCounts, SamePlan DEF DataParts
<1>4. DigestsRead'
  BY <1>2 DEF DigestsRead
<1>5. ASSUME VerdictRead, DrillRead PROVE DrillRead'
  <2>1. \A i \in todo : \E e \in Planned : e.id = i
    BY <1>5 DEF VerdictRead, DrillRead
  <2>2. chunks \in PlanChunks
    BY <1>2 DEF DataParts, PlanRead
  <2>3. \A e \in Planned : e.id \in Nat
    BY <2>2, PlanChunkIds DEF Planned
  <2>4. id \in todo
    BY <1>2, <2>1, <2>3, LeastId DEF DrillId, Course
  <2>5. PICK e \in Planned : e.id = id
    BY <2>1, <2>4
  <2>6. e = c
    BY <2>2, <2>5, PlanChunkIds DEF Planned
  <2>7. d \in {"src", "dst"} /\ (d = "src" <=> id \notin DOMAIN drilled["src"])
    BY DEF DrillSide
  <2>8. ~Enough(drilled) /\ (Enough(drilled)' <=> Enough(drilled'))
    BY <1>5, <2>4, EnoughThen DEF DrillRead, Unmoved
  <2>9. kept.truncated \/ kept.rows = RowsOf(d, c)
    OBVIOUS
  <2> HIDE DEF id, d, c, kept
  <2>10. /\ drilled'[d] = Put(drilled[d], id, kept)
         /\ \A f \in Sides \ {d} : drilled'[f] = drilled[f]
    BY <1>1, <2>7 DEF MapTypes, kept, Sides
  <2>11. /\ \A f \in Sides : DOMAIN drilled[f] \subseteq DOMAIN drilled'[f]
         /\ DOMAIN drilled'[d] = DOMAIN drilled[d] \cup {id}
    BY <2>7, <2>10 DEF Put, Sides
  <2>12. ASSUME NEW f \in Sides, NEW a \in Planned, a.id \in DOMAIN drilled'[f]
         PROVE  drilled'[f][a.id].truncated \/ drilled'[f][a.id].rows = RowsOf(f, a)
    <3>1. a.id \in DOMAIN drilled[f] => drilled[f][a.id].truncated \/ drilled[f][a.id].rows = RowsOf(f, a)
      BY <1>5 DEF DrillRead, Whole
    <3>2. CASE f # d
      BY <2>10, <2>12, <3>1, <3>2
    <3>3. CASE f = d /\ a.id = id
      <4>1. a = c
        BY <2>2, <2>5, <2>6, <3>3, SameId
      <4>2. drilled'[f][a.id] = kept
        BY <2>10, <3>3 DEF Put
      <4> QED
        BY <2>9, <3>3, <4>1, <4>2
    <3>4. CASE f = d /\ a.id # id
      <4>1. a.id \in DOMAIN drilled[f] /\ drilled'[f][a.id] = drilled[f][a.id]
        BY <2>10, <2>11, <2>12, <3>4 DEF Put
      <4> QED
        BY <3>1, <4>1
    <3> QED
      BY <3>2, <3>3, <3>4
  <2>13. Planned' = Planned
    BY <1>2 DEF Planned
  <2>14. \A f \in Sides : \A a \in Planned' : a.id \in DOMAIN drilled'[f] => Whole(f, a)'
    BY <2>12, <2>13, UnmovedParts DEF Whole
  <2>15. todo' \subseteq verdict'.diff
    BY <1>2, <1>5, <2>7 DEF DrillRead
  <2>16. DOMAIN drilled'["dst"] \subseteq DOMAIN drilled'["src"]
    <3>1. DOMAIN drilled["dst"] \subseteq DOMAIN drilled["src"]
      BY <1>5 DEF DrillRead
    <3> QED
      BY <2>7, <2>10, <2>11, <3>1 DEF Sides
  <2>17. CASE d = "src"
    <3>1. todo' = todo /\ drilled'["dst"] = drilled["dst"]
      BY <1>2, <2>10, <2>17 DEF Sides
    <3>2. ~Enough(drilled')
      <4>1. drilled["dst"] = drilled'["dst"] /\ id \notin DOMAIN drilled["src"]
        BY <2>7, <2>17, <3>1
      <4>2. ASSUME NEW i \in DOMAIN drilled["dst"]
            PROVE  Examples(drilled', i) = Examples(drilled, i)
        <5>1. i \in DOMAIN drilled["src"] /\ i # id
          BY <1>5, <4>1, <4>2 DEF DrillRead
        <5>2. drilled'["src"][i] = drilled["src"][i]
          BY <2>10, <2>17, <5>1 DEF Put
        <5> QED
          BY <4>1, <5>2 DEF Examples
      <4>3. {{i} \X Examples(drilled', i) : i \in DOMAIN drilled'["dst"]}
              = {{i} \X Examples(drilled, i) : i \in DOMAIN drilled["dst"]}
        BY <4>1, <4>2
      <4> QED
        BY <2>8, <4>3 DEF Enough
    <3>3. ASSUME setting.drill, NEW i \in verdict.diff, i \notin todo', NEW f \in Sides
          PROVE  i \in DOMAIN drilled'[f]
      BY <1>5, <2>8, <2>11, <3>1, <3>3 DEF DrillRead
    <3> QED
      BY <1>2, <2>8, <2>14, <2>15, <2>16, <3>2, <3>3 DEF DrillRead, Unmoved
  <2>18. CASE d = "dst" /\ Enough(drilled')
    <3>1. todo' = {}
      BY <1>2, <2>18
    <3> QED
      BY <2>8, <2>14, <2>15, <2>16, <2>18, <3>1 DEF DrillRead
  <2>19. CASE d = "dst" /\ ~Enough(drilled')
    <3>1. todo' = todo \ {id}
      BY <1>2, <2>19
    <3>2. id \in DOMAIN drilled'["src"] /\ id \in DOMAIN drilled'["dst"]
      BY <2>7, <2>11, <2>19 DEF Sides
    <3>3. ASSUME setting.drill, NEW i \in verdict.diff, i \notin todo', NEW f \in Sides
          PROVE  i \in DOMAIN drilled'[f]
      <4>1. CASE i \in todo
        BY <3>1, <3>2, <3>3, <4>1 DEF Sides
      <4>2. CASE i \notin todo
        BY <1>5, <2>8, <2>11, <3>3, <4>2 DEF DrillRead
      <4> QED
        BY <4>1, <4>2
    <3> QED
      BY <1>2, <2>8, <2>14, <2>15, <2>16, <2>19, <3>3 DEF DrillRead, Unmoved
  <2> QED
    BY <2>7, <2>17, <2>18, <2>19
<1>6. Decided' <=> Decided
  BY <1>2 DEF Decided
<1> QED
  BY <1>2, <1>3, <1>4, <1>5, <1>6, SameVerdict DEF DataParts
LEMMA DataNext ==
  ReturnInv /\ BlameInv /\ DataTypes /\ StillInv /\ ScanInv /\ DataInv /\ [Next]_vars => DataInv'
<1> SUFFICES ASSUME ReturnInv, BlameInv, DataTypes, StillInv, ScanInv, DataInv, [Next]_vars,
                    Still', Reading'
             PROVE  DataParts'
  BY DEF DataInv
<1>0. VerdictTypes /\ Course /\ VerdictPhase /\ MapTypes
  BY DEF BlameInv, StillInv, ScanInv
<1>1. CASE ~Reading
  <2>1. ~Decided /\ phase \notin {"srcCount", "dstCount", "plan", "scan", "drill"}
    BY <1>1 DEF Reading
  <2>2. ASSUME phase' = "srcCount", verdict' = verdict PROVE DataParts'
    BY <2>1, <2>2 DEF DataParts, Counted, PlanRead, DigestsRead, Decided
  <2>3. CASE ReadSchema \/ BeginSnapshot
    <3>1. \/ verdict' = verdict /\ phase' \in {"srcCount", "dstSchema", "srcSnapshot", "dstSnapshot"}
          \/ verdict' = Error(SideOf(phase)) /\ phase' = "closing"
      BY <2>3 DEF ReadSchema, BeginSnapshot
    <3>2. verdict' # Error(SideOf(phase)) \/ ~Decided'
      BY DEF Error, Decided
    <3>3. verdict' = verdict => ~Decided'
      BY <2>1 DEF Decided
    <3> QED
      BY <2>2, <3>1, <3>2, <3>3 DEF Reading
  <2>4. CASE ~(ReadSchema \/ BeginSnapshot)
    <3>1. phase' \notin {"srcCount", "dstCount", "plan", "scan", "drill"} /\ ~Decided'
      <4>1. ASSUME UNCHANGED <<phase, verdict>>
            PROVE  phase' \notin {"srcCount", "dstCount", "plan", "scan", "drill"} /\ ~Decided'
        BY <2>1, <4>1 DEF Decided
      <4>2. CASE FailQuestion
        BY <4>2 DEF FailQuestion, Error, Decided
      <4>3. CASE CloseDeferred
        BY <2>1, <4>3 DEF CloseDeferred, Decided
      <4>4. CASE \E h \in Handles : SessionStep(h)
        BY <4>1, <4>4 DEF SessionStep, mainVars
      <4>5. CASE StartQuestion \/ KillSession \/ Move \/ UNCHANGED vars
        BY <4>1, <4>5 DEF StartQuestion, KillSession, Move, vars, mainVars
      <4> QED
        BY <2>1, <2>4, <4>2, <4>3, <4>4, <4>5
        DEF Next, Step, MainStep, WorkerStep, CountSource, CountDestination, Plan, Fold, StartDrill,
            DrillChunk, FailDrill
    <3> QED
      BY <3>1 DEF Reading
  <2> QED
    BY <2>3, <2>4
<1>2. CASE Reading
  <2>1. Unmoved /\ DataParts
    BY <1>2, ReadKept DEF Unmoved, DataInv, Sides
  <2>2. ASSUME UNCHANGED <<mainVars, digests>> PROVE DataParts'
    BY <2>1, <2>2, SameData DEF mainVars
  <2>3. ASSUME NEW h \in Handles, SessionStep(h) PROVE DataParts'
    BY <2>2, <2>3 DEF SessionStep, scanVars
  <2>4. CASE StartQuestion \/ StartDrill \/ KillSession \/ Move \/ UNCHANGED vars
    BY <2>2, <2>4 DEF StartQuestion, StartDrill, KillSession, Move, vars, scanVars
  <2>5. ASSUME NEW h \in Workers, WorkerStep(h) PROVE DataParts'
    <3>1. phase = "scan"
      BY <2>5 DEF WorkerStep
    <3>2. CASE ScanChunk(h)
      BY <1>0, <2>1, <3>1, <3>2, ScanChunkData
    <3>3. ~ReplacementFails(h)
      BY <1>0, <3>1 DEF ReplacementFails, Reading, VerdictPhase, Decided
    <3>4. CASE TakeJob(h) \/ Rescan(h) \/ FailWorker(h) \/ CancelWorker(h) \/ FinishWorker(h)
      BY <2>2, <3>4 DEF TakeJob, Rescan, FailWorker, CancelWorker, FinishWorker, Return
    <3> QED
      BY <2>5, <3>2, <3>3, <3>4 DEF WorkerStep
  <2>6. CASE FailQuestion \/ FailDrill
    BY <2>6 DEF FailQuestion, FailDrill, Error, Reading, Decided
  <2>7. ~ReadSchema /\ ~BeginSnapshot
    BY <1>0, <1>2 DEF ReadSchema, BeginSnapshot, Reading, VerdictPhase, Questions, Decided
  <2>8. CASE CountSource \/ CountDestination
    BY <1>0, <2>1, <2>8, CountSourceData, CountDestinationData
  <2>9. CASE Plan \/ Fold \/ DrillChunk
    BY <1>0, <2>1, <2>9, PlanData, FoldData, DrillChunkData
  <2>10. CASE CloseDeferred
    <3>1. /\ phase = "closing" /\ phase' = "done"
          /\ UNCHANGED <<total, chunks, digests, verdict, todo, drilled>>
      BY <2>10 DEF CloseDeferred, scanVars
    <3>2. Counted' /\ PlanRead' /\ DigestsRead' /\ (Decided' <=> Decided)
      BY <2>1, <3>1, SameCounts, SamePlan, SameDigests DEF DataParts, Decided
    <3> QED
      BY <2>1, <3>1, <3>2, SameVerdict, SameDrills DEF DataParts
  <2> QED
    BY <2>3, <2>4, <2>5, <2>6, <2>7, <2>8, <2>9, <2>10 DEF Next, Step, MainStep
<1> QED
  BY <1>1, <1>2

-----------------------------------------------------------------------------
(* The invariants together.                                                *)

VerdictInv == StillInv /\ ScanInv /\ DataInv

LEMMA VerdictAlways == Spec => []VerdictInv
<1>1. Init => VerdictInv
  BY StillInit, ScanInit, DataInit DEF VerdictInv
<1>2. ReturnInv /\ BlameInv /\ DataTypes /\ VerdictInv /\ [Next]_vars => VerdictInv'
  BY StillNext, ScanNext, DataNext DEF VerdictInv, BlameInv
<1> QED
  BY <1>1, <1>2, ReturnAlways, BlameAlways, DataTypesAlways, PTL DEF Spec

\* While nobody writes to the tables the verdict says whether they are equal:
\* VerdictIsTrue, the answer of Comparer.compareTable.
THEOREM VerdictCorrect == Spec => []VerdictIsTrue
<1>1. VerdictInv => VerdictIsTrue
  <2> SUFFICES ASSUME VerdictInv, moves = 0, Decided
               PROVE  verdict.status = "OK" <=> table["src"] = table["dst"]
    BY DEF VerdictIsTrue
  <2>1. Still /\ Reading /\ SnapshotsTaken
    BY DEF Still, Reading, VerdictInv, StillInv
  <2>2. \A d \in Sides : Read(d) = table[d]
    BY <2>1, ReadIs
  <2>3. VerdictRead
    BY <2>1 DEF VerdictInv, DataInv, DataParts
  <2> QED
    BY <2>2, <2>3 DEF VerdictRead, Sides
<1> QED
  BY <1>1, VerdictAlways, PTL

\* With --snapshot it says whether the tables were equal when the
\* transactions began, whoever writes to them meanwhile:
\* SnapshotVerdictIsTrue.
THEOREM SnapshotCorrect == Spec => []SnapshotVerdictIsTrue
<1>1. VerdictInv => SnapshotVerdictIsTrue
  <2> SUFFICES ASSUME VerdictInv, setting.snapshot, Decided
               PROVE  verdict.status = "OK" <=> seen["src"] = seen["dst"]
    BY DEF SnapshotVerdictIsTrue
  <2>1. Still /\ Reading /\ SnapshotsTaken
    BY DEF Still, Reading, VerdictInv, StillInv
  <2>2. \A d \in Sides : Read(d) = seen[d]
    BY <2>1, ReadIs
  <2>3. VerdictRead
    BY <2>1 DEF VerdictInv, DataInv, DataParts
  <2> QED
    BY <2>2, <2>3 DEF VerdictRead, Sides
<1> QED
  BY <1>1, VerdictAlways, PTL

\* Rows with an identity of their own are kept.
LEMMA KeptIs ==
  ASSUME NEW side, NEW rows, NEW r \in rows,
         \A p, q \in rows : p # q => Identity(p) # Identity(q)
  PROVE  r \in Kept(side, rows, Identity(r))
  BY DEF Kept

\* Two different sets of rows with identities of their own give an example.
LEMMA ExampleIs ==
  ASSUME NEW read, NEW id, read["src"][id].rows # read["dst"][id].rows,
         \A d \in Sides : \A r, q \in read[d][id].rows : r # q => Identity(r) # Identity(q)
  PROVE  Examples(read, id) # {}
<1> DEFINE src == read["src"][id].rows
           dst == read["dst"][id].rows
<1>1. /\ \A r, q \in src : r # q => Identity(r) # Identity(q)
      /\ \A r, q \in dst : r # q => Identity(r) # Identity(q)
  BY DEF Sides
<1>2. PICK r \in src \cup dst : ~(r \in src /\ r \in dst)
  OBVIOUS
<1> HIDE DEF src, dst
<1>3. Kept("src", src, Identity(r)) # Kept("dst", dst, Identity(r))
  <2>1. /\ r \in src => r \in Kept("src", src, Identity(r))
        /\ r \in dst => r \in Kept("dst", dst, Identity(r))
    BY <1>1, KeptIs
  <2>2. Kept("src", src, Identity(r)) \subseteq src /\ Kept("dst", dst, Identity(r)) \subseteq dst
    BY DEF Kept
  <2> QED
    BY <1>2, <2>1, <2>2
<1>4. Identity(r) \in {i \in {Identity(q) : q \in src \cup dst} : Kept("src", src, i) # Kept("dst", dst, i)}
  BY <1>3
<1> QED
  BY <1>4 DEF Examples, src, dst

\* A differing chunk is shown by example rows, or hidden behind keys that are
\* one to lookupKey, the cap on the rows or the limit of examples:
\* DrillShowsDifference, the answer of DrillDown.Diff.
THEOREM DrillCorrect == Spec => []DrillShowsDifference
<1>1. VerdictInv => DrillShowsDifference
  <2> SUFFICES ASSUME VerdictInv, Still, phase = "done", setting.drill, Decided,
                      NEW id \in verdict.diff, ~Collapsed(id)
               PROVE  Exemplified(id)
    BY DEF DrillShowsDifference, Drilled, Still
  <2>1. VerdictRead /\ DrillRead
    BY DEF Reading, VerdictInv, DataInv, DataParts
  <2>2. Enough(drilled) \/ \A d \in Sides : id \in DOMAIN drilled[d]
    BY <2>1 DEF DrillRead
  <2>3. CASE id \notin DOMAIN drilled["dst"]
    BY <2>2, <2>3 DEF Exemplified, Sides
  <2>4. CASE id \in DOMAIN drilled["dst"]
    <3>1. \A d \in Sides : id \in DOMAIN drilled[d]
      BY <2>1, <2>4 DEF DrillRead, Sides
    <3>2. PICK c \in Planned : c.id = id /\ RowsOf("src", c) # RowsOf("dst", c)
      BY <2>1 DEF VerdictRead
    <3> SUFFICES ASSUME \A d \in Sides : ~drilled[d][id].truncated PROVE Examples(drilled, id) # {}
      BY <2>4 DEF Exemplified
    <3>3. \A d \in Sides : drilled[d][id].rows = RowsOf(d, c)
      BY <2>1, <3>1, <3>2 DEF DrillRead, Whole
    <3>4. \A d \in Sides : \A r, q \in drilled[d][id].rows : r # q => Identity(r) # Identity(q)
      BY DEF Collapsed, Identity
    <3> QED
      BY <3>2, <3>3, <3>4, ExampleIs DEF Sides
  <2> QED
    BY <2>3, <2>4
<1> QED
  BY <1>1, VerdictAlways, PTL
=============================================================================
