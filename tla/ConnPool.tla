------------------------------- MODULE ConnPool -------------------------------
(***************************************************************************)
(* internal/conn/conn.go: the sessions of the two endpoints.  Each side    *)
(* has a control pool of one connection and a scan pool of Parallel, and   *)
(* every connection is taken out through checkoutChecked, which applies    *)
(* the session policy (time zone, read-only, guardrails) before it hands   *)
(* the session out and replaces a dead one.                                *)
(*                                                                         *)
(* A slot is one physical connection of a pool, <<side, n>>: n = 0 is the  *)
(* control pool's only one.  A handle is a variable of the program that    *)
(* holds a session, named in the same way: <<side, 0>> the control session *)
(* of the moment, <<side, w>> the scan session of worker w.  The server    *)
(* can kill a connection at any time; the driver finds out at the next     *)
(* statement, and reports it in one or in two steps.                       *)
(***************************************************************************)
EXTENDS Integers, FiniteSets

CONSTANTS
  Parallel,     \* connections of a scan pool
  MaxFaults,    \* bound: kills, refusals, broken results
  Nobody        \* no handle

Sides   == {"src", "dst"}
Slots   == Sides \X (0..Parallel)
Handles == Slots

ASSUME PoolAssumption == Parallel \in Nat \ {0} /\ MaxFaults \in Nat /\ Nobody \notin Handles

VARIABLES
  link,     \* [Slots -> "none" | "live" | "killed" (the driver does not know)
            \* | "stale" (the driver has reported it once)
            \* | "absent" (beyond the size of the pool)]
  policy,   \* [Slots -> BOOLEAN]: applied since the connection was opened
  user,     \* [Slots -> Handles or Nobody]
  session,  \* [Handles -> [state, tries, retried]]
  faults,   \* [Sides -> [kill, refuse, torn]]: what went wrong on each side
  budget    \* bound: faults still to come

poolVars == <<link, policy, user, session, faults, budget>>

-----------------------------------------------------------------------------
Closed == [state |-> "closed", tries |-> 0, retried |-> FALSE]

\* Scan pools of n connections; every connection has been used before.
PoolInit(n) ==
  /\ link = [s \in Slots |-> IF s[2] <= n THEN "live" ELSE "absent"] /\ policy = [s \in Slots |-> TRUE]
  /\ user = [s \in Slots |-> Nobody]
  /\ session = [h \in Handles |-> Closed]
  /\ budget \in 0..MaxFaults
  /\ faults = [d \in Sides |-> [kill |-> 0, refuse |-> 0, torn |-> 0]]

PoolOf(h) == {s \in Slots : s[1] = h[1] /\ (s[2] = 0 <=> h[2] = 0)}
Held(h)   == CHOOSE s \in Slots : user[s] = h
State(h)  == session[h].state
Alive(h)  == \E s \in Slots : user[s] = h /\ link[s] = "live"

Count(side) == faults[side].kill + faults[side].refuse + faults[side].torn
Fault(side, kind) ==
  /\ budget > 0 /\ budget' = budget - 1
  /\ faults' = [faults EXCEPT ![side][kind] = @ + 1]

\* The server kills a connection, idle or in use.
Kill(s) ==
  /\ link[s] = "live" /\ Fault(s[1], "kill")
  /\ link' = [link EXCEPT ![s] = "killed"]
  /\ UNCHANGED <<policy, user, session>>

-----------------------------------------------------------------------------
\* The handle leaves its slot, if it still has one; the connection stays in
\* the pool.
Release(h) == user' = [s \in Slots |-> IF user[s] = h THEN Nobody ELSE user[s]]

\* The first statement on a killed connection fails with ErrInvalidConn,
\* which leaves the connection in the pool, or with ErrBadConn, on which
\* database/sql discards it; the statement after the first failure always
\* gets ErrBadConn.
AfterFailure(s) == IF link[s] = "killed" THEN {"stale", "none"} ELSE {"none"}

\* Mutant of FailAndClose: the dead session is not closed.
FailAndLeak(h) ==
  /\ \E l \in AfterFailure(Held(h)) : link' = [link EXCEPT ![Held(h)] = l]
  /\ UNCHANGED user

\* A statement on a dead connection, after which the handle is closed.
FailAndClose(h) ==
  /\ \E l \in AfterFailure(Held(h)) : link' = [link EXCEPT ![Held(h)] = l]
  /\ Release(h)

\* Connections in the same state are interchangeable: the first stands for
\* all of them.
Distinguishable(slots) ==
  {s \in slots : \A t \in slots : link[t] = link[s] /\ policy[t] = policy[s] => s[2] <= t[2]}

\* One attempt of checkoutChecked, its two steps.  pool.Conn prefers an idle
\* connection and opens one when there is room; it can fail.
Checkout(h) ==
  /\ State(h) = "checkout"
  /\ LET free == {s \in PoolOf(h) : user[s] = Nobody /\ link[s] # "absent"}
         idle == {s \in free : link[s] # "none"}
     IN  \/ \E s \in Distinguishable(IF idle # {} THEN idle ELSE free) :
              /\ user' = [user EXCEPT ![s] = h]
              /\ link' = [link EXCEPT ![s] = IF @ = "none" THEN "live" ELSE @]
              /\ policy' = [policy EXCEPT ![s] = @ /\ link[s] # "none"]
              /\ session' = [session EXCEPT ![h].state = "init"]
              /\ UNCHANGED <<faults, budget>>
         \/ /\ free # {} /\ idle = {} /\ Fault(h[1], "refuse")
            /\ session' = [session EXCEPT ![h].state = "failed"]
            /\ UNCHANGED <<link, policy, user>>

\* Mutants of AfterDead: two attempts; no bound.
AfterDeadForever(h) == [session[h] EXCEPT !.tries = @ + 1, !.state = "checkout"]
AfterDeadTwo(h) ==
  [session[h] EXCEPT !.tries = @ + 1, !.state = IF session[h].tries = 1 THEN "failed" ELSE "checkout"]

\* The dead session is replaced, three attempts in all.
AfterDead(h) ==
  [session[h] EXCEPT !.tries = @ + 1, !.state = IF session[h].tries = 2 THEN "failed" ELSE "checkout"]

\* The policy is applied: the session is handed out, refused or replaced.
InitSession(h) ==
  /\ State(h) = "init"
  /\ \/ /\ Alive(h)
        /\ policy' = [policy EXCEPT ![Held(h)] = TRUE]
        /\ session' = [session EXCEPT ![h].state = "open"]
        /\ UNCHANGED <<link, user, faults, budget>>
     \/ /\ Alive(h) /\ Fault(h[1], "refuse") /\ Release(h)
        /\ session' = [session EXCEPT ![h].state = "failed"]
        /\ UNCHANGED <<link, policy>>
     \/ /\ ~Alive(h) /\ FailAndClose(h)
        /\ session' = [session EXCEPT ![h] = AfterDead(h)]
        /\ UNCHANGED <<policy, faults, budget>>

\* AcquireScan, AcquireControl: a new checkout.
Acquire(h) ==
  /\ State(h) = "closed"
  /\ session' = [session EXCEPT ![h] = [Closed EXCEPT !.state = "checkout"]]
  /\ UNCHANGED <<link, policy, user, faults, budget>>

\* The session is closed: its connection goes back to the pool.
Close(h) ==
  /\ Release(h) /\ session' = [session EXCEPT ![h] = Closed]
  /\ UNCHANGED <<link, policy, faults, budget>>

\* Mutants of Swap: the replacement is checked out before the dead session
\* is closed; it is checked out without the policy.
SwapAcquireFirst(h) ==
  /\ session' = [session EXCEPT ![h] = [Closed EXCEPT !.state = "checkout", !.retried = TRUE]]
  /\ \E l \in AfterFailure(Held(h)) \ {"none"} : link' = [link EXCEPT ![Held(h)] = l]
  /\ UNCHANGED <<policy, user, faults, budget>>
SwapBare(h) ==
  /\ session' = [session EXCEPT ![h] = [Closed EXCEPT !.state = "open", !.retried = TRUE]]
  /\ link' = [link EXCEPT ![Held(h)] = "live"]
  /\ policy' = [policy EXCEPT ![Held(h)] = FALSE]
  /\ UNCHANGED <<user, faults, budget>>

\* ControlQueryer.swap: close, then acquire.
Swap(h) ==
  /\ FailAndClose(h)
  /\ session' = [session EXCEPT ![h] = [Closed EXCEPT !.state = "checkout", !.retried = TRUE]]
  /\ UNCHANGED <<policy, faults, budget>>

\* A query that fails for good, after which the caller closes the session:
\* it could not be replaced, or is dead (for a control session: again, after
\* its one replacement), or the result breaks off on the way, an error of
\* the rows that nobody retries.
QueryFails(h) ==
  \/ /\ State(h) = "failed"
     /\ session' = [session EXCEPT ![h] = Closed] /\ UNCHANGED <<link, policy, user, faults, budget>>
  \/ /\ State(h) = "open" /\ ~Alive(h) /\ (session[h].retried \/ h[2] # 0)
     /\ FailAndClose(h)
     /\ session' = [session EXCEPT ![h] = Closed] /\ UNCHANGED <<policy, faults, budget>>
  \/ /\ State(h) = "open" /\ Alive(h) /\ Fault(h[1], "torn")
     /\ link' = [link EXCEPT ![Held(h)] = "stale"]
     /\ Release(h) /\ session' = [session EXCEPT ![h] = Closed] /\ UNCHANGED policy

\* The steps of every session, whoever asked for it.
PoolStep(h) ==
  \/ Checkout(h)
  \/ InitSession(h)
  \/ State(h) = "open" /\ h[2] = 0 /\ ~Alive(h) /\ ~session[h].retried /\ Swap(h)

-----------------------------------------------------------------------------
PoolTypeOK ==
  /\ link \in [Slots -> {"none", "live", "killed", "stale", "absent"}]
  /\ policy \in [Slots -> BOOLEAN]
  /\ user \in [Slots -> Handles \cup {Nobody}]
  /\ session \in [Handles -> [state : {"closed", "checkout", "init", "open", "failed"},
                              tries : 0..3, retried : BOOLEAN]]
  /\ faults \in [Sides -> [kill : 0..MaxFaults, refuse : 0..MaxFaults, torn : 0..MaxFaults]]
  /\ budget \in 0..MaxFaults

\* No statement of the program reaches a server on a session that lacks the
\* policy: the connections that replace a killed one have it too.
NoUnguardedSession ==
  \A s \in Slots : user[s] # Nobody /\ State(user[s]) = "open" /\ link[s] = "live" => policy[s]

\* A physical connection serves one session at a time, and a session that is
\* not being acquired or used holds none: nothing leaks from the pools.
NothingLeaks ==
  /\ \A s, t \in Slots : user[s] = user[t] /\ user[s] # Nobody => s = t
  /\ \A s \in Slots : user[s] # Nobody => user[s] \in Handles /\ State(user[s]) \in {"init", "open"}
=============================================================================
