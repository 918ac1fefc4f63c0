------------------------- MODULE IdempotencyProofs -------------------------
(***************************************************************************)
(* Proofs about Idempotency for any number of requests and bodies: its     *)
(* types and its three invariants.                                         *)
(*                                                                         *)
(* The argument follows a request to the handler.  Work that is done and   *)
(* stored cannot be missed by a lookup that works; work done between that  *)
(* lookup and the lock was stored meanwhile (crossed), or is still to be   *)
(* stored by a request that has lost its lock (overrun), or never will be  *)
(* (unsaved).  So a request without faults finds only faulty work done     *)
(* before it, and that is the inductive invariant.                         *)
(***************************************************************************)
EXTENDS Idempotency, TLAPS

\* Work is done from the handler on, and what is being stored was done.
WorkFollowsTheHandler ==
  /\ \A r \in ran : phase[r] \in {"saving", "unlocking", "done", "lost"}
  /\ \A r \in Request : phase[r] = "saving" => r \in ran

\* A request inside holds the lock, unless the lock ended early.
LocksAreHeld ==
  \A r \in Request : Inside(r) => lock = r \/ "overrun" \in faults[r]

\* While nothing is stored, work done is about to be stored or is unsaved.
WorkIsStored ==
  \A r \in ran : entry = NoRequest /\ phase[r] # "saving" => faults[r] # {}

\* A lookup misses work that is not stored yet, or there is a fault.
MissesHaveACause ==
  \A s \in Request, r \in ran :
    phase[s] = "missed" /\ phase[r] # "saving" => faults[r] # {} \/ faults[s] # {}

\* A handler runs after other work only for a fault.
RunsHaveACause ==
  \A s \in Request, r \in ran : phase[s] = "locked" => faults[r] # {} \/ faults[s] # {}

\* A success was the request's own, a replay somebody's with the same body.
AnswersAreBacked ==
  \A r \in Request :
    /\ answer[r] = "success" => r \in ran
    /\ answer[r] = "replay" => \E s \in ran : body[s] = body[r]

\* The inductive invariant.
IdemInv ==
  /\ TypeOK
  /\ WorkFollowsTheHandler
  /\ LocksAreHeld
  /\ WorkIsStored
  /\ MissesHaveACause
  /\ RunsHaveACause
  /\ AnswersAreBacked
  /\ RepeatedWorkHasACause

-----------------------------------------------------------------------------

\* The initial state.
LEMMA IdemInvInit == Init => IdemInv
<1> SUFFICES ASSUME Init PROVE IdemInv
  OBVIOUS
<1>1. TypeOK
  BY DEF Init, TypeOK, Phases, Answers
<1>2. WorkFollowsTheHandler /\ LocksAreHeld /\ WorkIsStored /\ AnswersAreBacked
  BY DEF Init, WorkFollowsTheHandler, LocksAreHeld, Inside, WorkIsStored, AnswersAreBacked
<1>3. MissesHaveACause /\ RunsHaveACause /\ RepeatedWorkHasACause
  BY DEF Init, MissesHaveACause, RunsHaveACause, RepeatedWorkHasACause
<1> QED BY <1>1, <1>2, <1>3 DEF IdemInv

-----------------------------------------------------------------------------
(* One lemma per step.                                                     *)

\* A lookup that finds nothing finds all work unsaved or about to be saved.
LEMMA LookKeeps == ASSUME IdemInv, NEW q \in Request, Look(q) PROVE IdemInv'
<1> USE RequestAssumption DEF IdemInv, Look, MovesTo, Answered
<1>1. TypeOK'
  BY DEF TypeOK, Phases, Answers
<1>2. WorkFollowsTheHandler' /\ LocksAreHeld'
  BY DEF TypeOK, WorkFollowsTheHandler, LocksAreHeld, Inside
<1>3. WorkIsStored'
  BY DEF TypeOK, WorkIsStored, WorkFollowsTheHandler
<1>4. MissesHaveACause'
  BY DEF TypeOK, MissesHaveACause, WorkIsStored, WorkFollowsTheHandler
<1>5. RunsHaveACause' /\ RepeatedWorkHasACause'
  BY DEF TypeOK, RunsHaveACause, RepeatedWorkHasACause
<1>6. AnswersAreBacked'
  <2>1. CASE entry = NoRequest
    BY <2>1 DEF TypeOK, AnswersAreBacked
  <2>2. CASE entry # NoRequest
    BY <2>2 DEF TypeOK, AnswersAreBacked, SameBody
  <2> QED BY <2>1, <2>2
<1> QED BY <1>1, <1>2, <1>3, <1>4, <1>5, <1>6

\* A lookup that fails has its fault.
LEMMA LookBlindlyKeeps == ASSUME IdemInv, NEW q \in Request, LookBlindly(q) PROVE IdemInv'
<1> USE RequestAssumption DEF IdemInv, LookBlindly, MovesTo
<1>0. /\ faults' \in [Request -> SUBSET Faults]
      /\ \A r \in Request : faults[r] \subseteq faults'[r]
      /\ \A r \in Request : faults[r] # {} => faults'[r] # {}
      /\ "blind" \in faults'[q]
  BY DEF TypeOK, Blame, Faults
<1>1. TypeOK'
  BY <1>0 DEF TypeOK, Phases
<1>2. WorkFollowsTheHandler' /\ LocksAreHeld'
  BY <1>0 DEF TypeOK, WorkFollowsTheHandler, LocksAreHeld, Inside
<1>3. WorkIsStored' /\ MissesHaveACause'
  BY <1>0 DEF TypeOK, WorkIsStored, MissesHaveACause, WorkFollowsTheHandler
<1>4. RunsHaveACause' /\ RepeatedWorkHasACause'
  BY <1>0 DEF TypeOK, RunsHaveACause, RepeatedWorkHasACause
<1>5. AnswersAreBacked'
  BY DEF TypeOK, AnswersAreBacked
<1> QED BY <1>1, <1>2, <1>3, <1>4, <1>5

\* Work about to be saved while the lock is free has lost its lock.
LEMMA AcquireKeeps == ASSUME IdemInv, NEW q \in Request, Acquire(q) PROVE IdemInv'
<1> USE RequestAssumption DEF IdemInv, Acquire, MovesTo, Answered, Free
<1>1. TypeOK'
  BY DEF TypeOK, Phases, Answers
<1>2. WorkFollowsTheHandler' /\ LocksAreHeld'
  BY DEF TypeOK, WorkFollowsTheHandler, LocksAreHeld, Inside
<1>3. WorkIsStored' /\ MissesHaveACause'
  BY DEF TypeOK, WorkIsStored, MissesHaveACause, WorkFollowsTheHandler
<1>4. RunsHaveACause'
  BY DEF TypeOK, RunsHaveACause, MissesHaveACause, LocksAreHeld, Inside
<1>5. RepeatedWorkHasACause' /\ AnswersAreBacked'
  BY DEF TypeOK, RepeatedWorkHasACause, AnswersAreBacked
<1> QED BY <1>1, <1>2, <1>3, <1>4, <1>5

\* A lock set for nobody is set over none.
LEMMA AcquireFailsKeeps == ASSUME IdemInv, NEW q \in Request, AcquireFails(q) PROVE IdemInv'
<1> USE RequestAssumption DEF IdemInv, AcquireFails, MovesTo, Answered, Free
<1>1. TypeOK'
  BY DEF TypeOK, Phases, Answers
<1>2. WorkFollowsTheHandler' /\ LocksAreHeld'
  BY DEF TypeOK, WorkFollowsTheHandler, LocksAreHeld, Inside
<1>3. WorkIsStored' /\ MissesHaveACause' /\ RunsHaveACause'
  BY DEF TypeOK, WorkIsStored, MissesHaveACause, RunsHaveACause, WorkFollowsTheHandler
<1>4. RepeatedWorkHasACause' /\ AnswersAreBacked'
  BY DEF TypeOK, RepeatedWorkHasACause, AnswersAreBacked
<1> QED BY <1>1, <1>2, <1>3, <1>4

\* Another request in the handler at once means an overrun.
LEMMA AloneUnlessOverrun == IdemInv => HandlersRunAlone
  BY DEF IdemInv, TypeOK, LocksAreHeld, Inside, HandlersRunAlone

\* A handler that does its work meets only work with faults.
LEMMA HandleKeeps == ASSUME IdemInv, NEW q \in Request, Handle(q) PROVE IdemInv'
<1> USE RequestAssumption DEF IdemInv, Handle, MovesTo, Answered, Storable
<1>1. TypeOK'
  BY DEF TypeOK, Phases, Answers
<1>2. WorkFollowsTheHandler' /\ LocksAreHeld'
  BY DEF TypeOK, WorkFollowsTheHandler, LocksAreHeld, Inside
<1>3. WorkIsStored' /\ MissesHaveACause'
  BY DEF TypeOK, WorkIsStored, MissesHaveACause, WorkFollowsTheHandler
<1>4. RunsHaveACause'
  BY AloneUnlessOverrun DEF TypeOK, RunsHaveACause, HandlersRunAlone
<1>5. RepeatedWorkHasACause'
  BY DEF TypeOK, RepeatedWorkHasACause, RunsHaveACause
<1>6. AnswersAreBacked'
  BY DEF TypeOK, AnswersAreBacked
<1> QED BY <1>1, <1>2, <1>3, <1>4, <1>5, <1>6

\* Who has missed what is stored now has crossed it.
LEMMA SaveKeeps == ASSUME IdemInv, NEW q \in Request, Save(q) PROVE IdemInv'
<1> USE RequestAssumption DEF IdemInv, Save, MovesTo
<1>0. /\ faults' \in [Request -> SUBSET Faults]
      /\ \A r \in Request : faults[r] \subseteq faults'[r]
      /\ \A r \in Request : faults[r] # {} => faults'[r] # {}
      /\ \A s \in Request : phase[s] = "missed" => "crossed" \in faults'[s]
  BY DEF TypeOK, Blame, Faults
<1>1. TypeOK'
  BY <1>0 DEF TypeOK, Phases, WorkFollowsTheHandler
<1>2. WorkFollowsTheHandler' /\ LocksAreHeld'
  BY <1>0 DEF TypeOK, WorkFollowsTheHandler, LocksAreHeld, Inside
<1>3. WorkIsStored'
  BY DEF TypeOK, WorkIsStored
<1>4. MissesHaveACause'
  BY <1>0 DEF TypeOK, MissesHaveACause
<1>5. RunsHaveACause'
  BY <1>0 DEF TypeOK, RunsHaveACause
<1>6. RepeatedWorkHasACause'
  BY <1>0 DEF TypeOK, RepeatedWorkHasACause
<1>7. AnswersAreBacked'
  BY DEF TypeOK, AnswersAreBacked
<1> QED BY <1>1, <1>2, <1>3, <1>4, <1>5, <1>6, <1>7

\* Work whose answer is not stored has its fault.
LEMMA SaveFailsKeeps == ASSUME IdemInv, NEW q \in Request, SaveFails(q) PROVE IdemInv'
<1> USE RequestAssumption DEF IdemInv, SaveFails, MovesTo
<1>0. /\ faults' \in [Request -> SUBSET Faults]
      /\ \A r \in Request : faults[r] \subseteq faults'[r]
      /\ \A r \in Request : faults[r] # {} => faults'[r] # {}
      /\ "unsaved" \in faults'[q]
  BY DEF TypeOK, Blame, Faults
<1>1. TypeOK'
  BY <1>0 DEF TypeOK, Phases
<1>2. WorkFollowsTheHandler' /\ LocksAreHeld'
  BY <1>0 DEF TypeOK, WorkFollowsTheHandler, LocksAreHeld, Inside
<1>3. WorkIsStored' /\ MissesHaveACause'
  BY <1>0 DEF TypeOK, WorkIsStored, MissesHaveACause
<1>4. RunsHaveACause' /\ RepeatedWorkHasACause'
  BY <1>0 DEF TypeOK, RunsHaveACause, RepeatedWorkHasACause
<1>5. AnswersAreBacked'
  BY DEF TypeOK, AnswersAreBacked
<1> QED BY <1>1, <1>2, <1>3, <1>4, <1>5

\* Whose lock is deleted by another is overrun.
LEMMA ReleaseKeeps == ASSUME IdemInv, NEW q \in Request, Release(q) PROVE IdemInv'
<1> USE RequestAssumption DEF IdemInv, Release, MovesTo
<1>0. /\ faults' \in [Request -> SUBSET Faults]
      /\ \A r \in Request : faults[r] \subseteq faults'[r]
      /\ \A r \in Request : faults[r] # {} => faults'[r] # {}
      /\ \A s \in Request : s = lock /\ s # q /\ Inside(s) => "overrun" \in faults'[s]
  BY DEF TypeOK, Blame, Faults
<1>1. TypeOK'
  BY <1>0 DEF TypeOK, Phases
<1>2. WorkFollowsTheHandler' /\ LocksAreHeld'
  BY <1>0 DEF TypeOK, WorkFollowsTheHandler, LocksAreHeld, Inside
<1>3. WorkIsStored' /\ MissesHaveACause'
  BY <1>0 DEF TypeOK, WorkIsStored, MissesHaveACause, WorkFollowsTheHandler
<1>4. RunsHaveACause' /\ RepeatedWorkHasACause'
  BY <1>0 DEF TypeOK, RunsHaveACause, RepeatedWorkHasACause
<1>5. AnswersAreBacked'
  BY DEF TypeOK, AnswersAreBacked
<1> QED BY <1>1, <1>2, <1>3, <1>4, <1>5

\* A lock that stays behind is nobody's.
LEMMA ReleaseFailsKeeps == ASSUME IdemInv, NEW q \in Request, ReleaseFails(q) PROVE IdemInv'
<1> USE RequestAssumption DEF IdemInv, ReleaseFails, MovesTo
<1>1. TypeOK' /\ WorkFollowsTheHandler' /\ LocksAreHeld'
  BY DEF TypeOK, Phases, WorkFollowsTheHandler, LocksAreHeld, Inside
<1>2. WorkIsStored' /\ MissesHaveACause' /\ RunsHaveACause'
  BY DEF TypeOK, WorkIsStored, MissesHaveACause, RunsHaveACause, WorkFollowsTheHandler
<1>3. RepeatedWorkHasACause' /\ AnswersAreBacked'
  BY DEF TypeOK, RepeatedWorkHasACause, AnswersAreBacked
<1> QED BY <1>1, <1>2, <1>3

\* A request inside whose lock expires is overrun.
LEMMA LockExpiresKeeps == ASSUME IdemInv, LockExpires PROVE IdemInv'
<1> USE RequestAssumption DEF IdemInv, LockExpires
<1>0. /\ faults' \in [Request -> SUBSET Faults]
      /\ \A r \in Request : faults[r] \subseteq faults'[r]
      /\ \A r \in Request : faults[r] # {} => faults'[r] # {}
      /\ \A s \in Request : s = lock /\ Inside(s) => "overrun" \in faults'[s]
  BY DEF TypeOK, Blame, Faults
<1>1. TypeOK' /\ WorkFollowsTheHandler' /\ LocksAreHeld'
  BY <1>0 DEF TypeOK, WorkFollowsTheHandler, LocksAreHeld, Inside
<1>2. WorkIsStored' /\ MissesHaveACause' /\ RunsHaveACause'
  BY <1>0 DEF TypeOK, WorkIsStored, MissesHaveACause, RunsHaveACause
<1>3. RepeatedWorkHasACause'
  BY <1>0 DEF TypeOK, RepeatedWorkHasACause
<1>4. AnswersAreBacked'
  BY DEF TypeOK, AnswersAreBacked
<1> QED BY <1>1, <1>2, <1>3, <1>4

\* Work whose stored answer is gone has its fault.
LEMMA EntryExpiresKeeps == ASSUME IdemInv, EntryExpires PROVE IdemInv'
<1> USE RequestAssumption DEF IdemInv, EntryExpires
<1>0. /\ faults' \in [Request -> SUBSET Faults]
      /\ \A r \in Request : faults[r] \subseteq faults'[r]
      /\ \A r \in Request : faults[r] # {} => faults'[r] # {}
      /\ \A s \in ran : phase[s] # "saving" => "unsaved" \in faults'[s]
  BY DEF TypeOK, Blame, Faults
<1>1. TypeOK' /\ WorkFollowsTheHandler' /\ LocksAreHeld'
  BY <1>0 DEF TypeOK, WorkFollowsTheHandler, LocksAreHeld, Inside
<1>2. WorkIsStored' /\ MissesHaveACause' /\ RunsHaveACause'
  BY <1>0 DEF TypeOK, WorkIsStored, MissesHaveACause, RunsHaveACause
<1>3. RepeatedWorkHasACause'
  BY <1>0 DEF TypeOK, RepeatedWorkHasACause
<1>4. AnswersAreBacked'
  BY DEF TypeOK, AnswersAreBacked
<1> QED BY <1>1, <1>2, <1>3, <1>4

\* Work about to be stored by a replica that stops is unsaved.
LEMMA StopKeeps == ASSUME IdemInv, NEW q \in Request, Stop(q) PROVE IdemInv'
<1> USE RequestAssumption DEF IdemInv, Stop, MovesTo
<1>0. /\ faults' \in [Request -> SUBSET Faults]
      /\ \A r \in Request : faults[r] \subseteq faults'[r]
      /\ \A r \in Request : faults[r] # {} => faults'[r] # {}
      /\ phase[q] = "saving" => "unsaved" \in faults'[q]
  BY DEF TypeOK, Blame, Faults
<1>1. TypeOK'
  BY <1>0 DEF TypeOK, Phases
<1>2. WorkFollowsTheHandler' /\ LocksAreHeld'
  BY <1>0 DEF TypeOK, WorkFollowsTheHandler, LocksAreHeld, Inside
<1>3. WorkIsStored' /\ MissesHaveACause'
  BY <1>0 DEF TypeOK, WorkIsStored, MissesHaveACause, WorkFollowsTheHandler, Inside
<1>4. RunsHaveACause' /\ RepeatedWorkHasACause'
  BY <1>0 DEF TypeOK, RunsHaveACause, RepeatedWorkHasACause
<1>5. AnswersAreBacked'
  BY DEF TypeOK, AnswersAreBacked
<1> QED BY <1>1, <1>2, <1>3, <1>4, <1>5

-----------------------------------------------------------------------------

\* Every step keeps the invariant.
LEMMA IdemInvNext == IdemInv /\ [Next]_vars => IdemInv'
<1> SUFFICES ASSUME IdemInv, [Next]_vars PROVE IdemInv'
  OBVIOUS
<1>1. CASE UNCHANGED vars
  BY <1>1 DEF vars, IdemInv, TypeOK, WorkFollowsTheHandler, LocksAreHeld, Inside, WorkIsStored,
              MissesHaveACause, RunsHaveACause, AnswersAreBacked, RepeatedWorkHasACause
<1>2. ASSUME NEW q \in Request, Step(q) PROVE IdemInv'
  BY <1>2, LookKeeps, LookBlindlyKeeps, AcquireKeeps, AcquireFailsKeeps, HandleKeeps, SaveKeeps,
     SaveFailsKeeps, ReleaseKeeps, ReleaseFailsKeeps DEF Step
<1>3. ASSUME NEW q \in Request, Stop(q) PROVE IdemInv'
  BY <1>3, StopKeeps
<1> QED BY <1>1, <1>2, <1>3, LockExpiresKeeps, EntryExpiresKeeps DEF Next

\* The inductive invariant holds throughout.
THEOREM IdempotencyInvariant == Spec => []IdemInv
  BY IdemInvInit, IdemInvNext, PTL DEF Spec

\* The state is well typed and only the answer of work that was done is stored.
THEOREM IdempotencyTypes == Spec => []TypeOK
<1>1. IdemInv => TypeOK
  BY DEF IdemInv
<1> QED BY <1>1, IdempotencyInvariant, PTL

\* The handler does the work of one key twice only for one of the four faults.
THEOREM RepeatsAreExplained == Spec => []RepeatedWorkHasACause
<1>1. IdemInv => RepeatedWorkHasACause
  BY DEF IdemInv
<1> QED BY <1>1, IdempotencyInvariant, PTL

\* Two requests under one key are in the handler at once only after an overrun.
THEOREM LockedOut == Spec => []HandlersRunAlone
  BY AloneUnlessOverrun, IdempotencyInvariant, PTL

\* A success that is answered or replayed is that of work done for the same body.
THEOREM RepliesAreTrue == Spec => []SuccessIsTrue
<1>1. IdemInv => SuccessIsTrue
  BY DEF IdemInv, AnswersAreBacked, SuccessIsTrue
<1> QED BY <1>1, IdempotencyInvariant, PTL
=============================================================================
