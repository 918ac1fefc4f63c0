---------------------------- MODULE Idempotency ----------------------------
(***************************************************************************)
(* The middleware that makes a POST safe to repeat: IdempotencyWithScope   *)
(* of platform/httpx.  A request names itself by its Idempotency-Key; the  *)
(* first one runs the handler under a Redis lock and stores the answer,    *)
(* later ones replay the answer.                                           *)
(*                                                                         *)
(* Every Redis key the middleware touches holds the scope and the key, so  *)
(* requests under different keys never meet: the module follows the        *)
(* requests under one key.  Redis is shared by all replicas of the API and *)
(* each access is a step of its own; an access may fail, entries and locks *)
(* expire, and a replica may stop between two accesses.  A body stands for *)
(* its SHA-256 digest.                                                     *)
(***************************************************************************)
EXTENDS Naturals, FiniteSets

CONSTANTS
  Request,     \* the requests sent under the key, retries included
  Body,        \* the bodies they carry
  NoRequest    \* nobody holds the lock, nothing is stored

ASSUME RequestAssumption == NoRequest \notin Request

VARIABLES
  phase,       \* how far the middleware is with each request
  body,        \* the body each request carries
  answer,      \* what each request was answered
  entry,       \* the request whose answer is stored under "idem:<scope>:<key>"
  lock,        \* the request that set "idem:<scope>:<key>:lock"
  ran,         \* history: the requests whose handler committed its work
  faults       \* history: what went wrong around each request

vars == <<phase, body, answer, entry, lock, ran, faults>>

Phases == {"new", "missed", "locked", "saving", "unlocking", "done", "lost"}

\* A request is answered by its own handler ("success" or "failure"), by the
\* stored answer ("replay"), with 422 ("mismatch"), 409 ("conflict") or 500.
Answers == {"none", "success", "failure", "replay", "mismatch", "conflict", "error"}

(***************************************************************************)
(* What may stand behind a second run of the handler.                      *)
(*   blind     the lookup failed and was taken for a miss                  *)
(*   crossed   the lookup missed before another request stored its answer  *)
(*   unsaved   the work was done and no answer of it is stored             *)
(*   overrun   the lock of the request ended before the request did        *)
(***************************************************************************)
Faults == {"blind", "crossed", "unsaved", "overrun"}

\* The types; only the answer of work that was done is ever stored.
TypeOK ==
  /\ phase \in [Request -> Phases]
  /\ body \in [Request -> Body]
  /\ answer \in [Request -> Answers]
  /\ entry \in ran \cup {NoRequest}
  /\ lock \in Request \cup {NoRequest}
  /\ ran \subseteq Request
  /\ faults \in [Request -> SUBSET Faults]

Init ==
  /\ phase = [r \in Request |-> "new"]
  /\ body \in [Request -> Body]
  /\ answer = [r \in Request |-> "none"]
  /\ entry = NoRequest
  /\ lock = NoRequest
  /\ ran = {}
  /\ faults = [r \in Request |-> {}]

Blame(R, f) == [r \in Request |-> IF r \in R THEN faults[r] \cup {f} ELSE faults[r]]

MovesTo(r, p) == phase' = [phase EXCEPT ![r] = p]

Answered(r, a) == answer' = [answer EXCEPT ![r] = a]

\* The handler of the request runs, or has run and the lock is still its own
\* to release.
Inside(r) == r \in Request /\ phase[r] \in {"locked", "saving", "unlocking"}

(***************************************************************************)
(* lookupCachedEntry.  The stored answer is replayed to the body it was    *)
(* given to and refused to any other.                                      *)
(***************************************************************************)
\* Mutant: the stored body is not compared.
SameBodyUnchecked(r) == TRUE

SameBody(r) == body[r] = body[entry]

\* Mutant: the answers are stored under a key nobody reads.
LookElsewhere(r) ==
  /\ phase[r] = "new"
  /\ MovesTo(r, "missed")
  /\ UNCHANGED <<body, answer, entry, lock, ran, faults>>

Look(r) ==
  /\ phase[r] = "new"
  /\ IF entry = NoRequest
     THEN MovesTo(r, "missed") /\ UNCHANGED answer
     ELSE /\ MovesTo(r, "done")
          /\ Answered(r, IF SameBody(r) THEN "replay" ELSE "mismatch")
  /\ UNCHANGED <<body, entry, lock, ran, faults>>

\* Any failure of the lookup counts as a miss.
LookBlindly(r) ==
  /\ phase[r] = "new"
  /\ MovesTo(r, "missed")
  /\ faults' = Blame({r}, "blind")
  /\ UNCHANGED <<body, answer, entry, lock, ran>>

(***************************************************************************)
(* SETNX of the lock.  The store is not read again under it.               *)
(***************************************************************************)
\* Mutant: the lock is never asked for.
FreeAlways == TRUE

Free == lock = NoRequest

Acquire(r) ==
  /\ phase[r] = "missed"
  /\ IF Free
     THEN MovesTo(r, "locked") /\ lock' = r /\ UNCHANGED answer
     ELSE MovesTo(r, "done") /\ Answered(r, "conflict") /\ UNCHANGED lock
  /\ UNCHANGED <<body, entry, ran, faults>>

\* The call fails, and Redis may have set the lock nevertheless.
AcquireFails(r) ==
  /\ phase[r] = "missed"
  /\ MovesTo(r, "done")
  /\ Answered(r, "error")
  /\ lock' \in {lock, IF Free THEN r ELSE lock}
  /\ UNCHANGED <<body, entry, ran, faults>>

(***************************************************************************)
(* next.ServeHTTP: the handler writes its answer to the client, and only a *)
(* success is to be stored.                                                *)
(***************************************************************************)
Storable(a) == a = "success"

Handle(r) ==
  /\ phase[r] = "locked"
  /\ \E a \in {"success", "failure"} :
       /\ Answered(r, a)
       /\ ran' = IF a = "success" THEN ran \cup {r} ELSE ran
       /\ MovesTo(r, IF Storable(a) THEN "saving" ELSE "unlocking")
  /\ UNCHANGED <<body, entry, lock, faults>>

(***************************************************************************)
(* SET of the entry, its failure ignored.  A request that has looked and   *)
(* missed by now will not look again.                                      *)
(***************************************************************************)
Save(r) ==
  /\ phase[r] = "saving"
  /\ MovesTo(r, "unlocking")
  /\ entry' = r
  /\ faults' = Blame({s \in Request : phase[s] = "missed"}, "crossed")
  /\ UNCHANGED <<body, answer, lock, ran>>

SaveFails(r) ==
  /\ phase[r] = "saving"
  /\ MovesTo(r, "unlocking")
  /\ faults' = Blame({r}, "unsaved")
  /\ UNCHANGED <<body, answer, entry, lock, ran>>

(***************************************************************************)
(* The deferred DEL of the lock, whoever has set it by now; its failure is *)
(* ignored.                                                                *)
(***************************************************************************)
Release(r) ==
  /\ phase[r] = "unlocking"
  /\ MovesTo(r, "done")
  /\ lock' = NoRequest
  /\ faults' = Blame({s \in {lock} : s # r /\ Inside(s)}, "overrun")
  /\ UNCHANGED <<body, answer, entry, ran>>

ReleaseFails(r) ==
  /\ phase[r] = "unlocking"
  /\ MovesTo(r, "done")
  /\ UNCHANGED <<body, answer, entry, lock, ran, faults>>

(***************************************************************************)
(* Redis and the replicas.                                                 *)
(***************************************************************************)
\* inFlightTTL is over, whether or not the request that set the lock is.
LockExpires ==
  /\ lock # NoRequest
  /\ lock' = NoRequest
  /\ faults' = Blame({s \in {lock} : Inside(s)}, "overrun")
  /\ UNCHANGED <<phase, body, answer, entry, ran>>

\* idempotencyTTL is over, or Redis evicts the entry.
EntryExpires ==
  /\ entry # NoRequest
  /\ entry' = NoRequest
  /\ faults' = Blame({s \in ran : phase[s] # "saving"}, "unsaved")
  /\ UNCHANGED <<phase, body, answer, lock, ran>>

\* The replica stops with the request inside: its lock and its work remain.
Stop(r) ==
  /\ Inside(r)
  /\ MovesTo(r, "lost")
  /\ faults' = Blame({s \in {r} : phase[s] = "saving"}, "unsaved")
  /\ UNCHANGED <<body, answer, entry, lock, ran>>

Step(r) ==
  \/ Look(r) \/ LookBlindly(r)
  \/ Acquire(r) \/ AcquireFails(r)
  \/ Handle(r)
  \/ Save(r) \/ SaveFails(r)
  \/ Release(r) \/ ReleaseFails(r)

Next ==
  \/ \E r \in Request : Step(r) \/ Stop(r)
  \/ LockExpires
  \/ EntryExpires

Spec == Init /\ [][Next]_vars

-----------------------------------------------------------------------------
(***************************************************************************)
(* Properties                                                              *)
(***************************************************************************)

\* Two requests under one key have both done their work only if the lookup of
\* one failed or missed before the other's answer was stored, one has no stored
\* answer, or the lock of one ended early: a lookup that fails counts as a miss
\* (lookupCachedEntry), the store is not read again under the lock, and the
\* deferred DEL does not ask whose lock it deletes.
RepeatedWorkHasACause ==
  \A r, s \in ran : r = s \/ faults[r] # {} \/ faults[s] # {}

\* While the lock of a request lasts no other request is in the handler: two
\* are there at once only if the lock of one expired or was deleted by a
\* request that outlived its own.
HandlersRunAlone ==
  \A r, s \in Request :
    phase[r] = "locked" /\ phase[s] = "locked" /\ r # s
      => "overrun" \in faults[r] \cup faults[s]

\* Who is told that the work is done, by the handler or by a replay, is told of
\* work done for the very body it sent: answers of failed handlers are never
\* stored, and a stored answer is never given to another body.
SuccessIsTrue ==
  \A r \in Request :
    answer[r] \in {"success", "replay"} => \E s \in ran : body[s] = body[r]
=============================================================================
