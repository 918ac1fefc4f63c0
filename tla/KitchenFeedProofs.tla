------------------------- MODULE KitchenFeedProofs -------------------------
(***************************************************************************)
(* Proofs about KitchenFeed for any stations, buffer and bounds: its       *)
(* types, that every second ticket has one of three causes, and that no    *)
(* sighting of an owed order is swallowed.                                 *)
(*                                                                         *)
(* The second invariant is not inductive: a job about to print must be     *)
(* known to be the first since the till last lost track of a ticket,       *)
(* although the cashier may print the order by hand, and other orders may  *)
(* push it out of the memory, while the job is under way.                  *)
(***************************************************************************)
EXTENDS KitchenFeed, TLAPS

\* The till may print the order without knowing of a ticket.
Ignorant(c) == job[c] = "printing" \/ (~Has(c) /\ job[c] # "paper")

\* Paper is remembered, or about to be, or lost track of; a job about to print follows
\* none that is remembered.
PaperOf(c) ==
  /\ tickets[c] <= Lapses(c) + 1
  /\ Ignorant(c) => tickets[c] <= Lapses(c)

PaperIsRemembered == \A c \in Client : PaperOf(c)

KitchenInv == TypeOK /\ PaperIsRemembered

-----------------------------------------------------------------------------
(* Types. *)

\* What an order may become is a status.
LEMMA EdgesAreStatuses == \A s \in Status : OrderEdges[s] \subseteq Status
  BY DEF OrderEdges, Status

\* What a station makes of what it is shown has the right shape.
LEMMA SeeKeepsTypes ==
  ASSUME TypeOK, NEW c \in Client, NEW st \in Status, NEW f \in Frame, See(c, st, f)
  PROVE  /\ board' \in [Client -> Frame]
         /\ inflight' \in [Client -> BOOLEAN]
         /\ job' \in [Client -> Stage]
         /\ \A x \in Client : inflight'[x] <=> job'[x] # "none"
<1>1. board' \in [Client -> Frame]
  <2>1. board' = board \/ board' = [board EXCEPT ![c] = f]
    BY DEF See
  <2>2. board \in [Client -> Frame]
    BY DEF TypeOK
  <2> QED BY <2>1, <2>2
<1>2. CASE UNCHANGED <<inflight, job>>
  BY <1>1, <1>2 DEF TypeOK
<1>3. CASE /\ inflight' = [inflight EXCEPT ![c] = TRUE]
           /\ job' = [job EXCEPT ![c] = "queued"]
  <2>1. /\ inflight' \in [Client -> BOOLEAN]
        /\ job' \in [Client -> Stage]
    BY <1>3 DEF TypeOK, Stage
  <2>2. ASSUME NEW x \in Client PROVE inflight'[x] <=> job'[x] # "none"
    BY <1>3 DEF TypeOK
  <2> QED BY <1>1, <2>1, <2>2
<1> QED BY <1>2, <1>3 DEF See, Queue

\* The order and the stream keep the types.
LEMMA StreamKeepsTypes ==
  ASSUME TypeOK,
         \/ PlaceOrder \/ ChangeOrder \/ DeliverOnClose \/ Publish \/ GiveUp
         \/ (\E n \in todo : LoadOrder(n))
  PROVE  TypeOK'
<1> USE KitchenAssumption DEF hubVars, connVars, tillVars, memoryVars, paperVars
<1>1. ASSUME NEW to \in Status, NEW events \in 1..2, Write(to, events) PROVE TypeOK'
  <2>1. status' \in Status /\ unsent' \in Nat
    BY <1>1 DEF Write, TypeOK
  <2> QED BY <1>1, <2>1 DEF Write, TypeOK
<1>2. CASE PlaceOrder \/ DeliverOnClose
  BY <1>1, <1>2 DEF PlaceOrder, DeliverOnClose, Status
<1>3. CASE ChangeOrder
  <2>1. status \in Status
    BY DEF TypeOK
  <2> QED BY <1>1, <1>3, <2>1, EdgesAreStatuses DEF ChangeOrder
<1>4. CASE Publish
  <2>1. unsent' \in Nat /\ last' \in Nat /\ todo' \subseteq 1..last'
    BY <1>4 DEF Publish, TypeOK
  <2>2. hub' \in {IdleHub} \cup [busy : {TRUE}, seq : 1..last', st : Status]
    <3>1. hub' = hub /\ 1..last \subseteq 1..last'
      BY <1>4 DEF Publish, TypeOK
    <3> QED BY <3>1 DEF TypeOK
  <2> QED BY <1>4, <2>1, <2>2 DEF Publish, TypeOK
<1>5. CASE GiveUp
  <2>1. unsent' \in Nat /\ dead' \in Nat /\ missed' \in [Client -> Nat]
    BY <1>5 DEF GiveUp, TypeOK
  <2> QED BY <1>5, <2>1 DEF GiveUp, TypeOK
<1>6. ASSUME NEW n \in todo, LoadOrder(n) PROVE TypeOK'
  BY <1>6 DEF LoadOrder, orderVars, TypeOK
<1> QED BY <1>2, <1>3, <1>4, <1>5, <1>6

\* The hub keeps the types.
LEMMA HubKeepsTypes ==
  ASSUME TypeOK, (\E acked \in BOOLEAN : Broadcast(acked)) \/ RestartHub
  PROVE  TypeOK'
<1> USE KitchenAssumption DEF orderVars, tillVars, memoryVars, paperVars
<1>1. ASSUME NEW acked \in BOOLEAN, Broadcast(acked) PROVE TypeOK'
  <2>1. hub.seq \in Nat /\ hub.st \in Status
    <3>1. hub # IdleHub
      BY <1>1 DEF Broadcast, IdleHub
    <3>2. hub \in [busy : {TRUE}, seq : 1..last, st : Status]
      BY <3>1 DEF TypeOK
    <3> QED BY <3>2 DEF TypeOK
  <2> DEFINE new == [seq |-> hub.seq, st |-> hub.st]
  <2>2. new \in Frame
    BY <2>1 DEF Frame
  <2>3. ASSUME NEW c \in Client
        PROVE  buf'[c] \in Seq(Frame) /\ Len(buf'[c]) <= SendBuffer
    <3>1. buf[c] \in Seq(Frame) /\ Len(buf[c]) <= SendBuffer
      BY DEF TypeOK
    <3>2. CASE Shed(c)
      BY <1>1, <3>2 DEF Broadcast
    <3>3. CASE ~Shed(c) /\ phase[c] = "live" /\ ~Full(c)
      <4>1. buf'[c] = Append(buf[c], new)
        BY <1>1, <3>3 DEF Broadcast
      <4>2. Len(buf[c]) \in Nat /\ Len(buf[c]) < SendBuffer
        BY <3>1, <3>3 DEF Full
      <4> QED BY <2>2, <3>1, <4>1, <4>2
    <3>4. CASE ~Shed(c) /\ ~(phase[c] = "live" /\ ~Full(c))
      BY <1>1, <3>1, <3>4 DEF Broadcast
    <3> QED BY <3>2, <3>3, <3>4
  <2>4. buf' \in [Client -> Seq(Frame)]
    <3>1. buf' = [c \in Client |-> buf'[c]]
      BY <1>1 DEF Broadcast
    <3> QED BY <2>3, <3>1
  <2>5. phase' \in [Client -> {"down", "read", "written", "live"}]
    BY <1>1 DEF Broadcast, TypeOK
  <2>7. missed' \in [Client -> Nat]
    <3>1. missed \in [Client -> Nat]
      BY DEF TypeOK
    <3>2. missed' = [c \in Client |-> missed'[c]]
      BY <1>1 DEF Broadcast
    <3>3. ASSUME NEW c \in Client PROVE missed'[c] \in Nat
      <4>1. missed'[c] = hub.seq + 1 \/ missed'[c] = 0 \/ missed'[c] = missed[c]
        BY <1>1 DEF Broadcast
      <4> QED BY <2>1, <3>1, <4>1
    <3> QED BY <3>2, <3>3
  <2>6. hub' = IdleHub /\ todo' \subseteq 1..last'
    BY <1>1 DEF Broadcast, TypeOK
  <2> QED BY <1>1, <2>3, <2>4, <2>5, <2>6, <2>7 DEF Broadcast, TypeOK
<1>2. CASE RestartHub
  BY <1>2 DEF RestartHub, Status, TypeOK
<1> QED BY <1>1, <1>2

\* The end of a connection keeps the types.
LEMMA HangUpKeepsTypes ==
  ASSUME TypeOK, NEW c \in Client, HangUp(c)
  PROVE  /\ phase' \in [Client -> {"down", "read", "written", "live"}]
         /\ given' \in [Client -> Status] /\ missed' \in [Client -> Nat]
         /\ buf' \in [Client -> Seq(Frame)] /\ \A x \in Client : Len(buf'[x]) <= SendBuffer
<1>1. phase' \in [Client -> {"down", "read", "written", "live"}] /\ missed' \in [Client -> Nat]
  BY DEF HangUp, TypeOK
<1>2. given' \in [Client -> Status]
  BY DEF HangUp, TypeOK, Status
<1>3. buf' \in [Client -> Seq(Frame)]
  BY DEF HangUp, TypeOK
<1>4. \A x \in Client : Len(buf'[x]) <= SendBuffer
  BY KitchenAssumption DEF HangUp, TypeOK
<1> QED BY <1>1, <1>2, <1>3, <1>4

\* A station's connection keeps the types.
LEMMA ConnectionKeepsTypes ==
  ASSUME TypeOK, NEW c \in Client, Connect(c) \/ WriteFrame(c) \/ Disconnect(c)
  PROVE  TypeOK'
<1> USE KitchenAssumption DEF orderVars, hubVars, tillVars, memoryVars, paperVars
<1>1. CASE ReadSnapshot(c)
  <2>1. phase' \in [Client -> {"down", "read", "written", "live"}] /\ given' \in [Client -> Status]
    BY <1>1 DEF ReadSnapshot, TypeOK
  <2>2. Outdated => hub.seq \in Nat
    <3>1. Outdated => hub # IdleHub
      BY DEF Outdated, IdleHub
    <3>2. hub # IdleHub => hub \in [busy : {TRUE}, seq : 1..last, st : Status] /\ last \in Nat
      BY DEF TypeOK
    <3> QED BY <3>1, <3>2
  <2>3. missed' \in [Client -> Nat]
    <3>1. missed \in [Client -> Nat]
      BY DEF TypeOK
    <3> DEFINE n == IF Outdated THEN hub.seq + 1 ELSE 0
    <3>2. n \in Nat
      BY <2>2
    <3>3. missed' = [missed EXCEPT ![c] = n]
      BY <1>1 DEF ReadSnapshot
    <3> HIDE DEF n
    <3> QED BY <3>1, <3>2, <3>3
  <2> QED BY <1>1, <2>1, <2>3 DEF ReadSnapshot, TypeOK
<1>2. CASE WriteSnapshot(c)
  <2>1. Visible(given[c]) \in Status /\ Replaced(given[c]) \in Frame
    BY DEF TypeOK, Visible, Replaced, Frame, Status, Live
  <2>2. See(c, Visible(given[c]), Replaced(given[c]))
    BY <1>2 DEF WriteSnapshot
  <2>3. given' \in [Client -> Status]
    BY <1>2 DEF WriteSnapshot, TypeOK, Status
  <2> QED BY <1>2, <2>1, <2>2, <2>3, SeeKeepsTypes DEF WriteSnapshot, TypeOK
<1>3. CASE Register(c)
  BY <1>3 DEF Register, TypeOK
<1>4. CASE WriteFrame(c)
  <2> DEFINE f == Head(buf[c])
  <2>1. buf[c] \in Seq(Frame) /\ buf[c] # <<>> /\ Len(buf[c]) <= SendBuffer
    BY <1>4 DEF WriteFrame, TypeOK
  <2>2. f \in Frame /\ Tail(buf[c]) \in Seq(Frame) /\ Len(Tail(buf[c])) <= SendBuffer
    BY <2>1
  <2>3. f.st \in Status /\ Applied(f, board[c]) \in Frame
    BY <2>2 DEF TypeOK, Applied, Newer, Nothing, Frame, Status
  <2>4. See(c, f.st, Applied(f, board[c]))
    BY <1>4 DEF WriteFrame
  <2>5. buf' \in [Client -> Seq(Frame)] /\ \A x \in Client : Len(buf'[x]) <= SendBuffer
    BY <1>4, <2>2 DEF WriteFrame, TypeOK
  <2> HIDE DEF f
  <2> QED BY <1>4, <2>3, <2>4, <2>5, SeeKeepsTypes DEF WriteFrame, TypeOK
<1>5. CASE Disconnect(c)
  BY <1>5, HangUpKeepsTypes DEF Disconnect, TypeOK
<1> QED BY <1>1, <1>2, <1>3, <1>4, <1>5 DEF Connect

\* The memory and its file hold the order at an age, or not.
LEMMA MemoryKeepsTypes ==
  ASSUME TypeOK, NEW c \in Client
  PROVE  /\ Older(memory[c]) \in 0..MaxIds /\ 0 \in 0..MaxIds
         /\ \A age \in 0..MaxIds, saved \in BOOLEAN :
              Add(c, age, saved) => memory' \in [Client -> 0..MaxIds] /\ file' \in [Client -> 0..MaxIds]
         /\ Open(c) => memory' \in [Client -> 0..MaxIds] /\ file' \in [Client -> 0..MaxIds]
<1>1. MaxIds \in Nat /\ memory \in [Client -> 0..MaxIds] /\ file \in [Client -> 0..MaxIds]
  BY KitchenAssumption DEF TypeOK
<1>2. Older(memory[c]) \in 0..MaxIds /\ 0 \in 0..MaxIds /\ MaxIds \in 0..MaxIds
  BY <1>1 DEF Older
<1> QED BY <1>1, <1>2 DEF Add, Open

\* A till's worker keeps the types.
LEMMA TillKeepsTypes ==
  ASSUME TypeOK, NEW c \in Client,
         Job(c) \/ Reprint(c) \/ PrintOther(c) \/ StopTill(c) \/ CrashTill(c)
  PROVE  TypeOK'
<1> USE DEF orderVars, hubVars, connVars, memoryVars, paperVars, tillOnly
<1> DEFINE JobFits ==
      /\ inflight' \in [Client -> BOOLEAN] /\ job' \in [Client -> Stage]
      /\ \A x \in Client : inflight'[x] <=> job'[x] # "none"
<1>1. ASSUME job' = [job EXCEPT ![c] = "none"], inflight' = [inflight EXCEPT ![c] = FALSE]
      PROVE  JobFits
  <2>1. inflight' \in [Client -> BOOLEAN] /\ job' \in [Client -> Stage]
    BY <1>1 DEF TypeOK, Stage
  <2>2. ASSUME NEW x \in Client PROVE inflight'[x] <=> job'[x] # "none"
    BY <1>1 DEF TypeOK
  <2> QED BY <2>1, <2>2
<1>2. ASSUME job[c] # "none", UNCHANGED inflight,
             NEW stage \in Stage \ {"none"}, job' = [job EXCEPT ![c] = stage]
      PROVE  JobFits
  <2>1. inflight' \in [Client -> BOOLEAN] /\ job' \in [Client -> Stage]
    BY <1>2 DEF TypeOK
  <2>2. ASSUME NEW x \in Client PROVE inflight'[x] <=> job'[x] # "none"
    BY <1>2 DEF TypeOK
  <2> QED BY <2>1, <2>2
<1>3. CASE StartPrint(c)
  <2>1. JobFits
    BY <1>2, <1>3 DEF StartPrint, EndJob, Stage
  <2> QED BY <1>3, <2>1 DEF StartPrint, TypeOK
<1>4. CASE PrintTicket(c)
  <2>1. JobFits
    BY <1>2, <1>4 DEF PrintTicket, Stage
  <2>2. tickets' \in [Client -> Nat] /\ failed' \in [Client -> BOOLEAN]
    BY <1>4 DEF PrintTicket, TypeOK
  <2> QED BY <1>4, <2>1, <2>2 DEF PrintTicket, TypeOK
<1>5. CASE FailToPrint(c)
  <2>1. JobFits
    BY <1>2, <1>5 DEF FailToPrint, EndJob, Stage
  <2>2. failed' \in [Client -> BOOLEAN]
    BY <1>5 DEF FailToPrint, TypeOK
  <2>3. tickets' \in [Client -> Nat] /\ torn' \in [Client -> Nat]
    <3>1. tickets \in [Client -> Nat] /\ torn \in [Client -> Nat]
      BY DEF TypeOK
    <3>2. \/ UNCHANGED <<tickets, torn>>
          \/ /\ tickets' = [tickets EXCEPT ![c] = @ + 1]
             /\ torn' = [torn EXCEPT ![c] = @ + 1]
      BY <1>5 DEF FailToPrint
    <3> QED BY <3>1, <3>2
  <2> QED BY <1>5, <2>1, <2>2, <2>3 DEF FailToPrint, TypeOK
<1>6. CASE Record(c)
  <2>1. JobFits
    BY <1>2, <1>6 DEF Record, EndJob, Stage
  <2>2. memory' \in [Client -> 0..MaxIds] /\ file' \in [Client -> 0..MaxIds]
    BY <1>6, MemoryKeepsTypes DEF Record
  <2> QED BY <1>6, <2>1, <2>2 DEF Record, TypeOK
<1>7. CASE Release(c)
  <2>1. JobFits
    BY <1>1, <1>7 DEF Release
  <2> QED BY <1>7, <2>1 DEF Release, TypeOK
<1>8. CASE Reprint(c)
  <2>1. memory' \in [Client -> 0..MaxIds] /\ file' \in [Client -> 0..MaxIds]
    BY <1>8, MemoryKeepsTypes DEF Reprint
  <2> QED BY <1>8, <2>1 DEF Reprint, TypeOK
<1>9. CASE PrintOther(c)
  <2>1. memory' \in [Client -> 0..MaxIds] /\ file' \in [Client -> 0..MaxIds]
    <3>1. memory[c] \in 0..MaxIds
      BY DEF TypeOK
    <3> QED BY <1>9, <3>1, MemoryKeepsTypes DEF PrintOther
  <2>2. evicted' \in [Client -> Nat]
    BY <1>9 DEF PrintOther, TypeOK
  <2> QED BY <1>9, <2>1, <2>2 DEF PrintOther, TypeOK
<1>10. CASE StopTill(c)
  <2>1. JobFits
    BY <1>1, <1>10 DEF StopTill
  <2> QED BY <1>10, <2>1, HangUpKeepsTypes DEF StopTill, TypeOK
<1>11. CASE CrashTill(c)
  <2>1. JobFits
    BY <1>1, <1>11 DEF CrashTill
  <2>2. memory' \in [Client -> 0..MaxIds] /\ file' \in [Client -> 0..MaxIds]
    BY <1>11, MemoryKeepsTypes DEF CrashTill
  <2>3. forgot' \in [Client -> Nat]
    BY <1>11 DEF CrashTill, TypeOK
  <2> QED BY <1>11, <2>1, <2>2, <2>3, HangUpKeepsTypes DEF CrashTill, TypeOK
<1> QED BY <1>3, <1>4, <1>5, <1>6, <1>7, <1>8, <1>9, <1>10, <1>11 DEF Job

\* Every step keeps the types.
LEMMA TypesKept == TypeOK /\ [Next]_vars => TypeOK'
<1> SUFFICES ASSUME TypeOK, [Next]_vars PROVE TypeOK'
  OBVIOUS
<1>1. CASE UNCHANGED vars
  BY <1>1 DEF vars, orderVars, hubVars, connVars, tillVars, memoryVars, paperVars, TypeOK
<1> QED BY <1>1, StreamKeepsTypes, HubKeepsTypes, ConnectionKeepsTypes, TillKeepsTypes DEF Next

\* The initial state.
LEMMA KitchenInvInit == Init => KitchenInv
<1> SUFFICES ASSUME Init PROVE KitchenInv
  OBVIOUS
<1>1. TypeOK
  <2>1. MaxIds \in 0..MaxIds
    BY KitchenAssumption
  <2> QED BY <2>1, KitchenAssumption DEF Init, TypeOK, Status, Frame, Nothing, IdleHub, Stage
<1>2. ASSUME NEW c \in Client PROVE PaperOf(c)
  <2>1. tickets[c] = 0 /\ forgot[c] = 0 /\ evicted[c] = 0 /\ torn[c] = 0
    BY DEF Init
  <2> QED BY <2>1 DEF PaperOf, Lapses
<1> QED BY <1>1, <1>2 DEF KitchenInv, PaperIsRemembered

-----------------------------------------------------------------------------
(* Paper. *)

\* What a station sees queues a job at most.
LEMMA SeeOnlyQueues ==
  ASSUME TypeOK, NEW c \in Client, NEW st, NEW f, See(c, st, f), NEW x \in Client
  PROVE  job'[x] = job[x] \/ (job[x] = "none" /\ job'[x] = "queued")
  BY DEF See, Queue, TypeOK

\* The history counts.
LEMMA CountsAreNumbers ==
  ASSUME TypeOK, TypeOK', NEW c \in Client
  PROVE  /\ {tickets[c], forgot[c], evicted[c], torn[c], Lapses(c)} \subseteq Nat
         /\ {tickets'[c], forgot'[c], evicted'[c], torn'[c], Lapses(c)'} \subseteq Nat
         /\ memory[c] \in 0..MaxIds /\ memory'[c] \in 0..MaxIds
<1>1. /\ tickets[c] \in Nat /\ forgot[c] \in Nat /\ evicted[c] \in Nat /\ torn[c] \in Nat
      /\ memory[c] \in 0..MaxIds
  BY DEF TypeOK
<1>2. /\ tickets'[c] \in Nat /\ forgot'[c] \in Nat /\ evicted'[c] \in Nat /\ torn'[c] \in Nat
      /\ memory'[c] \in 0..MaxIds
  BY DEF TypeOK
<1>3. Lapses(c) \in Nat
  BY <1>1 DEF Lapses
<1>4. Lapses(c)' \in Nat
  BY <1>2 DEF Lapses
<1> QED BY <1>1, <1>2, <1>3, <1>4

\* A till keeps the account of its paper when it prints, knows more, or loses track of
\* one ticket.
LEMMA PaperAccount ==
  ASSUME KitchenInv, TypeOK', NEW c \in Client,
         \/ /\ tickets'[c] = tickets[c] /\ Lapses(c)' = Lapses(c)
            /\ Ignorant(c)' => Ignorant(c)
         \/ /\ tickets'[c] = tickets[c] /\ Lapses(c)' = Lapses(c) + 1
         \/ /\ tickets'[c] = tickets[c] + 1 /\ Lapses(c)' = Lapses(c)
            /\ Ignorant(c) /\ ~Ignorant(c)'
         \/ /\ tickets'[c] = tickets[c] + 1 /\ Lapses(c)' = Lapses(c) + 1
            /\ Ignorant(c)
  PROVE  PaperOf(c)'
<1>0. TypeOK
  BY DEF KitchenInv
<1>1. tickets[c] \in Nat /\ tickets'[c] \in Nat
  BY <1>0, CountsAreNumbers
<1>2. Lapses(c) \in Nat /\ Lapses(c)' \in Nat
  BY <1>0, CountsAreNumbers
<1>3. tickets[c] <= Lapses(c) + 1 /\ (Ignorant(c) => tickets[c] <= Lapses(c))
  BY DEF KitchenInv, PaperIsRemembered, PaperOf
<1> QED BY <1>1, <1>2, <1>3 DEF PaperOf

\* The job of a station's own till keeps the account.
LEMMA JobKeepsPaper ==
  ASSUME KitchenInv, TypeOK', NEW c \in Client, Job(c)
  PROVE  PaperOf(c)'
<1> USE DEF memoryVars, paperVars
<1>0. TypeOK
  BY DEF KitchenInv
<1>1. CASE StartPrint(c)
  <2>1. /\ tickets'[c] = tickets[c] /\ Lapses(c)' = Lapses(c) /\ Has(c)' = Has(c)
        /\ job[c] = "queued" /\ job'[c] = IF Has(c) THEN "done" ELSE "printing"
    BY <1>0, <1>1 DEF StartPrint, EndJob, Lapses, Has, TypeOK
  <2>2. Ignorant(c)' => Ignorant(c)
    BY <2>1 DEF Ignorant
  <2> QED BY <2>1, <2>2, PaperAccount
<1>2. CASE PrintTicket(c)
  <2>1. /\ tickets'[c] = tickets[c] + 1 /\ Lapses(c)' = Lapses(c)
        /\ job[c] = "printing" /\ job'[c] = "paper"
    BY <1>0, <1>2 DEF PrintTicket, Lapses, TypeOK
  <2>2. Ignorant(c) /\ ~Ignorant(c)'
    BY <2>1 DEF Ignorant
  <2> QED BY <2>1, <2>2, PaperAccount
<1>3. CASE FailToPrint(c)
  <2>1. /\ job[c] = "printing" /\ UNCHANGED <<forgot, evicted>>
        /\ \/ tickets' = tickets /\ torn' = torn
           \/ tickets'[c] = tickets[c] + 1 /\ torn'[c] = torn[c] + 1
    BY <1>0, <1>3 DEF FailToPrint, TypeOK
  <2>2. Ignorant(c)
    BY <2>1 DEF Ignorant
  <2>3. forgot[c] \in Nat /\ evicted[c] \in Nat /\ torn[c] \in Nat
    BY <1>0, CountsAreNumbers
  <2>4. \/ tickets'[c] = tickets[c] /\ Lapses(c)' = Lapses(c)
        \/ tickets'[c] = tickets[c] + 1 /\ Lapses(c)' = Lapses(c) + 1
    BY <2>1, <2>3 DEF Lapses
  <2> QED BY <2>2, <2>4, PaperAccount
<1>4. CASE Record(c)
  <2>1. /\ tickets'[c] = tickets[c] /\ Lapses(c)' = Lapses(c)
        /\ memory'[c] = 0 /\ job'[c] = "done"
    BY <1>0, <1>4 DEF Record, Add, EndJob, Lapses, TypeOK
  <2>2. ~Ignorant(c)'
    BY <2>1, KitchenAssumption DEF Ignorant, Has
  <2> QED BY <2>1, <2>2, PaperAccount
<1>5. CASE Release(c)
  <2>1. /\ tickets'[c] = tickets[c] /\ Lapses(c)' = Lapses(c) /\ Has(c)' = Has(c)
        /\ job[c] = "done" /\ job'[c] = "none"
    BY <1>0, <1>5 DEF Release, Lapses, Has, TypeOK
  <2>2. Ignorant(c)' => Ignorant(c)
    BY <2>1 DEF Ignorant
  <2> QED BY <2>1, <2>2, PaperAccount
<1> QED BY <1>1, <1>2, <1>3, <1>4, <1>5 DEF Job

\* Reprints, other orders' tickets, stops and restarts keep the account.
LEMMA TillKeepsPaper ==
  ASSUME KitchenInv, TypeOK', NEW c \in Client,
         Reprint(c) \/ PrintOther(c) \/ StopTill(c) \/ CrashTill(c)
  PROVE  PaperOf(c)'
<1> USE DEF memoryVars, paperVars
<1>t. TypeOK
  BY DEF KitchenInv
<1>0. /\ MaxIds \in Nat /\ MaxIds > 0
      /\ forgot[c] \in Nat /\ evicted[c] \in Nat /\ torn[c] \in Nat
      /\ memory[c] \in 0..MaxIds /\ memory'[c] \in 0..MaxIds
  BY <1>t, KitchenAssumption, CountsAreNumbers
<1>1. CASE Reprint(c)
  <2>1. /\ tickets'[c] = tickets[c] /\ Lapses(c)' = Lapses(c)
        /\ memory'[c] = 0 /\ job'[c] = job[c]
    BY <1>t, <1>1 DEF Reprint, Add, Lapses, TypeOK
  <2>2. Ignorant(c)' => Ignorant(c)
    BY <1>0, <2>1 DEF Ignorant, Has
  <2> QED BY <2>1, <2>2, PaperAccount
<1>2. CASE PrintOther(c)
  <2> DEFINE out == Has(c) /\ memory'[c] = MaxIds
  <2>1. /\ UNCHANGED <<tickets, forgot, torn, job>>
        /\ evicted'[c] = IF out THEN evicted[c] + 1 ELSE evicted[c]
    BY <1>t, <1>2 DEF PrintOther, Add, TypeOK
  <2>2. CASE out
    <3>1. Lapses(c)' = Lapses(c) + 1
      BY <1>0, <2>1, <2>2 DEF Lapses
    <3> QED BY <2>1, <3>1, PaperAccount
  <2>3. CASE ~out
    <3>1. Lapses(c)' = Lapses(c)
      BY <2>1, <2>3 DEF Lapses
    <3>2. Has(c) => Has(c)'
      BY <1>0, <2>1, <2>3 DEF Has
    <3>3. Ignorant(c)' => Ignorant(c)
      BY <2>1, <3>2 DEF Ignorant
    <3> QED BY <2>1, <3>1, <3>3, PaperAccount
  <2> QED BY <2>2, <2>3
<1>3. CASE StopTill(c)
  <2>1. /\ tickets'[c] = tickets[c] /\ Lapses(c)' = Lapses(c) /\ Has(c)' = Has(c)
        /\ job[c] \in {"none", "queued"} /\ job'[c] = "none"
    BY <1>t, <1>3 DEF StopTill, Lapses, Has, TypeOK
  <2>2. Ignorant(c)' => Ignorant(c)
    BY <2>1 DEF Ignorant
  <2> QED BY <2>1, <2>2, PaperAccount
<1>4. CASE CrashTill(c)
  <2> DEFINE forgets == (job[c] = "paper" \/ Has(c)) /\ memory'[c] = MaxIds
  <2>1. /\ UNCHANGED <<tickets, evicted, torn>> /\ job'[c] = "none"
        /\ forgot'[c] = IF forgets THEN forgot[c] + 1 ELSE forgot[c]
    BY <1>t, <1>4 DEF CrashTill, TypeOK
  <2>2. CASE forgets
    <3>1. Lapses(c)' = Lapses(c) + 1
      BY <1>0, <2>1, <2>2 DEF Lapses
    <3> QED BY <2>1, <3>1, PaperAccount
  <2>3. CASE ~forgets
    <3>1. Lapses(c)' = Lapses(c)
      BY <2>1, <2>3 DEF Lapses
    <3>2. Has(c)' \/ (~Has(c) /\ job[c] # "paper")
      BY <1>0, <2>3 DEF Has
    <3>3. Ignorant(c)' => Ignorant(c)
      BY <2>1, <3>2 DEF Ignorant
    <3> QED BY <2>1, <3>1, <3>3, PaperAccount
  <2> QED BY <2>2, <2>3
<1> QED BY <1>1, <1>2, <1>3, <1>4

\* What another station does leaves a till's paper and memory alone.
LEMMA OthersKeepPaper ==
  ASSUME KitchenInv, NEW c \in Client, NEW x \in Client, x # c,
         Job(x) \/ Reprint(x) \/ PrintOther(x) \/ StopTill(x) \/ CrashTill(x)
  PROVE  UNCHANGED <<tickets[c], memory[c], job[c], forgot[c], evicted[c], torn[c]>>
<1>0. /\ tickets \in [Client -> Nat] /\ memory \in [Client -> 0..MaxIds]
      /\ job \in [Client -> Stage]
      /\ forgot \in [Client -> Nat] /\ evicted \in [Client -> Nat] /\ torn \in [Client -> Nat]
  BY DEF KitchenInv, TypeOK
<1> USE <1>0 DEF memoryVars, paperVars
<1>1. CASE StartPrint(x) \/ PrintTicket(x) \/ Release(x)
  <2>1. CASE StartPrint(x)
    BY <2>1 DEF StartPrint, EndJob
  <2>2. CASE PrintTicket(x)
    BY <2>2 DEF PrintTicket
  <2>3. CASE Release(x)
    BY <2>3 DEF Release
  <2> QED BY <1>1, <2>1, <2>2, <2>3
<1>2. CASE FailToPrint(x)
  BY <1>2 DEF FailToPrint, EndJob
<1>3. CASE Record(x) \/ Reprint(x)
  BY <1>3 DEF Record, Reprint, Add, EndJob
<1>4. CASE PrintOther(x)
  BY <1>4 DEF PrintOther, Add
<1>5. CASE StopTill(x) \/ CrashTill(x)
  <2>1. CASE StopTill(x)
    BY <2>1 DEF StopTill
  <2>2. CASE CrashTill(x)
    <3>1. memory'[c] = memory[c]
      BY <2>2 DEF CrashTill, Open
    <3>2. UNCHANGED <<tickets, evicted, torn>> /\ job'[c] = job[c] /\ forgot'[c] = forgot[c]
      BY <2>2 DEF CrashTill
    <3> QED BY <3>1, <3>2
  <2> QED BY <1>5, <2>1, <2>2
<1> QED BY <1>1, <1>2, <1>3, <1>4, <1>5 DEF Job

\* Every step keeps the account of the paper.
LEMMA PaperKept == KitchenInv /\ [Next]_vars => PaperIsRemembered'
<1> SUFFICES ASSUME KitchenInv, [Next]_vars, NEW c \in Client PROVE PaperOf(c)'
  BY DEF PaperIsRemembered
<1>0. TypeOK /\ TypeOK'
  BY TypesKept DEF KitchenInv
<1>1. ASSUME UNCHANGED <<tickets[c], memory[c], forgot[c], evicted[c], torn[c]>>,
             job'[c] = job[c] \/ (job[c] = "none" /\ job'[c] = "queued")
      PROVE  PaperOf(c)'
  <2>1. Lapses(c)' = Lapses(c) /\ Has(c)' = Has(c)
    BY <1>1 DEF Lapses, Has
  <2>2. Ignorant(c)' => Ignorant(c)
    BY <1>1, <2>1 DEF Ignorant
  <2> QED BY <1>0, <1>1, <2>1, <2>2, PaperAccount
<1>2. ASSUME UNCHANGED tillVars PROVE PaperOf(c)'
  BY <1>1, <1>2 DEF tillVars, memoryVars, paperVars
<1>3. CASE \/ PlaceOrder \/ ChangeOrder \/ DeliverOnClose \/ Publish \/ GiveUp \/ RestartHub
           \/ UNCHANGED vars
  BY <1>2, <1>3 DEF PlaceOrder, ChangeOrder, DeliverOnClose, Write, Publish, GiveUp, RestartHub,
                    vars
<1>4. ASSUME NEW n \in todo, LoadOrder(n) PROVE PaperOf(c)'
  BY <1>2, <1>4 DEF LoadOrder
<1>5. ASSUME NEW acked \in BOOLEAN, Broadcast(acked) PROVE PaperOf(c)'
  BY <1>2, <1>5 DEF Broadcast
<1>6. ASSUME NEW x \in Client, ReadSnapshot(x) \/ Register(x) \/ Disconnect(x)
      PROVE  PaperOf(c)'
  BY <1>2, <1>6 DEF ReadSnapshot, Register, Disconnect
<1>7. ASSUME NEW x \in Client, WriteSnapshot(x) \/ WriteFrame(x)
      PROVE  PaperOf(c)'
  <2>1. job'[c] = job[c] \/ (job[c] = "none" /\ job'[c] = "queued")
    BY <1>0, <1>7, SeeOnlyQueues DEF WriteSnapshot, WriteFrame
  <2>2. UNCHANGED <<memoryVars, paperVars>>
    BY <1>7 DEF WriteSnapshot, WriteFrame
  <2> QED BY <1>1, <2>1, <2>2 DEF memoryVars, paperVars
<1>8. ASSUME NEW x \in Client,
             Job(x) \/ Reprint(x) \/ PrintOther(x) \/ StopTill(x) \/ CrashTill(x)
      PROVE  PaperOf(c)'
  <2>1. CASE x = c
    BY <1>0, <1>8, <2>1, JobKeepsPaper, TillKeepsPaper
  <2>2. CASE x # c
    BY <1>1, <1>8, <2>2, OthersKeepPaper
  <2> QED BY <2>1, <2>2
<1> QED BY <1>3, <1>4, <1>5, <1>6, <1>7, <1>8 DEF Next, Connect

\* The inductive invariant holds throughout.
THEOREM KitchenInvariant == Spec => []KitchenInv
<1>1. KitchenInv /\ [Next]_vars => KitchenInv'
  BY TypesKept, PaperKept DEF KitchenInv
<1> QED BY <1>1, KitchenInvInit, PTL DEF Spec

\* No buffer grows beyond its size and the mark of a waiting order lasts as long as its
\* job, among the other types.
THEOREM KitchenTypes == Spec => []TypeOK
<1>1. KitchenInv => TypeOK
  BY DEF KitchenInv
<1> QED BY <1>1, KitchenInvariant, PTL

\* A till prints a ticket again only after it lost track of one: in a restart, in an
\* eviction, or in a print that failed with the paper out.
THEOREM TicketsAreNotRepeated == Spec => []DuplicateTicketsHaveACause
<1>1. ASSUME KitchenInv, NEW c \in Client PROVE tickets[c] <= 1 + Lapses(c)
  <2>1. tickets[c] \in Nat /\ Lapses(c) \in Nat
    BY <1>1 DEF KitchenInv, TypeOK, Lapses
  <2>2. tickets[c] <= Lapses(c) + 1
    BY <1>1 DEF KitchenInv, PaperIsRemembered, PaperOf
  <2> QED BY <2>1, <2>2
<1>2. KitchenInv => DuplicateTicketsHaveACause
  BY <1>1 DEF DuplicateTicketsHaveACause
<1> QED BY <1>2, KitchenInvariant, PTL

-----------------------------------------------------------------------------
(* Sightings. *)

\* A till shown an owed order has a job for it, remembers it, or is about to release it.
LEMMA SeeQueues ==
  ASSUME TypeOK, NEW c \in Client, NEW st \in Owed, NEW f, See(c, st, f), kind[c] = "till"
  PROVE  job'[c] \in {"queued", "printing", "paper"} \/ Has(c) \/ job[c] = "done"
<1>1. Queue(c, st)
  BY DEF See
<1>2. inflight[c] <=> job[c] # "none"
  BY DEF TypeOK
<1>3. CASE ~Has(c) /\ inflight[c]
  BY <1>1, <1>2, <1>3 DEF Queue, TypeOK, Stage
<1>4. CASE ~Has(c) /\ ~inflight[c]
  BY <1>1, <1>4 DEF Queue, TypeOK
<1> QED BY <1>3, <1>4

\* The two ways a station is shown the order.
LEMMA ShownAre ==
  ASSUME TypeOK, [Next]_vars, NEW c \in Client
  PROVE  /\ phase[c] = "read" /\ phase'[c] = "written" => WriteSnapshot(c)
         /\ phase[c] = "live" /\ phase'[c] = "live" /\ Len(buf'[c]) < Len(buf[c]) => WriteFrame(c)
<1>0. /\ buf[c] \in Seq(Frame) /\ Len(buf[c]) \in Nat
      /\ phase[c] \in {"down", "read", "written", "live"}
  BY DEF TypeOK
<1>1. CASE phase'[c] = phase[c] /\ buf'[c] = buf[c]
  BY <1>0, <1>1
<1>2. CASE phase'[c] = "down"
  BY <1>2
<1>3. CASE \/ PlaceOrder \/ ChangeOrder \/ DeliverOnClose \/ Publish \/ GiveUp
           \/ UNCHANGED vars
  BY <1>1, <1>3 DEF PlaceOrder, ChangeOrder, DeliverOnClose, Write, Publish, GiveUp, vars, connVars
<1>4. CASE RestartHub
  BY <1>2, <1>4 DEF RestartHub
<1>5. ASSUME NEW n \in todo, LoadOrder(n) PROVE phase'[c] = phase[c] /\ buf'[c] = buf[c]
  BY <1>5 DEF LoadOrder, connVars
<1>6. ASSUME NEW acked \in BOOLEAN, Broadcast(acked)
      PROVE  /\ phase'[c] \in {phase[c], "down"}
             /\ phase'[c] = "live" => ~(Len(buf'[c]) < Len(buf[c]))
  <2>1. hub.seq \in Nat /\ hub.st \in Status
    <3>1. hub # IdleHub
      BY <1>6 DEF Broadcast, IdleHub
    <3>2. hub \in [busy : {TRUE}, seq : 1..last, st : Status] /\ last \in Nat
      BY <3>1 DEF TypeOK
    <3> QED BY <3>2
  <2>2. [seq |-> hub.seq, st |-> hub.st] \in Frame
    BY <2>1 DEF Frame
  <2>3. CASE Shed(c)
    BY <1>6, <2>3 DEF Broadcast
  <2>4. CASE ~Shed(c)
    <3>1. phase'[c] = phase[c]
      BY <1>6, <2>4 DEF Broadcast
    <3>2. buf'[c] = buf[c] \/ buf'[c] = Append(buf[c], [seq |-> hub.seq, st |-> hub.st])
      BY <1>6, <2>4 DEF Broadcast
    <3> QED BY <1>0, <2>2, <3>1, <3>2
  <2> QED BY <2>3, <2>4
<1>7. ASSUME NEW x \in Client,
             \/ ReadSnapshot(x) \/ WriteSnapshot(x) \/ Register(x)
             \/ Disconnect(x) \/ StopTill(x) \/ CrashTill(x) \/ WriteFrame(x), x # c
      PROVE  phase'[c] = phase[c] /\ buf'[c] = buf[c]
  BY <1>7 DEF ReadSnapshot, WriteSnapshot, Register, Disconnect, StopTill, CrashTill, WriteFrame,
              HangUp, TypeOK
<1>8. ASSUME NEW x \in Client, Job(x) \/ Reprint(x) \/ PrintOther(x)
      PROVE  phase'[c] = phase[c] /\ buf'[c] = buf[c]
  BY <1>8 DEF Job, StartPrint, PrintTicket, FailToPrint, Record, Release, Reprint, PrintOther,
              tillOnly, connVars
<1>9. CASE ReadSnapshot(c) \/ Register(c) \/ Disconnect(c) \/ StopTill(c) \/ CrashTill(c)
  <2>1. \/ phase'[c] = "down"
        \/ buf'[c] = buf[c] /\ phase'[c] \in {"read", "live"}
    BY <1>9 DEF ReadSnapshot, Register, Disconnect, StopTill, CrashTill, HangUp, TypeOK
  <2> QED BY <1>0, <2>1
<1>10. CASE WriteSnapshot(c)
  BY <1>10 DEF WriteSnapshot
<1>11. CASE WriteFrame(c)
  BY <1>11 DEF WriteFrame
<1> QED
  BY <1>1, <1>2, <1>3, <1>4, <1>5, <1>6, <1>7, <1>8, <1>9, <1>10, <1>11 DEF Next, Connect

\* A failed print, a stop and a restart leave nothing behind that swallows the next
\* sighting of an order the kitchen is owed.
THEOREM SightingsAreAlwaysQueued == Spec => SightingsAreQueued
<1> DEFINE Queued(c) ==
      /\ phase[c] = "read" /\ phase'[c] = "written" => Sighted(c, given[c])
      /\ phase[c] = "live" /\ phase'[c] = "live" /\ Len(buf'[c]) < Len(buf[c]) =>
           Sighted(c, Head(buf[c]).st)
<1>1. ASSUME TypeOK, [Next]_vars, NEW c \in Client PROVE Queued(c)
  <2>1. ASSUME WriteSnapshot(c), kind[c] = "till", given[c] \in Owed
        PROVE  job'[c] \in {"queued", "printing", "paper"} \/ Has(c) \/ job[c] = "done"
    <3>1. Visible(given[c]) = given[c]
      BY <2>1 DEF Visible, Live, Owed
    <3>2. See(c, given[c], Replaced(given[c]))
      BY <2>1, <3>1 DEF WriteSnapshot
    <3> QED BY <1>1, <2>1, <3>2, SeeQueues
  <2>2. ASSUME WriteFrame(c), kind[c] = "till", Head(buf[c]).st \in Owed
        PROVE  job'[c] \in {"queued", "printing", "paper"} \/ Has(c) \/ job[c] = "done"
    <3>1. See(c, Head(buf[c]).st, Applied(Head(buf[c]), board[c]))
      BY <2>2 DEF WriteFrame
    <3> QED BY <1>1, <2>2, <3>1, SeeQueues
  <2> QED BY <1>1, <2>1, <2>2, ShownAre DEF Sighted
<1>2. TypeOK /\ [Next]_vars => \A c \in Client : Queued(c)
  BY <1>1
<1>3. TypeOK /\ [Next]_vars => [\A c \in Client : Queued(c)]_vars
  BY <1>2
<1> QED BY <1>3, KitchenTypes, PTL DEF Spec, SightingsAreQueued
=============================================================================
