---------------------------- MODULE KitchenFeed ----------------------------
(***************************************************************************)
(* How one QR order reaches the kitchen: its events, the hub that tells    *)
(* connected stations its status, and the two kinds of station, a display  *)
(* board (KDS) that shows the order and a till (POS desktop) that prints a *)
(* ticket for it.                                                          *)
(*                                                                         *)
(* An event carries no status: the hub reads the order when it handles the *)
(* message and announces what it read under the message's stream sequence. *)
(* The consumer is durable, so a message not acknowledged comes again,     *)
(* possibly after later ones.  A station that connects gets a snapshot     *)
(* first and joins its room afterwards.  A till remembers the orders it    *)
(* printed in a bounded set, which other orders' tickets push it out of.   *)
(***************************************************************************)
EXTENDS Integers, Sequences

CONSTANTS
  Client,       \* the connected stations
  SendBuffer,   \* sendBufferSize
  MaxIds,       \* printedids: how many orders a till remembers (DefaultMax)
  MaxMoves,     \* bound: the order's events
  MaxLapses     \* bound: how many times a till loses track of a ticket

ASSUME KitchenAssumption ==
  {SendBuffer, MaxIds} \subseteq Nat \ {0} /\ {MaxMoves, MaxLapses} \subseteq Nat

VARIABLES
  status,     \* orders.status; "none" before the order is placed
  unsent,     \* outbox rows of the order not yet published
  dead,       \* outbox rows of the order the dispatcher gave up
  last,       \* the last stream sequence number given to one of its messages
  todo,       \* the messages not acknowledged
  hub,        \* the message being handled and the status read for it
  kind,       \* what each station is
  phase,      \* of the station's connection
  given,      \* the status its snapshot read, until it is written
  buf,        \* conn.send
  board,      \* a board's entry for the order: what it shows, and the seq of that
  inflight,   \* a till's inflight map holds the order
  job,        \* where the till's print job for the order is
  memory,     \* printedids.Set: the ids more recent than the order's; MaxIds: not there
  file,       \* the same of the file the set is saved in
  tickets,    \* the tickets on paper
  missed,     \* history: 0, or the first message that can make good what it missed
  failed,     \* history: the till's last print failed
  forgot,     \* history: restarts that forgot a ticket
  evicted,    \* history: times other orders pushed this one out of the memory
  torn        \* history: prints that failed with the ticket on paper

orderVars == <<status, unsent, dead>>
hubVars == <<last, todo, hub>>
connVars == <<phase, given, buf, missed>>
memoryVars == <<memory, file>>
paperVars == <<tickets, failed, forgot, evicted, torn>>
tillVars == <<inflight, job, memoryVars, paperVars>>
vars == <<orderVars, hubVars, connVars, board, tillVars, kind>>

-----------------------------------------------------------------------------
Status ==
  {"none", "pending", "accepted", "preparing", "ready", "delivered", "rejected", "cancelled"}

\* domain.allowedOrderTransitions.
OrderEdges ==
  [s \in Status |->
     CASE s = "pending"   -> {"accepted", "rejected", "cancelled"}
       [] s = "accepted"  -> {"preparing", "cancelled"}
       [] s = "preparing" -> {"ready", "cancelled"}
       [] s = "ready"     -> {"delivered", "cancelled"}
       [] OTHER           -> {}]

\* domain.KitchenActiveOrderStatuses: what a snapshot lists and a board shows.
Live == {"pending", "accepted", "preparing", "ready"}

\* Mutant: only a fresh order is printed.
OwedPlaced == {"pending"}

\* shouldPrint: the kitchen is not cooking yet.
Owed == {"pending", "accepted"}

Frame == [seq : Nat, st : Status]

\* What somebody who only sees live orders sees of a status.
Visible(st) == IF st \in Live THEN st ELSE "none"

Nothing == [seq |-> 0, st |-> "none"]

IdleHub == [busy |-> FALSE]

\* A job waits in the queue, is at the printer, has its ticket on paper, or has been
\* processed and not yet released.
Stage == {"none", "queued", "printing", "paper", "done"}

\* Every variable has the shape the code gives it, no buffer exceeds its size, and the
\* till's inflight mark lasts as long as the job.
TypeOK ==
  /\ status \in Status /\ unsent \in Nat /\ dead \in Nat /\ last \in Nat
  /\ todo \subseteq 1..last
  /\ hub \in {IdleHub} \cup [busy : {TRUE}, seq : 1..last, st : Status]
  /\ kind \in [Client -> {"board", "till"}]
  /\ phase \in [Client -> {"down", "read", "written", "live"}]
  /\ given \in [Client -> Status]
  /\ buf \in [Client -> Seq(Frame)] /\ \A c \in Client : Len(buf[c]) <= SendBuffer
  /\ board \in [Client -> Frame]
  /\ inflight \in [Client -> BOOLEAN]
  /\ job \in [Client -> Stage]
  /\ memory \in [Client -> 0..MaxIds] /\ file \in [Client -> 0..MaxIds]
  /\ tickets \in [Client -> Nat] /\ forgot \in [Client -> Nat]
  /\ evicted \in [Client -> Nat] /\ torn \in [Client -> Nat]
  /\ missed \in [Client -> Nat] /\ failed \in [Client -> BOOLEAN]
  /\ \A c \in Client : inflight[c] <=> job[c] # "none"

Init ==
  /\ status = "none" /\ unsent = 0 /\ dead = 0 /\ last = 0 /\ todo = {} /\ hub = IdleHub
  /\ kind \in [Client -> {"board", "till"}]
  /\ phase = [c \in Client |-> "down"] /\ given = [c \in Client |-> "none"]
  /\ buf = [c \in Client |-> <<>>] /\ board = [c \in Client |-> Nothing]
  /\ inflight = [c \in Client |-> FALSE] /\ job = [c \in Client |-> "none"]
  /\ memory = [c \in Client |-> MaxIds] /\ file = [c \in Client |-> MaxIds]
  /\ tickets = [c \in Client |-> 0] /\ forgot = [c \in Client |-> 0]
  /\ evicted = [c \in Client |-> 0] /\ torn = [c \in Client |-> 0]
  /\ missed = [c \in Client |-> 0] /\ failed = [c \in Client |-> FALSE]

-----------------------------------------------------------------------------
(* The order, its outbox rows and the stream. *)

\* The order takes a status and its events are written in the same transaction.
Write(to, events) ==
  /\ unsent + dead + last + events <= MaxMoves
  /\ status' = to
  /\ unsent' = unsent + events
  /\ UNCHANGED <<dead, hubVars, connVars, board, tillVars, kind>>

\* The guest's order is placed: pending, or in a simple-flow branch accepted at birth,
\* which a second event tells.
PlaceOrder ==
  /\ status = "none"
  /\ Write("pending", 1) \/ Write("accepted", 2)

\* The kitchen or the till moves the order.
ChangeOrder == \E to \in OrderEdges[status] : Write(to, 1)

\* Closing the check of a simple-flow branch delivers what is live.
DeliverOnClose == status \in Live /\ Write("delivered", 1)

\* The dispatcher publishes one of the rows, in any order: they carry no status.
Publish ==
  /\ unsent > 0
  /\ unsent' = unsent - 1
  /\ last' = last + 1
  /\ todo' = todo \cup {last + 1}
  /\ UNCHANGED <<status, dead, hub, connVars, board, tillVars, kind>>

\* The dispatcher gives a row up after MaxRetries: whoever is connected misses the
\* event, and only a message published later can make up for it.
GiveUp ==
  /\ unsent > 0
  /\ unsent' = unsent - 1
  /\ dead' = dead + 1
  /\ missed' = [c \in Client |-> IF phase[c] = "down" THEN missed[c] ELSE last + 1]
  /\ UNCHANGED <<status, hubVars, phase, given, buf, board, tillVars, kind>>

-----------------------------------------------------------------------------
(* The hub. *)

\* handleOrderEvent loads the order.  Any unacknowledged message may be next: an
\* error refuses a message (NAK) and it comes again after others.
LoadOrder(n) ==
  /\ hub = IdleHub /\ n \in todo
  /\ hub' = [busy |-> TRUE, seq |-> n, st |-> status]
  /\ UNCHANGED <<orderVars, last, todo, connVars, board, tillVars, kind>>

\* The select in conn.enqueue takes its default branch.
Full(c) == Len(buf[c]) = SendBuffer

\* Mutant: a full buffer drops the frame and keeps the connection.
ShedKeeps(c) == FALSE

\* conn.enqueue: a full buffer costs the connection.
Shed(c) == phase[c] = "live" /\ Full(c)

\* broadcast to the room, then the message is acknowledged, or the acknowledgement is
\* lost and it comes again.
Broadcast(acked) ==
  /\ hub.busy
  /\ phase' = [c \in Client |-> IF Shed(c) THEN "down" ELSE phase[c]]
  /\ buf' = [c \in Client |->
       IF Shed(c) THEN <<>>
       ELSE IF phase[c] = "live" /\ ~Full(c)
            THEN Append(buf[c], [seq |-> hub.seq, st |-> hub.st])
            ELSE buf[c]]
  /\ missed' = [c \in Client |->
       CASE phase[c] \in {"read", "written"}                       -> hub.seq + 1
         [] phase[c] = "live" /\ (Shed(c) \/ hub.seq >= missed[c]) -> 0
         [] OTHER                                                  -> missed[c]]
  /\ todo' = IF acked THEN todo \ {hub.seq} ELSE todo
  /\ hub' = IdleHub
  /\ UNCHANGED <<orderVars, last, given, board, tillVars, kind>>

\* The station's connection is over.
HangUp(c) ==
  /\ phase' = [phase EXCEPT ![c] = "down"]
  /\ given' = [given EXCEPT ![c] = "none"]
  /\ buf' = [buf EXCEPT ![c] = <<>>]
  /\ missed' = [missed EXCEPT ![c] = 0]

\* drain, or a crash: every connection ends and the message in hand comes again.
RestartHub ==
  /\ hub' = IdleHub
  /\ phase' = [c \in Client |-> "down"]
  /\ given' = [c \in Client |-> "none"]
  /\ buf' = [c \in Client |-> <<>>]
  /\ missed' = [c \in Client |-> 0]
  /\ UNCHANGED <<orderVars, last, todo, board, tillVars, kind>>

-----------------------------------------------------------------------------
(* A station. *)

\* applyKitchenMessage for a snapshot: it replaces the map.
Replaced(st) == [seq |-> 0, st |-> Visible(st)]

\* An entry only gives way to a higher sequence number.
Newer(f, entry) == entry.st = "none" \/ f.seq > entry.seq

\* applyKitchenMessage for an event: last writer wins by seq; leaving the live
\* statuses deletes the entry.
Applied(f, entry) ==
  IF ~Newer(f, entry) THEN entry ELSE IF f.st \in Live THEN f ELSE Nothing

\* printedids.Set.Has.
Has(c) == memory[c] < MaxIds

\* enqueue: an order that is owed and not waiting is queued.
Queue(c, st) ==
  IF st \in Owed /\ ~Has(c) /\ ~inflight[c]
  THEN /\ inflight' = [inflight EXCEPT ![c] = TRUE]
       /\ job' = [job EXCEPT ![c] = "queued"]
  ELSE UNCHANGED <<inflight, job>>

\* A station handles what the connection brought: a board updates its entry, a till
\* looks whether a ticket is owed.
See(c, st, entry) ==
  IF kind[c] = "board"
  THEN board' = [board EXCEPT ![c] = entry] /\ UNCHANGED <<inflight, job>>
  ELSE Queue(c, st) /\ UNCHANGED board

\* What the hub has in hand it read before the order's last change.
Outdated == hub.busy /\ hub.st # status

\* ServeKitchenWS: buildSnapshot reads the live orders.  An announcement that was read
\* earlier may still come over it.
ReadSnapshot(c) ==
  /\ phase[c] = "down"
  /\ phase' = [phase EXCEPT ![c] = "read"]
  /\ given' = [given EXCEPT ![c] = status]
  /\ missed' = [missed EXCEPT ![c] = IF Outdated THEN hub.seq + 1 ELSE 0]
  /\ UNCHANGED <<orderVars, hubVars, buf, board, tillVars, kind>>

\* The snapshot is written to the socket and the station handles it.
WriteSnapshot(c) ==
  /\ phase[c] = "read"
  /\ phase' = [phase EXCEPT ![c] = "written"]
  /\ See(c, Visible(given[c]), Replaced(given[c]))
  /\ given' = [given EXCEPT ![c] = "none"]
  /\ UNCHANGED <<orderVars, hubVars, buf, missed, memoryVars, paperVars, kind>>

\* register: only now the connection is in its room.
Register(c) ==
  /\ phase[c] = "written"
  /\ phase' = [phase EXCEPT ![c] = "live"]
  /\ UNCHANGED <<orderVars, hubVars, given, buf, missed, board, tillVars, kind>>

\* writePump writes a frame and the station handles it.
WriteFrame(c) ==
  /\ phase[c] = "live" /\ buf[c] # <<>>
  /\ buf' = [buf EXCEPT ![c] = Tail(buf[c])]
  /\ See(c, Head(buf[c]).st, Applied(Head(buf[c]), board[c]))
  /\ UNCHANGED <<orderVars, hubVars, phase, given, missed, memoryVars, paperVars, kind>>

\* A missed heartbeat, a failed write, a network cut.
Disconnect(c) ==
  /\ phase[c] # "down"
  /\ HangUp(c)
  /\ UNCHANGED <<orderVars, hubVars, board, tillVars, kind>>

-----------------------------------------------------------------------------
(* A till's printer worker and its memory. *)

tillOnly == <<orderVars, hubVars, connVars, board, kind>>

\* How often the till lost track of a ticket on paper.
Lapses(c) == forgot[c] + evicted[c] + torn[c]

\* process returns; the order is still marked in flight.
EndJob(c) == job' = [job EXCEPT ![c] = "done"]

\* printLoop takes the job; process drops it if the order was printed meanwhile.
StartPrint(c) ==
  /\ job[c] = "queued"
  /\ IF Has(c) THEN EndJob(c) ELSE job' = [job EXCEPT ![c] = "printing"]
  /\ UNCHANGED <<tillOnly, inflight, memoryVars, paperVars>>

\* printKitchenTicket: the order is fetched and the ticket printed.
PrintTicket(c) ==
  /\ job[c] = "printing"
  /\ tickets' = [tickets EXCEPT ![c] = @ + 1]
  /\ job' = [job EXCEPT ![c] = "paper"]
  /\ failed' = [failed EXCEPT ![c] = FALSE]
  /\ UNCHANGED <<tillOnly, inflight, memoryVars, forgot, evicted, torn>>

\* The order cannot be fetched, or the printer fails; its write may fail with the
\* ticket, or part of it, on paper.
FailToPrint(c) ==
  /\ job[c] = "printing"
  /\ EndJob(c)
  /\ failed' = [failed EXCEPT ![c] = TRUE]
  /\ \/ UNCHANGED <<tickets, torn>>
     \/ /\ Lapses(c) < MaxLapses
        /\ tickets' = [tickets EXCEPT ![c] = @ + 1]
        /\ torn' = [torn EXCEPT ![c] = @ + 1]
  /\ UNCHANGED <<tillOnly, inflight, memoryVars, forgot, evicted>>

\* Mutant: an order whose set could not be persisted is not remembered either.
AddIfSaved(c, age, saved) ==
  /\ memory' = IF saved THEN [memory EXCEPT ![c] = age] ELSE memory
  /\ file' = IF saved THEN [file EXCEPT ![c] = age] ELSE file

\* printedids.Set.Add leaves this order at the given age.  The memory keeps what it
\* inserted even when the file cannot be written; a write saves the whole set.
Add(c, age, saved) ==
  /\ memory' = [memory EXCEPT ![c] = age]
  /\ file' = IF saved THEN [file EXCEPT ![c] = age] ELSE file

\* The printed order is recorded, after the paper.
Record(c) ==
  /\ job[c] = "paper"
  /\ \E saved \in BOOLEAN : Add(c, 0, saved)
  /\ EndJob(c)
  /\ UNCHANGED <<tillOnly, inflight, paperVars>>

\* Mutant: the order stays marked once it has been processed.
ReleaseKeepsMark(c) ==
  /\ job[c] = "done"
  /\ job' = [job EXCEPT ![c] = "none"]
  /\ UNCHANGED <<tillOnly, inflight, memoryVars, paperVars>>

\* release, after process: the order may be queued again.
Release(c) ==
  /\ job[c] = "done"
  /\ job' = [job EXCEPT ![c] = "none"]
  /\ inflight' = [inflight EXCEPT ![c] = FALSE]
  /\ UNCHANGED <<tillOnly, memoryVars, paperVars>>

\* The cashier prints the ticket by hand; that paper is not counted here.
Reprint(c) ==
  /\ kind[c] = "till" /\ status # "none"
  /\ \E saved \in BOOLEAN : Add(c, 0, saved)
  /\ UNCHANGED <<tillOnly, inflight, job, paperVars>>

\* insert of another order's id moves this one towards the end of the set, and out of
\* it when MaxIds more recent ones are in.
Older(age) == IF age < MaxIds THEN age + 1 ELSE MaxIds

\* A ticket of another order is printed and recorded; one that is printed again by hand
\* may have been the more recent one already.
PrintOther(c) ==
  LET out == Has(c) /\ memory'[c] = MaxIds
  IN /\ kind[c] = "till"
     /\ \E age \in {memory[c], Older(memory[c])}, saved \in BOOLEAN : Add(c, age, saved)
     /\ out => Lapses(c) < MaxLapses
     /\ evicted' = [evicted EXCEPT ![c] = IF out THEN @ + 1 ELSE @]
     /\ UNCHANGED <<tillOnly, inflight, job, tickets, failed, forgot, torn>>

\* Stop (logout, branch change): queued work is dropped, the memory stays.
StopTill(c) ==
  /\ kind[c] = "till" /\ job[c] \in {"none", "queued"}
  /\ inflight' = [inflight EXCEPT ![c] = FALSE]
  /\ job' = [job EXCEPT ![c] = "none"]
  /\ HangUp(c)
  /\ UNCHANGED <<orderVars, hubVars, board, memoryVars, paperVars, kind>>

\* printedids.Open finds the order where the file has it; or cannot read the file, or
\* finds it corrupt, and starts empty.
Open(c) ==
  \/ memory' = [memory EXCEPT ![c] = file[c]] /\ UNCHANGED file
  \/ memory' = [memory EXCEPT ![c] = MaxIds] /\ UNCHANGED file
  \/ memory' = [memory EXCEPT ![c] = MaxIds] /\ file' = [file EXCEPT ![c] = MaxIds]

\* The application dies and starts again.  It forgets a ticket that was on paper or in
\* its memory and is not in what Open finds.
CrashTill(c) ==
  LET forgets == (job[c] = "paper" \/ Has(c)) /\ memory'[c] = MaxIds
  IN /\ kind[c] = "till"
     /\ Open(c)
     /\ forgets => Lapses(c) < MaxLapses
     /\ forgot' = [forgot EXCEPT ![c] = IF forgets THEN @ + 1 ELSE @]
     /\ inflight' = [inflight EXCEPT ![c] = FALSE]
     /\ job' = [job EXCEPT ![c] = "none"]
     /\ HangUp(c)
     /\ UNCHANGED <<orderVars, hubVars, board, tickets, failed, evicted, torn, kind>>

-----------------------------------------------------------------------------
Connect(c) == ReadSnapshot(c) \/ WriteSnapshot(c) \/ Register(c)

Job(c) == StartPrint(c) \/ PrintTicket(c) \/ FailToPrint(c) \/ Record(c) \/ Release(c)

Next ==
  \/ PlaceOrder \/ ChangeOrder \/ DeliverOnClose \/ Publish \/ GiveUp \/ RestartHub
  \/ \E n \in todo : LoadOrder(n)
  \/ \E acked \in BOOLEAN : Broadcast(acked)
  \/ \E c \in Client :
       \/ Connect(c) \/ WriteFrame(c) \/ Disconnect(c)
       \/ Job(c) \/ Reprint(c) \/ PrintOther(c) \/ StopTill(c) \/ CrashTill(c)

Spec == Init /\ [][Next]_vars

\* The outbox dispatcher publishes a row or gives it up, the consumer keeps running, an
\* acknowledgement gets through in the end, stations reconnect, and the pumps and the
\* printer worker run while they have something to do.
FairSpec ==
  /\ Spec
  /\ WF_vars(Publish \/ GiveUp)
  /\ WF_vars(\E n \in todo : LoadOrder(n))
  /\ SF_vars(Broadcast(TRUE))
  /\ \A c \in Client : WF_vars(Connect(c)) /\ WF_vars(WriteFrame(c)) /\ WF_vars(Job(c))

-----------------------------------------------------------------------------
\* The printed-order memory makes "print on any sighting" safe up to what it loses:
\* however often the order is announced, redelivered or shown again after a reconnect,
\* each ticket after the first answers for a restart that forgot one, for a printer
\* error with the ticket on paper, or for DefaultMax later tickets that pushed the order
\* out of the memory.
DuplicateTicketsHaveACause == \A c \in Client : tickets[c] <= 1 + Lapses(c)

\* A till that is shown an order the kitchen is still owed, and does not remember
\* printing it, has a print job for it afterwards: a failed print and a stopped worker
\* leave nothing behind that swallows the next sighting.  Only a sighting between the
\* end of process and release finds the mark of a job that is over.
Sighted(c, st) ==
  kind[c] = "till" /\ st \in Owed =>
    job'[c] \in {"queued", "printing", "paper"} \/ Has(c) \/ job[c] = "done"

SightingsAreQueued ==
  [][\A c \in Client :
       /\ phase[c] = "read" /\ phase'[c] = "written" => Sighted(c, given[c])
       /\ phase[c] = "live" /\ phase'[c] = "live" /\ Len(buf'[c]) < Len(buf[c]) =>
            Sighted(c, Head(buf[c]).st)]_vars

\* Announcing the status at delivery is safe for messages redelivered or out of order:
\* once the order rests, a connected board comes to show its status and keeps showing
\* it.  What it misses, because an announcement fell between its snapshot and its room or
\* a row was given up, the next message that is published makes good.
BoardsCatchUp ==
  \A c \in Client :
    <>[](kind[c] = "board" /\ phase[c] = "live" =>
           board[c].st = Visible(status) \/ missed[c] # 0)

\* An order the kitchen is owed has a ticket in the end from a connected till that stays
\* up, unless its last print failed or what it missed was not made good.
StaysUp(c) == <>[][~StopTill(c) /\ ~CrashTill(c)]_vars

Served(c) == tickets[c] > 0 \/ Has(c) \/ evicted[c] > 0

TillsPrintInTheEnd ==
  \A c \in Client :
    StaysUp(c) =>
      <>[](kind[c] = "till" /\ phase[c] = "live" /\ status \in {"pending", "accepted"} =>
             Served(c) \/ missed[c] # 0 \/ failed[c])
=============================================================================
