------------------------------ MODULE Reservation ------------------------------
(***************************************************************************)
(* One slot of an opportunity and the calls that write it: users reserve,  *)
(* cancel and join, managers accept, reject, cancel the slot, edit it or   *)
(* its opportunity and evaluate, and a batch completes past slots.  The    *)
(* rows are the slot, its reservations, their participations (the seats)   *)
(* and the points moved between the reserver and the opportunity's creator.*)
(*                                                                         *)
(* Statements of different calls interleave at READ COMMITTED.  A row that *)
(* a transaction has written is locked until it ends, and a statement that *)
(* writes several rows locks them one by one; the writes become visible    *)
(* together at the commit.  A call that a lock keeps waiting for ever is   *)
(* aborted by PostgreSQL's deadlock detector: Fail.                        *)
(*                                                                         *)
(* Abstracted: the calendar, to the four periods the validators tell       *)
(* apart; wallets and balances (a transfer may fail), and with them who is *)
(* the creator that a refund is taken from; tickets; notifications.        *)
(***************************************************************************)
EXTENDS Integers, FiniteSets

CONSTANTS
  Users,            \* users who reserve and join
  Nobody,           \* the user of a seat that is free to join: NULL
  Requests,         \* slots for calls that are in flight at the same time
  Capacities,       \* capacities a manager may give the slot
  Prices,           \* points an opportunity may require of a participant
  WithPoints,       \* numbers of participants that a reservation pays points for
  MaxSeats,         \* bound: seats of one reservation
  MaxReservations,  \* bound: reservations ever made
  MaxEvaluated,     \* bound: seats evaluated in one call
  MaxCalls          \* bound: calls ever made

ASSUME UserAssumption == Nobody \notin Users
ASSUME RequestAssumption == IsFiniteSet(Requests)
ASSUME BoundAssumption ==
  /\ Capacities \subseteq Nat /\ Prices \subseteq Nat /\ WithPoints \subseteq Nat
  /\ MaxSeats \in Nat \ {0} /\ MaxReservations \in Nat
  /\ MaxEvaluated \in Nat /\ MaxCalls \in Nat

VARIABLES
  period,       \* where now is, relative to the slot's start
  slot,         \* the row of the slot
  opportunity,  \* the row of its opportunity
  book,         \* book[res]: the row of a reservation
  seats,        \* seats[<<res, i>>]: the row of the i-th participation of res
  net,          \* net[res]: points the reserver has paid, less refunds
  calls,        \* calls made so far
  pc,           \* pc[r]: next step of request r
  job,          \* job[r]: the call that r serves, and the rows it has locked
  notes         \* history: notes[res], what has happened to a reservation

vars == <<period, slot, opportunity, book, seats, net, calls, pc, job, notes>>
rows == <<period, slot, opportunity, book, seats, net, notes>>

-----------------------------------------------------------------------------
(* Rows *)

Reservations == 1..MaxReservations
Positions == 1..MaxSeats
Places == Reservations \X Positions

\* "open": may be reserved; "eve": may still be cancelled; "day"; "started".
Period == {"open", "eve", "day", "started"}
Hosting == {"SCHEDULED", "CANCELLED", "COMPLETED"}
Slot == [hosting: Hosting, capacity: Capacities]
Opportunity == [price: Prices, requireApproval: BOOLEAN]

\* withPoint: participantCountWithPoint; points: what its creation paid (from
\* t_transactions); history[s]: rows of t_reservation_histories with status s.
Status == {"APPLIED", "ACCEPTED", "REJECTED", "CANCELED"}
Booking == [status: Status \cup {"NONE"}, withPoint: Nat, points: Nat,
            history: [Status -> Nat]]
NoBooking == [status |-> "NONE", withPoint |-> 0, points |-> 0,
              history |-> [s \in Status |-> 0]]

\* A participation, its evaluation and the rewards paid for it.  History: claims,
\* the calls that had validated the participation when its evaluation was committed.
SeatStatus == {"NONE", "PENDING", "PARTICIPATING", "PARTICIPATED", "NOT_PARTICIPATING"}
Reason == {"NONE", "RESERVATION_APPLIED", "RESERVATION_ACCEPTED", "RESERVATION_REJECTED",
           "RESERVATION_CANCELED", "RESERVATION_JOINED", "OPPORTUNITY_CANCELED"}
Seat == [user: Users \cup {Nobody}, status: SeatStatus, reason: Reason,
         evaluation: {"NONE", "PASSED", "FAILED"}, rewards: Nat, claims: Nat]
NoSeat == [user |-> Nobody, status |-> "NONE", reason |-> "NONE",
           evaluation |-> "NONE", rewards |-> 0, claims |-> 0]

\* price, requireApproval: of the opportunity, as the call has read them.  seats: the
\* seats to write, or those still to reward; passed: those that pass.  rows, seatRows:
\* reservations and participations locked; keys: evaluations inserted.
Job == [op: {"none", "reserve", "cancel", "accept", "reject", "join", "evaluate",
             "slotCancel", "complete"},
        on: SUBSET Reservations, user: Users \cup {Nobody}, guest: Users \cup {Nobody},
        count: 0..MaxSeats, withPoint: Nat, price: Nat, requireApproval: BOOLEAN,
        seats: SUBSET Places, passed: SUBSET Places,
        rows: SUBSET Reservations, seatRows: SUBSET Places, keys: SUBSET Places]
NoJob == [op |-> "none", on |-> {}, user |-> Nobody, guest |-> Nobody,
          count |-> 0, withPoint |-> 0, price |-> 0, requireApproval |-> FALSE,
          seats |-> {}, passed |-> {}, rows |-> {}, seatRows |-> {}, keys |-> {}]

Booked == {res \in Reservations : book[res].status /= "NONE"}
Active(res) == book[res].status \in {"APPLIED", "ACCEPTED"}
SeatsOf(set) == {p \in Places : p[1] \in set /\ seats[p].status /= "NONE"}

\* RemainingCapacityView counts the seats that are PENDING or PARTICIPATING in
\* active reservations.
Taken == Cardinality({p \in SeatsOf(Booked) :
           Active(p[1]) /\ seats[p].status \in {"PENDING", "PARTICIPATING"}})

RowLocked(r, res) == \E q \in Requests \ {r} : res \in job[q].rows
SeatLocked(r, p) == \E q \in Requests \ {r} : p \in job[q].seatRows
KeyLocked(r, p) == \E q \in Requests \ {r} : p \in job[q].keys
HoldsSlot(q) == job[q].op = "slotCancel" /\ pc[q] = "seats"
SlotLocked(r) == \E q \in Requests \ {r} : HoldsSlot(q)

-----------------------------------------------------------------------------
(* Requests *)

Init ==
  /\ period = "open"
  /\ slot \in [hosting: {"SCHEDULED"}, capacity: Capacities]
  /\ opportunity \in Opportunity
  /\ book = [res \in Reservations |-> NoBooking]
  /\ seats = [p \in Places |-> NoSeat]
  /\ net = [res \in Reservations |-> 0]
  /\ calls = 0
  /\ pc = [r \in Requests |-> "idle"]
  /\ job = [r \in Requests |-> NoJob]
  /\ notes = [res \in Reservations |-> {}]

Goto(r, label) == pc' = [pc EXCEPT ![r] = label]

Start(r, j, label) ==
  /\ pc[r] = "idle" /\ calls < MaxCalls
  /\ calls' = calls + 1
  /\ job' = [job EXCEPT ![r] = j]
  /\ Goto(r, label)
  /\ UNCHANGED rows

Finish(r) ==
  /\ Goto(r, "idle")
  /\ job' = [job EXCEPT ![r] = NoJob]
  /\ UNCHANGED calls

\* A validation, a transfer or the database fails, or the process dies: nothing
\* that the transaction wrote is kept.
Fail(r) == pc[r] /= "idle" /\ Finish(r) /\ UNCHANGED rows

-----------------------------------------------------------------------------
(* Reserving *)

\* userReserveParticipation reads the slot, its remaining capacity and its
\* opportunity before its transaction begins.
Reserve(r, u, n, w, guest) ==
  /\ slot.hosting = "SCHEDULED" /\ period = "open"
  /\ n <= slot.capacity - Taken
  /\ Start(r, [NoJob EXCEPT !.op = "reserve", !.user = u, !.guest = guest,
                            !.count = n, !.withPoint = w, !.price = opportunity.price,
                            !.requireApproval = opportunity.requireApproval], "create")

\* The first seat is the reserver's, the second the guest's, if one is named.
SeatUser(j, i) == CASE i = 1 -> j.user [] i = 2 -> j.guest [] OTHER -> Nobody

NewSeat(j, i) ==
  IF i > j.count THEN NoSeat
  ELSE [NoSeat EXCEPT !.user = SeatUser(j, i),
          !.status = IF j.requireApproval THEN "PENDING" ELSE "PARTICIPATING",
          !.reason = IF j.requireApproval THEN "RESERVATION_APPLIED"
                     ELSE "RESERVATION_ACCEPTED"]

\* createReservation, the payment and the commit
CreateReservation(r, res) ==
  /\ pc[r] = "create"
  /\ Booked = 1..(res - 1)
  /\ LET j == job[r]
         s == IF j.requireApproval THEN "APPLIED" ELSE "ACCEPTED"
     IN /\ book' = [book EXCEPT ![res] =
              [status |-> s, withPoint |-> j.withPoint, points |-> j.price * j.withPoint,
               history |-> [NoBooking.history EXCEPT ![s] = 1]]]
        /\ seats' = [p \in Places |-> IF p[1] = res THEN NewSeat(j, p[2]) ELSE seats[p]]
        /\ net' = [net EXCEPT ![res] = j.price * j.withPoint]
        /\ notes' = [notes EXCEPT ![res] =
             (IF slot.hosting = "CANCELLED" \/ SlotLocked(r) THEN {"late"} ELSE {})
             \cup (IF j.price /= opportunity.price THEN {"repriced"} ELSE {})]
  /\ Finish(r)
  /\ UNCHANGED <<period, slot, opportunity>>

-----------------------------------------------------------------------------
(* Cancelling, accepting, rejecting: the status of one reservation *)

\* userCancelMyReservation checks the deadline outside its transaction, and does
\* not look at the status.
Cancel(r, res) ==
  /\ res \in Booked /\ period \in {"open", "eve"}
  /\ Start(r, [NoJob EXCEPT !.op = "cancel", !.on = {res}], "row")

\* managerAcceptReservation, managerRejectReservation
Decide(r, res) ==
  /\ res \in Booked
  /\ \E op \in {"accept", "reject"} :
       Start(r, [NoJob EXCEPT !.op = op, !.on = {res}], "row")

\* Faulty: the reservation is read, and written only at the end.
SetStatusLast(r, res) ==
  /\ pc[r] = "row" /\ job[r].on = {res}
  /\ job' = [job EXCEPT ![r].seats = SeatsOf({res}), ![r].price = opportunity.price]
  /\ Goto(r, "seats")
  /\ UNCHANGED <<rows, calls>>

\* reservationService.setStatus locks the reservation and reads its participations
\* and the price as it is now.
SetStatus(r, res) ==
  /\ pc[r] = "row" /\ job[r].on = {res} /\ ~RowLocked(r, res)
  /\ job' = [job EXCEPT ![r].rows = {res}, ![r].seats = SeatsOf({res}),
                        ![r].price = opportunity.price]
  /\ Goto(r, "seats")
  /\ UNCHANGED <<rows, calls>>

\* Seats are written in no particular order: by the updateMany of a status change or
\* of a slot cancellation, or one update after the other for evaluations.
LockSeat(r, p) ==
  /\ pc[r] = "seats"
  /\ p \in job[r].seats \ job[r].seatRows /\ ~SeatLocked(r, p)
  /\ job' = [job EXCEPT ![r].seatRows = @ \cup {p}]
  /\ UNCHANGED <<rows, calls, pc>>

SeatsWritten(r) == pc[r] = "seats" /\ job[r].seatRows = job[r].seats

NewStatus(op) ==
  CASE op = "cancel" -> "CANCELED" [] op = "accept" -> "ACCEPTED" [] OTHER -> "REJECTED"

SeatAfter(op, seat) ==
  IF seat.status = "NONE" THEN seat
  ELSE [seat EXCEPT
          !.status = IF op = "accept" THEN "PARTICIPATING" ELSE "NOT_PARTICIPATING",
          !.reason = CASE op = "cancel" -> "RESERVATION_CANCELED"
                       [] op = "accept" -> "RESERVATION_ACCEPTED"
                       [] op = "reject" -> "RESERVATION_REJECTED"
                       [] OTHER -> "OPPORTUNITY_CANCELED"]

Rewrite(set, s) ==
  book' = [res \in Reservations |->
             IF res \in set
             THEN [book[res] EXCEPT !.status = s, !.history[s] = @ + 1]
             ELSE book[res]]

\* Faulty: an acceptance leaves the seats as they are.
SeatsOfStatus(op, set) ==
  seats' = [p \in Places |->
              IF p[1] \in set /\ op /= "accept" THEN SeatAfter(op, seats[p]) ELSE seats[p]]

Reseat(op, set) ==
  seats' = [p \in Places |-> IF p[1] \in set THEN SeatAfter(op, seats[p]) ELSE seats[p]]

\* The points that are moved back: at the price the call has read.
Points(r, res) == job[r].price * book[res].withPoint

\* Faulty: a rejection is refunded only when the reservation was accepted.
RefundAccepted(r, res) ==
  IF job[r].op = "accept" \/ (job[r].op = "reject" /\ book[res].status /= "ACCEPTED") THEN 0
  ELSE Points(r, res)

\* processReservationRefund: the reserver gets the points back, whatever the status
\* was before.  An acceptance moves no points.
Refund(r, res) == IF job[r].op = "accept" THEN 0 ELSE Points(r, res)

\* A join that has read this reservation is still to write its seat.
JoinPending(res) == \E q \in Requests : pc[q] = "join" /\ job[q].on = {res}

CommitStatus(r, res) ==
  /\ SeatsWritten(r) /\ job[r].op \in {"cancel", "accept", "reject"} /\ job[r].on = {res}
  /\ Rewrite({res}, NewStatus(job[r].op))
  /\ Reseat(job[r].op, {res})
  /\ net' = [net EXCEPT ![res] = @ - Refund(r, res)]
  /\ notes' = [notes EXCEPT ![res] =
       @ \cup (IF JoinPending(res) THEN {"raced"} ELSE {})
         \cup (IF slot.hosting = "CANCELLED" THEN {"late"} ELSE {})]
  /\ Finish(r)
  /\ UNCHANGED <<period, slot, opportunity>>

-----------------------------------------------------------------------------
(* The slot and its opportunity *)

\* managerSetOpportunitySlotHostingStatus with CANCELLED, whatever the status was
CancelSlot(r) == Start(r, [NoJob EXCEPT !.op = "slotCancel"], "slot")

\* Faulty: only the reservations that still wait for approval are closed.
SetHostingPending(r) ==
  /\ pc[r] = "slot" /\ ~SlotLocked(r)
  /\ LET set == {res \in Booked : book[res].status = "APPLIED"}
     IN job' = [job EXCEPT ![r].on = set, ![r].seats = SeatsOf(set),
                           ![r].price = opportunity.price]
  /\ Goto(r, "seats")
  /\ UNCHANGED <<rows, calls>>

\* setHostingStatus locks the slot and reads its reservations, of any status, and the
\* price.  The seats are written first: LockSeat.
SetHosting(r) ==
  /\ pc[r] = "slot" /\ ~SlotLocked(r)
  /\ job' = [job EXCEPT ![r].on = Booked, ![r].seats = SeatsOf(Booked),
                        ![r].price = opportunity.price]
  /\ Goto(r, "seats")
  /\ UNCHANGED <<rows, calls>>

\* Then the reservations, one after the other.
RejectNext(r, res) ==
  /\ SeatsWritten(r) /\ job[r].op = "slotCancel"
  /\ res \in job[r].on \ job[r].rows /\ ~RowLocked(r, res)
  /\ job' = [job EXCEPT ![r].rows = @ \cup {res}]
  /\ UNCHANGED <<rows, calls, pc>>

\* processReservationRefund of the slot swaps the two wallets: the reserver pays.
CommitSlotCancel(r) ==
  /\ SeatsWritten(r) /\ job[r].op = "slotCancel" /\ job[r].rows = job[r].on
  /\ slot' = [slot EXCEPT !.hosting = "CANCELLED"]
  /\ Rewrite(job[r].on, "REJECTED")
  /\ Reseat("slotCancel", job[r].on)
  /\ net' = [res \in Reservations |->
               IF res \in job[r].on THEN net[res] + Points(r, res) ELSE net[res]]
  /\ notes' = [res \in Reservations |->
       IF res \notin job[r].on THEN notes[res]
       ELSE ((notes[res] \ {"late"}) \cup {"swept"})
              \cup (IF JoinPending(res) THEN {"raced"} ELSE {})]
  /\ Finish(r)
  /\ UNCHANGED <<period, opportunity>>

\* The slot is edited: setHostingStatus with another status, or a bulk update,
\* with or without a new capacity and start.  One that changes nothing is left out.
EditSlot(r, h, c, p) ==
  /\ pc[r] = "idle" /\ calls < MaxCalls /\ ~SlotLocked(r)
  /\ <<h, c, p>> /= <<slot.hosting, slot.capacity, period>>
  /\ h \in {slot.hosting, "SCHEDULED", "COMPLETED"}
  /\ slot' = [slot EXCEPT !.hosting = h, !.capacity = c]
  /\ period' = p
  /\ calls' = calls + 1
  /\ UNCHANGED <<opportunity, book, seats, net, pc, job, notes>>

\* managerUpdateOpportunityContent, also when there are reservations
EditOpportunity(r, o) ==
  /\ pc[r] = "idle" /\ calls < MaxCalls
  /\ o /= opportunity /\ opportunity' = o
  /\ notes' = [res \in Reservations |->
       IF res \in Booked /\ o.price /= opportunity.price
       THEN notes[res] \cup {"repriced"} ELSE notes[res]]
  /\ calls' = calls + 1
  /\ UNCHANGED <<period, slot, book, seats, net, pc, job>>

\* completeOpportunitySlots finds a scheduled slot that starts today at the latest ...
FindPast(r) ==
  /\ slot.hosting = "SCHEDULED" /\ period \in {"day", "started"}
  /\ Start(r, [NoJob EXCEPT !.op = "complete"], "complete")

\* ... and completes it, whatever its status has become.
CompleteSlot(r) ==
  /\ pc[r] = "complete" /\ ~SlotLocked(r)
  /\ slot' = [slot EXCEPT !.hosting = "COMPLETED"]
  /\ Finish(r)
  /\ UNCHANGED <<period, opportunity, book, seats, net, notes>>

-----------------------------------------------------------------------------
(* Joining: one seat *)

\* userJoinReservation: validateJoinable, without a lock.
Joinable(u, p) ==
  /\ book[p[1]].status = "ACCEPTED"
  /\ slot.hosting = "SCHEDULED" /\ period /= "started"
  /\ \A k \in Positions : seats[<<p[1], k>>].user /= u
  /\ seats[p].status /= "NONE" /\ seats[p].user = Nobody

Join(r, u, p) ==
  /\ Joinable(u, p)
  /\ Start(r, [NoJob EXCEPT !.op = "join", !.on = {p[1]}, !.seats = {p}], "join")

\* participationService.setStatus, which names the user in the history only, and
\* the commit
JoinSeat(r, p) ==
  /\ pc[r] = "join" /\ job[r].seats = {p} /\ ~SeatLocked(r, p)
  /\ seats' = [seats EXCEPT ![p] =
                  [@ EXCEPT !.status = "PARTICIPATING", !.reason = "RESERVATION_JOINED"]]
  /\ Finish(r)
  /\ UNCHANGED <<period, slot, opportunity, book, net, notes>>

-----------------------------------------------------------------------------
(* Evaluating: any seats, in one transaction *)

\* Faulty: the call does not look for an earlier evaluation.
EvaluatableAgain(p) == period = "started"

\* validateEvaluatable, in transactions of its own; neither the reservation's nor the
\* participation's status is looked at.
Evaluatable(p) == period = "started" /\ seats[p].evaluation = "NONE"

\* managerBulkCreateEvaluations, with a verdict for each seat
Evaluate(r, set, passed) ==
  /\ set \subseteq SeatsOf(Booked) /\ set /= {} /\ Cardinality(set) <= MaxEvaluated
  /\ \A p \in set : Evaluatable(p)
  /\ Start(r, [NoJob EXCEPT !.op = "evaluate", !.seats = set, !.passed = passed], "insert")

\* createMany with skipDuplicates: an evaluation that is not committed yet is waited for,
\* one that is committed is left as it is.
InsertEvaluation(r, p) ==
  /\ pc[r] = "insert"
  /\ p \in job[r].seats \ job[r].keys /\ seats[p].evaluation = "NONE" /\ ~KeyLocked(r, p)
  /\ job' = [job EXCEPT ![r].keys = @ \cup {p}]
  /\ UNCHANGED <<rows, calls, pc>>

\* findManyByParticipationIds: the evaluations of all the seats, whoever made them.
ReadEvaluations(r) ==
  /\ pc[r] = "insert"
  /\ \A p \in job[r].seats \ job[r].keys : seats[p].evaluation /= "NONE"
  /\ Goto(r, "seats")
  /\ UNCHANGED <<rows, calls, job>>

Verdict(r, p) ==
  IF p \notin job[r].keys THEN seats[p].evaluation
  ELSE IF p \in job[r].passed THEN "PASSED" ELSE "FAILED"

Evaluating(q) == pc[q] = "insert" \/ (pc[q] = "seats" /\ job[q].op = "evaluate")

\* Calls that have found a seat evaluatable, and not committed
Claims(p) == {q \in Requests : Evaluating(q) /\ p \in job[q].seats}

\* bulkUpdateParticipationStatus has locked the seats: LockSeat.  A seat that is known to
\* have passed is to be rewarded, even if its evaluation is another call's.
CommitEvaluations(r) ==
  /\ SeatsWritten(r) /\ job[r].op = "evaluate"
  /\ seats' = [p \in Places |->
       IF p \notin job[r].seats THEN seats[p]
       ELSE [seats[p] EXCEPT !.status = "PARTICIPATED", !.reason = "RESERVATION_ACCEPTED",
               !.evaluation = Verdict(r, p),
               !.claims = IF p \in job[r].keys THEN Cardinality(Claims(p)) ELSE @]]
  /\ LET due == {p \in job[r].seats : Verdict(r, p) = "PASSED" /\ seats[p].user /= Nobody}
     IN IF due = {} THEN Finish(r)
        ELSE /\ job' = [job EXCEPT ![r] = [NoJob EXCEPT !.op = "evaluate", !.seats = due]]
             /\ Goto(r, "reward")
             /\ UNCHANGED calls
  /\ UNCHANGED <<period, slot, opportunity, book, net, notes>>

\* handlePointTransferSeparately, in a transaction of its own for every evaluation that
\* passed a known user; its failure is only logged.
Reward(r, p) ==
  /\ pc[r] = "reward" /\ p \in job[r].seats
  /\ \E paid \in {0, 1} : seats' = [seats EXCEPT ![p].rewards = @ + paid]
  /\ IF job[r].seats = {p} THEN Finish(r)
     ELSE job' = [job EXCEPT ![r].seats = @ \ {p}] /\ UNCHANGED <<calls, pc>>
  /\ UNCHANGED <<period, slot, opportunity, book, net, notes>>

-----------------------------------------------------------------------------
(* Specification *)

\* Time passes.
Tick ==
  /\ period /= "started"
  /\ period' = CASE period = "open" -> "eve" [] period = "eve" -> "day" [] OTHER -> "started"
  /\ UNCHANGED <<slot, opportunity, book, seats, net, calls, pc, job, notes>>

Next ==
  \/ Tick
  \/ \E r \in Requests :
       \/ \E u \in Users, n \in 0..MaxSeats, w \in WithPoints, guest \in Users \cup {Nobody} :
            guest /= u /\ Reserve(r, u, n, w, guest)
       \/ \E h \in Hosting, c \in Capacities, p \in Period : EditSlot(r, h, c, p)
       \/ \E o \in Opportunity : EditOpportunity(r, o)
       \/ CancelSlot(r) \/ SetHosting(r) \/ CommitSlotCancel(r)
       \/ FindPast(r) \/ CompleteSlot(r) \/ Fail(r)
       \/ ReadEvaluations(r) \/ CommitEvaluations(r)
       \/ \E set \in SUBSET Places : \E passed \in SUBSET set : Evaluate(r, set, passed)
       \/ \E res \in Reservations :
            \/ CreateReservation(r, res) \/ Cancel(r, res) \/ Decide(r, res)
            \/ SetStatus(r, res) \/ CommitStatus(r, res) \/ RejectNext(r, res)
       \/ \E p \in Places :
            \/ \E u \in Users : Join(r, u, p)
            \/ LockSeat(r, p) \/ JoinSeat(r, p) \/ InsertEvaluation(r, p) \/ Reward(r, p)

Spec == Init /\ [][Next]_vars

-----------------------------------------------------------------------------
(* Properties *)

Label == {"idle", "create", "row", "seats", "slot", "complete", "join", "insert", "reward"}

\* Every variable holds a value of its kind.
TypeOK ==
  /\ period \in Period /\ slot \in Slot /\ opportunity \in Opportunity
  /\ book \in [Reservations -> Booking]
  /\ seats \in [Places -> Seat]
  /\ net \in [Reservations -> Int]
  /\ calls \in Nat
  /\ pc \in [Requests -> Label]
  /\ job \in [Requests -> Job]
  /\ notes \in [Reservations -> SUBSET {"late", "swept", "raced", "repriced"}]

Matches(s, seat) ==
  CASE s = "APPLIED" -> seat.status = "PENDING"
    [] s = "ACCEPTED" -> seat.status = "PARTICIPATING"
    [] OTHER -> seat.status = "NOT_PARTICIPATING"

\* What the consistency batch asks of statuses: the seats of a reservation that are
\* not evaluated follow its status, except a seat whose join was under way while a
\* decision on the reservation was committed.
SeatsFollowReservation ==
  \A p \in SeatsOf(Booked) :
    \/ seats[p].evaluation /= "NONE" \/ Matches(book[p[1]].status, seats[p])
    \/ seats[p].reason = "RESERVATION_JOINED" /\ "raced" \in notes[p[1]]

\* As long as neither the slot is cancelled nor the opportunity's price edited, the points
\* a reserver has paid are those the reservation's history accounts for: every
\* cancellation and every rejection is refunded in full, whichever came before it.
NetFollowsHistory ==
  \A res \in Booked : {"swept", "repriced"} \cap notes[res] = {} =>
    net[res] = book[res].points
                 * (1 - book[res].history["CANCELED"] - book[res].history["REJECTED"])

\* A participation that passed is rewarded at most once for each call that had found it
\* evaluatable before its evaluation was committed, one that failed never: what is paid
\* twice is paid by calls that overlapped, and by no later one.
RewardsAreClaimed ==
  \A p \in Places :
    seats[p].rewards <= (IF seats[p].evaluation = "PASSED" THEN seats[p].claims ELSE 0)

\* Both: the points a reservation moves, for its seats and for taking part, are
\* those its history accounts for.
PointsFollowHistory == NetFollowsHistory /\ RewardsAreClaimed

\* In a cancelled slot a reservation is active only if it was made once the slot's
\* reservations had been read, or accepted afterwards.
CancelledSlotIsClosed ==
  slot.hosting = "CANCELLED" => \A res \in Booked : Active(res) => "late" \in notes[res]

\* What r has still to lock, q has locked.
WaitsFor(r, q) ==
  /\ r /= q
  /\ \/ pc[r] = "row" /\ job[q].rows \cap job[r].on /= {}
     \/ pc[r] = "seats" /\ job[q].seatRows \cap (job[r].seats \ job[r].seatRows) /= {}
     \/ SeatsWritten(r) /\ job[r].op = "slotCancel"
        /\ job[q].rows \cap (job[r].on \ job[r].rows) /= {}
     \/ pc[r] = "join" /\ job[q].seatRows \cap job[r].seats /= {}
     \/ pc[r] = "insert" /\ job[q].keys \cap (job[r].seats \ job[r].keys) /= {}
     \/ pc[r] \in {"slot", "complete"} /\ HoldsSlot(q)

\* Calls that wait for each other, in a circle of any length
Stuck(set) == set /= {} /\ \A r \in set : \E q \in set : WaitsFor(r, q)

\* A slot cancellation locks seats before reservations, an evaluation of several seats
\* locks them in the order it was given.
Bulk(r) == \/ job[r].op = "slotCancel"
           \/ job[r].op = "evaluate" /\ \E p, x \in job[r].seats : p /= x

\* Calls wait for each other only if one of them cancels the slot or evaluates several
\* seats at once: all others, the status changes of many seats included, lock a
\* reservation before its seats, or one seat.
DeadlockNeedsBulk == \A set \in SUBSET Requests : Stuck(set) => \E r \in set : Bulk(r)

\* Stated in the slot's refund: the reserver is the one who gets the points.
RefundGoesToReserver ==
  [][slot'.hosting = "CANCELLED" => \A res \in Booked : net'[res] <= net[res]]_vars
=============================================================================
