-------------------------- MODULE ReservationProofs ---------------------------
(***************************************************************************)
(* Theorems about Reservation, for every set of users, requests, prices    *)
(* and capacities and for every bound.                                     *)
(***************************************************************************)
EXTENDS Reservation, FiniteSetTheorems, TLAPS

Decisions == {"cancel", "accept", "reject"}

\* What a request has locked, step by step.
StepInv(r) ==
  /\ pc[r] /= "seats" => job[r].rows = {} /\ job[r].seatRows = {}
  /\ pc[r] \notin {"insert", "seats"} => job[r].keys = {}
  /\ job[r].seatRows \subseteq job[r].seats /\ job[r].keys \subseteq job[r].seats
  /\ pc[r] = "row" => job[r].op \in Decisions
  /\ pc[r] = "slot" => job[r].op = "slotCancel"
  /\ pc[r] \in {"insert", "reward"} => job[r].op = "evaluate"
  /\ pc[r] = "seats" => job[r].op \in Decisions \cup {"slotCancel", "evaluate"}
  /\ pc[r] = "seats" /\ job[r].op \in Decisions =>
       job[r].rows = job[r].on /\ \A p \in job[r].seats : p[1] \in job[r].on

LocalInv == TypeOK /\ \A r \in Requests : StepInv(r)

-----------------------------------------------------------------------------
(* What a step does to the requests *)

\* A step of r leaves every other request alone.
Alone(r) == \A q \in Requests \ {r} : pc'[q] = pc[q] /\ job'[q] = job[q]

LocalTypes == pc \in [Requests -> Label] /\ job \in [Requests -> Job]

Local(r) == LocalTypes' /\ Alone(r) /\ \A q \in Requests : StepInv(q)'

LEMMA NoJobType ==
  /\ NoJob \in Job /\ NoJob.rows = {} /\ NoJob.seatRows = {} /\ NoJob.keys = {}
  /\ NoJob.seats = {} /\ NoJob.op = "none"
  BY BoundAssumption DEF NoJob, Job

\* A request moves to another step, with the job j.
LEMMA StepLocal ==
  ASSUME LocalInv, NEW r \in Requests, NEW label \in Label, NEW j \in Job, Goto(r, label),
         job' = [job EXCEPT ![r] = j], StepInv(r)'
  PROVE  Local(r)
<1>1. LocalTypes' /\ Alone(r)
  BY DEF LocalInv, TypeOK, LocalTypes, Goto, Alone
<1>2. ASSUME NEW q \in Requests \ {r} PROVE StepInv(q)'
  BY <1>1 DEF Alone, LocalInv, StepInv
<1> QED BY <1>1, <1>2 DEF Local

\* The lock sets of a job that has locked nothing
Unlocked(j) == j.rows = {} /\ j.seatRows = {} /\ j.keys = {}

LEMMA StartLocal ==
  ASSUME LocalInv, NEW r \in Requests, NEW j \in Job,
         NEW label \in {"create", "row", "slot", "complete", "join", "insert"},
         Start(r, j, label), Unlocked(j),
         label = "slot" => j.op = "slotCancel", label = "row" => j.op \in Decisions,
         label = "insert" => j.op = "evaluate"
  PROVE  /\ Local(r) /\ UNCHANGED rows /\ calls' \in Nat
         /\ pc[r] = "idle" /\ pc'[r] = label /\ job'[r] = j
<1>1. /\ pc[r] = "idle" /\ pc'[r] = label /\ job'[r] = j /\ UNCHANGED rows /\ calls' \in Nat
      /\ Goto(r, label) /\ job' = [job EXCEPT ![r] = j] /\ label \in Label
  BY DEF LocalInv, TypeOK, Start, Goto, Label
<1>2. StepInv(r)'
  BY <1>1 DEF StepInv, Unlocked
<1> QED BY <1>1, <1>2, StepLocal

LEMMA FinishLocal ==
  ASSUME LocalInv, NEW r \in Requests, Finish(r)
  PROVE  /\ Local(r) /\ calls' = calls /\ pc'[r] = "idle" /\ job'[r] = NoJob
<1>1. /\ pc'[r] = "idle" /\ job'[r] = NoJob /\ calls' = calls
      /\ Goto(r, "idle") /\ job' = [job EXCEPT ![r] = NoJob] /\ "idle" \in Label
  BY DEF LocalInv, TypeOK, Finish, Goto, Label
<1>2. StepInv(r)'
  BY <1>1, NoJobType DEF StepInv
<1> QED BY <1>1, <1>2, NoJobType, StepLocal

\* A call arrives: nothing is written yet.
Arrives(r) ==
  \/ \E u \in Users, n \in 0..MaxSeats, w \in WithPoints, guest \in Users \cup {Nobody} :
       Reserve(r, u, n, w, guest)
  \/ CancelSlot(r) \/ FindPast(r)
  \/ \E set \in SUBSET Places : \E passed \in SUBSET set : Evaluate(r, set, passed)
  \/ \E res \in Reservations : Cancel(r, res) \/ Decide(r, res)
  \/ \E p \in Places : \E u \in Users : Join(r, u, p)

\* What can be said of a call on arrival
Arrival(r) ==
  /\ pc[r] = "idle" /\ pc'[r] \notin {"seats", "reward"} /\ Unlocked(job'[r])
  /\ pc'[r] = "join" =>
       \E p \in Places : /\ job'[r].on = {p[1]} /\ job'[r].seats = {p}
                         /\ book[p[1]].status = "ACCEPTED"
  /\ pc'[r] = "row" => job'[r].on \subseteq Booked
  /\ pc'[r] = "insert" =>
       \A p \in job'[r].seats : p[1] \in Booked /\ seats[p].evaluation = "NONE"

LEMMA ArrivalLocal ==
  ASSUME LocalInv, NEW r \in Requests, Arrives(r)
  PROVE  Local(r) /\ UNCHANGED rows /\ calls' \in Nat /\ Arrival(r)
<1>1. ASSUME NEW u \in Users, NEW n \in 0..MaxSeats, NEW w \in WithPoints,
             NEW guest \in Users \cup {Nobody}, Reserve(r, u, n, w, guest)
      PROVE  Local(r) /\ UNCHANGED rows /\ calls' \in Nat /\ Arrival(r)
  <2> DEFINE j == [NoJob EXCEPT !.op = "reserve", !.user = u, !.guest = guest,
                     !.count = n, !.withPoint = w, !.price = opportunity.price,
                     !.requireApproval = opportunity.requireApproval]
  <2>1. /\ opportunity.price \in Nat /\ opportunity.requireApproval \in BOOLEAN /\ w \in Nat
    BY BoundAssumption DEF LocalInv, TypeOK, Opportunity
  <2>2. j \in Job
    BY <2>1, NoJobType DEF Job
  <2>3. Unlocked(j)
    BY DEF NoJob, Unlocked
  <2>4. Start(r, j, "create")
    BY <1>1 DEF Reserve
  <2> HIDE DEF j
  <2>5. /\ Local(r) /\ UNCHANGED rows /\ calls' \in Nat
        /\ pc[r] = "idle" /\ pc'[r] = "create" /\ job'[r] = j
    BY <2>2, <2>3, <2>4, StartLocal
  <2> QED BY <2>3, <2>5 DEF Arrival
<1>2. CASE CancelSlot(r) \/ FindPast(r)
  <2>1. PICK op \in {"slotCancel", "complete"}, label \in {"slot", "complete"} :
          Start(r, [NoJob EXCEPT !.op = op], label) /\ (label = "slot" <=> op = "slotCancel")
    BY <1>2 DEF CancelSlot, FindPast
  <2> DEFINE j == [NoJob EXCEPT !.op = op]
  <2>2. j \in Job /\ j.op = op
    BY NoJobType DEF Job, NoJob
  <2>3. Unlocked(j) /\ Start(r, j, label)
    BY <2>1 DEF NoJob, Unlocked
  <2> HIDE DEF j
  <2>4. /\ Local(r) /\ UNCHANGED rows /\ calls' \in Nat
        /\ pc[r] = "idle" /\ pc'[r] = label /\ job'[r] = j
    BY <2>1, <2>2, <2>3, StartLocal
  <2> QED BY <2>3, <2>4 DEF Arrival
<1>3. ASSUME NEW res \in Reservations, Cancel(r, res) \/ Decide(r, res)
      PROVE  Local(r) /\ UNCHANGED rows /\ calls' \in Nat /\ Arrival(r)
  <2>1. PICK op \in Decisions : Start(r, [NoJob EXCEPT !.op = op, !.on = {res}], "row")
    BY <1>3 DEF Cancel, Decide, Decisions
  <2> DEFINE j == [NoJob EXCEPT !.op = op, !.on = {res}]
  <2>2. j \in Job /\ j.op = op /\ j.on = {res}
    BY NoJobType DEF NoJob, Job, Decisions
  <2>3. Unlocked(j) /\ Start(r, j, "row")
    BY <2>1 DEF NoJob, Unlocked
  <2>4. res \in Booked
    BY <1>3 DEF Cancel, Decide
  <2> HIDE DEF j
  <2>5. /\ Local(r) /\ UNCHANGED rows /\ calls' \in Nat
        /\ pc[r] = "idle" /\ pc'[r] = "row" /\ job'[r] = j
    BY <2>2, <2>3, StartLocal
  <2> QED BY <2>2, <2>3, <2>4, <2>5 DEF Arrival
<1>4. ASSUME NEW p \in Places, NEW u \in Users, Join(r, u, p)
      PROVE  Local(r) /\ UNCHANGED rows /\ calls' \in Nat /\ Arrival(r)
  <2> DEFINE j == [NoJob EXCEPT !.op = "join", !.on = {p[1]}, !.seats = {p}]
  <2>1. p[1] \in Reservations
    BY DEF Places
  <2>2. j \in Job /\ j.on = {p[1]} /\ j.seats = {p}
    BY <2>1, NoJobType DEF NoJob, Job
  <2>3. Unlocked(j) /\ Start(r, j, "join") /\ book[p[1]].status = "ACCEPTED"
    BY <1>4 DEF NoJob, Unlocked, Join, Joinable
  <2> HIDE DEF j
  <2>4. /\ Local(r) /\ UNCHANGED rows /\ calls' \in Nat
        /\ pc[r] = "idle" /\ pc'[r] = "join" /\ job'[r] = j
    BY <2>2, <2>3, StartLocal
  <2> QED BY <2>2, <2>3, <2>4 DEF Arrival
<1>5. ASSUME NEW set \in SUBSET Places, NEW passed \in SUBSET set, Evaluate(r, set, passed)
      PROVE  Local(r) /\ UNCHANGED rows /\ calls' \in Nat /\ Arrival(r)
  <2> DEFINE j == [NoJob EXCEPT !.op = "evaluate", !.seats = set, !.passed = passed]
  <2>1. passed \subseteq Places
    OBVIOUS
  <2>2. j \in Job /\ j.op = "evaluate" /\ j.seats = set
    BY <2>1, NoJobType DEF NoJob, Job
  <2>3. Unlocked(j) /\ Start(r, j, "insert")
    BY <1>5 DEF NoJob, Unlocked, Evaluate
  <2>4. \A p \in set : p[1] \in Booked /\ seats[p].evaluation = "NONE"
    BY <1>5 DEF Evaluate, Evaluatable, SeatsOf
  <2> HIDE DEF j
  <2>5. /\ Local(r) /\ UNCHANGED rows /\ calls' \in Nat
        /\ pc[r] = "idle" /\ pc'[r] = "insert" /\ job'[r] = j
    BY <2>2, <2>3, StartLocal
  <2> QED BY <2>2, <2>3, <2>4, <2>5 DEF Arrival
<1> QED BY <1>1, <1>2, <1>3, <1>4, <1>5 DEF Arrives

\* A call takes its next lock, or goes on to the next rows.
Locks(r) ==
  \/ SetHosting(r) \/ ReadEvaluations(r)
  \/ \E res \in Reservations : SetStatus(r, res) \/ RejectNext(r, res)
  \/ \E p \in Places : LockSeat(r, p) \/ InsertEvaluation(r, p)

\* What stays as it was: the operation, and but for the first step its seats.
Locking(r) ==
  /\ pc[r] \in {"row", "slot", "insert", "seats"} /\ pc'[r] \in {"insert", "seats"}
  /\ job'[r].op = job[r].op
  /\ pc[r] \in {"insert", "seats"} =>
       job'[r].seats = job[r].seats /\ job'[r].on = job[r].on
  /\ pc[r] = "row" => job'[r].on = job[r].on /\ pc'[r] = "seats" /\ job'[r].keys = {}
  /\ pc[r] = "slot" => job'[r].on = Booked /\ pc'[r] = "seats" /\ job'[r].keys = {}
  /\ pc[r] = "seats" => pc'[r] = "seats" /\ job'[r].keys = job[r].keys
  /\ \A res \in job'[r].rows : res \in job[r].rows \/ ~RowLocked(r, res)
  /\ \A p \in job'[r].keys :
       p \in job[r].keys \/ (~KeyLocked(r, p) /\ seats[p].evaluation = "NONE")
  /\ pc[r] = "insert" /\ pc'[r] = "seats" =>
       /\ job'[r].keys = job[r].keys
       /\ \A p \in job[r].seats \ job[r].keys : seats[p].evaluation /= "NONE"

LEMMA SeatsOfType ==
  ASSUME NEW set
  PROVE  SeatsOf(set) \subseteq Places /\ \A p \in SeatsOf(set) : p[1] \in set
  BY DEF SeatsOf

LEMMA LocksLocal ==
  ASSUME LocalInv, NEW r \in Requests, Locks(r)
  PROVE  Local(r) /\ UNCHANGED rows /\ calls' = calls /\ Locking(r)
<1>0. /\ job[r] \in Job /\ pc[r] \in Label /\ Booked \subseteq Reservations /\ StepInv(r)
      /\ pc \in [Requests -> Label] /\ job \in [Requests -> Job]
      /\ opportunity.price \in Nat
  BY BoundAssumption DEF LocalInv, TypeOK, Booked, Opportunity
<1>1. ASSUME NEW res \in Reservations, SetStatus(r, res)
      PROVE  Local(r) /\ UNCHANGED rows /\ calls' = calls /\ Locking(r)
  <2> DEFINE j == [job[r] EXCEPT !.rows = {res}, !.seats = SeatsOf({res}),
                                 !.price = opportunity.price]
  <2>1. SeatsOf({res}) \subseteq Places /\ \A p \in SeatsOf({res}) : p[1] \in {res}
    BY SeatsOfType
  <2>2. /\ j \in Job /\ j.op = job[r].op /\ j.seatRows = job[r].seatRows /\ j.keys = job[r].keys
        /\ j.on = job[r].on /\ j.rows = {res} /\ j.seats = SeatsOf({res})
    BY <1>0, <2>1 DEF Job
  <2>3. /\ job' = [job EXCEPT ![r] = j] /\ Goto(r, "seats") /\ "seats" \in Label
        /\ pc[r] = "row" /\ job[r].on = {res} /\ ~RowLocked(r, res)
        /\ UNCHANGED rows /\ calls' = calls
    BY <1>0, <1>1 DEF SetStatus, Label
  <2>4. job'[r] = j /\ pc'[r] = "seats"
    BY <1>0, <2>3 DEF Goto
  <2> HIDE DEF j
  <2>5. StepInv(r)'
    BY <1>0, <2>1, <2>2, <2>3, <2>4 DEF StepInv
  <2>6. Locking(r)
    BY <1>0, <2>2, <2>3, <2>4 DEF Locking, StepInv
  <2> QED BY <2>2, <2>3, <2>5, <2>6, StepLocal
<1>2. CASE SetHosting(r)
  <2> DEFINE j == [job[r] EXCEPT !.on = Booked, !.seats = SeatsOf(Booked),
                                 !.price = opportunity.price]
  <2>1. SeatsOf(Booked) \subseteq Places
    BY SeatsOfType
  <2>2. /\ j \in Job /\ j.op = job[r].op /\ j.seatRows = job[r].seatRows /\ j.keys = job[r].keys
        /\ j.on = Booked /\ j.rows = job[r].rows
    BY <1>0, <2>1 DEF Job
  <2>3. /\ job' = [job EXCEPT ![r] = j] /\ Goto(r, "seats") /\ "seats" \in Label
        /\ pc[r] = "slot" /\ UNCHANGED rows /\ calls' = calls
    BY <1>0, <1>2 DEF SetHosting, Label
  <2>4. job'[r] = j /\ pc'[r] = "seats"
    BY <1>0, <2>3 DEF Goto
  <2> HIDE DEF j
  <2>5. StepInv(r)'
    BY <1>0, <2>2, <2>3, <2>4 DEF StepInv, Decisions
  <2>6. Locking(r)
    BY <1>0, <2>2, <2>3, <2>4 DEF Locking, StepInv
  <2> QED BY <2>2, <2>3, <2>5, <2>6, StepLocal
<1>3. ASSUME NEW res \in Reservations, RejectNext(r, res)
      PROVE  Local(r) /\ UNCHANGED rows /\ calls' = calls /\ Locking(r)
  <2> DEFINE j == [job[r] EXCEPT !.rows = @ \cup {res}]
  <2>1. job[r].rows \cup {res} \subseteq Reservations
    BY <1>0 DEF Job
  <2>2. /\ j \in Job /\ j.op = job[r].op /\ j.seatRows = job[r].seatRows /\ j.keys = job[r].keys
        /\ j.on = job[r].on /\ j.rows = job[r].rows \cup {res} /\ j.seats = job[r].seats
    BY <1>0, <2>1 DEF Job
  <2>3. /\ job' = [job EXCEPT ![r] = j] /\ Goto(r, "seats") /\ "seats" \in Label
        /\ pc[r] = "seats" /\ job[r].op = "slotCancel" /\ ~RowLocked(r, res)
        /\ UNCHANGED rows /\ calls' = calls
    BY <1>0, <1>3 DEF RejectNext, SeatsWritten, Label, Goto
  <2>4. job'[r] = j /\ pc'[r] = "seats"
    BY <1>0, <2>3 DEF Goto
  <2> HIDE DEF j
  <2>5. StepInv(r)'
    BY <1>0, <2>2, <2>3, <2>4 DEF StepInv, Decisions
  <2>6. Locking(r)
    BY <1>0, <2>2, <2>3, <2>4 DEF Locking
  <2> QED BY <2>2, <2>3, <2>5, <2>6, StepLocal
<1>4. ASSUME NEW p \in Places, LockSeat(r, p)
      PROVE  Local(r) /\ UNCHANGED rows /\ calls' = calls /\ Locking(r)
  <2> DEFINE j == [job[r] EXCEPT !.seatRows = @ \cup {p}]
  <2>1. job[r].seatRows \cup {p} \subseteq Places
    BY <1>0 DEF Job
  <2>2. /\ j \in Job /\ j.op = job[r].op /\ j.seatRows = job[r].seatRows \cup {p}
        /\ j.keys = job[r].keys /\ j.on = job[r].on /\ j.rows = job[r].rows
        /\ j.seats = job[r].seats
    BY <1>0, <2>1 DEF Job
  <2>3. /\ job' = [job EXCEPT ![r] = j] /\ Goto(r, "seats") /\ "seats" \in Label
        /\ pc[r] = "seats" /\ p \in job[r].seats /\ UNCHANGED rows /\ calls' = calls
    BY <1>0, <1>4 DEF LockSeat, Label, Goto
  <2>4. job'[r] = j /\ pc'[r] = "seats"
    BY <1>0, <2>3 DEF Goto
  <2> HIDE DEF j
  <2>5. StepInv(r)'
    BY <1>0, <2>2, <2>3, <2>4 DEF StepInv
  <2>6. Locking(r)
    BY <1>0, <2>2, <2>3, <2>4 DEF Locking
  <2> QED BY <2>2, <2>3, <2>5, <2>6, StepLocal
<1>5. ASSUME NEW p \in Places, InsertEvaluation(r, p)
      PROVE  Local(r) /\ UNCHANGED rows /\ calls' = calls /\ Locking(r)
  <2> DEFINE j == [job[r] EXCEPT !.keys = @ \cup {p}]
  <2>1. job[r].keys \cup {p} \subseteq Places
    BY <1>0 DEF Job
  <2>2. /\ j \in Job /\ j.op = job[r].op /\ j.seatRows = job[r].seatRows
        /\ j.keys = job[r].keys \cup {p} /\ j.on = job[r].on /\ j.rows = job[r].rows
        /\ j.seats = job[r].seats
    BY <1>0, <2>1 DEF Job
  <2>3. /\ job' = [job EXCEPT ![r] = j] /\ Goto(r, "insert") /\ "insert" \in Label
        /\ pc[r] = "insert" /\ p \in job[r].seats /\ UNCHANGED rows /\ calls' = calls
        /\ ~KeyLocked(r, p) /\ seats[p].evaluation = "NONE"
    BY <1>0, <1>5 DEF InsertEvaluation, Label, Goto
  <2>4. job'[r] = j /\ pc'[r] = "insert"
    BY <1>0, <2>3 DEF Goto
  <2> HIDE DEF j
  <2>5. StepInv(r)'
    BY <1>0, <2>2, <2>3, <2>4 DEF StepInv
  <2>6. Locking(r)
    BY <1>0, <2>2, <2>3, <2>4 DEF Locking
  <2> QED BY <2>2, <2>3, <2>5, <2>6, StepLocal
<1>6. CASE ReadEvaluations(r)
  <2>1. /\ job' = [job EXCEPT ![r] = job[r]] /\ Goto(r, "seats") /\ "seats" \in Label
        /\ pc[r] = "insert" /\ job'[r] = job[r] /\ pc'[r] = "seats"
        /\ UNCHANGED rows /\ calls' = calls
        /\ \A p \in job[r].seats \ job[r].keys : seats[p].evaluation /= "NONE"
    BY <1>0, <1>6 DEF ReadEvaluations, Label, Goto
  <2>2. StepInv(r)'
    BY <1>0, <2>1 DEF StepInv, Decisions
  <2>3. Locking(r)
    BY <2>1 DEF Locking
  <2> QED BY <1>0, <2>1, <2>2, <2>3, StepLocal
<1> QED BY <1>1, <1>2, <1>3, <1>4, <1>5, <1>6 DEF Locks

-----------------------------------------------------------------------------
(* What a step does to the rows *)

Notes == SUBSET {"late", "swept", "raced", "repriced"}

RowTypes ==
  /\ period \in Period /\ slot \in Slot /\ opportunity \in Opportunity
  /\ book \in [Reservations -> Booking]
  /\ seats \in [Places -> Seat]
  /\ net \in [Reservations -> Int]
  /\ notes \in [Reservations -> Notes]

Good(r) == Local(r) /\ RowTypes' /\ calls' \in Nat

LEMMA NoSeatType == NoSeat \in Seat /\ NoBooking \in Booking
  BY DEF NoSeat, Seat, SeatStatus, Reason, NoBooking, Booking, Status

LEMMA NewSeatType ==
  ASSUME NEW j \in Job, NEW i \in Positions
  PROVE  /\ NewSeat(j, i) \in Seat /\ NewSeat(j, i).rewards = 0
         /\ NewSeat(j, i).evaluation = "NONE"
<1>1. SeatUser(j, i) \in Users \cup {Nobody}
  BY DEF SeatUser, Job
<1>2. CASE i > j.count
  BY <1>2, NoSeatType DEF NewSeat, NoSeat
<1>3. CASE ~(i > j.count)
  BY <1>1, <1>3, NoSeatType DEF NewSeat, NoSeat, Seat, SeatStatus, Reason
<1> QED BY <1>2, <1>3

LEMMA SeatAfterType ==
  ASSUME NEW op, NEW seat \in Seat
  PROVE  /\ SeatAfter(op, seat) \in Seat
         /\ SeatAfter(op, seat).evaluation = seat.evaluation
         /\ SeatAfter(op, seat).rewards = seat.rewards
         /\ SeatAfter(op, seat).claims = seat.claims
         /\ SeatAfter(op, seat).status = "NONE" <=> seat.status = "NONE"
  BY DEF SeatAfter, Seat, SeatStatus, Reason

LEMMA PlaceParts == \A p \in Places : p[1] \in Reservations /\ p[2] \in Positions
  BY DEF Places

LEMMA ReseatType ==
  ASSUME RowTypes, NEW op, NEW set, Reseat(op, set)
  PROVE  seats' \in [Places -> Seat]
  BY SeatAfterType DEF RowTypes, Reseat

LEMMA RewriteType ==
  ASSUME RowTypes, NEW set, NEW s \in Status, Rewrite(set, s)
  PROVE  book' \in [Reservations -> Booking]
<1> SUFFICES ASSUME NEW res \in Reservations
             PROVE  [book[res] EXCEPT !.status = s, !.history[s] = @ + 1] \in Booking
  BY DEF RowTypes, Rewrite
<1>1. book[res] \in Booking /\ book[res].history \in [Status -> Nat]
  BY DEF RowTypes, Booking
<1>2. [book[res].history EXCEPT ![s] = @ + 1] \in [Status -> Nat]
  BY <1>1
<1> QED BY <1>1, <1>2 DEF Booking

LEMMA Unpack == LocalInv => RowTypes /\ LocalTypes /\ calls \in Nat
  BY DEF LocalInv, TypeOK, RowTypes, LocalTypes, Notes

LEMMA NatProduct == \A a, b \in Nat : a * b \in Nat
  OBVIOUS

LEMMA PointsType ==
  ASSUME RowTypes, LocalTypes, NEW r \in Requests, NEW res \in Reservations
  PROVE  Points(r, res) \in Nat
<1>1. job[r].price \in Nat /\ book[res].withPoint \in Nat
  BY DEF RowTypes, LocalTypes, Job, Booking
<1> QED BY <1>1, NatProduct DEF Points

\* What is written for a new reservation
LEMMA CreateFacts ==
  ASSUME LocalInv, NEW r \in Requests, NEW res \in Reservations, CreateReservation(r, res)
  PROVE  /\ res \notin Booked
         /\ \A x \in Reservations \ {res} :
              book'[x] = book[x] /\ net'[x] = net[x] /\ notes'[x] = notes[x]
         /\ book'[res] \in Booking
         /\ book'[res].status = IF job[r].requireApproval THEN "APPLIED" ELSE "ACCEPTED"
         /\ book'[res].points = net'[res] /\ net'[res] \in Nat
         /\ book'[res].history["CANCELED"] = 0 /\ book'[res].history["REJECTED"] = 0
         /\ notes'[res] \in Notes
         /\ slot.hosting = "CANCELLED" \/ SlotLocked(r) => "late" \in notes'[res]
         /\ \A p \in Places : seats'[p] = IF p[1] = res THEN NewSeat(job[r], p[2]) ELSE seats[p]
         /\ UNCHANGED <<period, slot, opportunity>> /\ Finish(r)
<1>0. RowTypes /\ job[r] \in Job
  BY Unpack DEF LocalTypes
<1> DEFINE s == IF job[r].requireApproval THEN "APPLIED" ELSE "ACCEPTED"
           h == [NoBooking.history EXCEPT ![s] = 1]
           amount == job[r].price * job[r].withPoint
           b == [status |-> s, withPoint |-> job[r].withPoint, points |-> amount, history |-> h]
<1>1. /\ book' = [book EXCEPT ![res] = b] /\ net' = [net EXCEPT ![res] = amount]
      /\ UNCHANGED <<period, slot, opportunity>> /\ Finish(r)
      /\ Booked = 1..(res - 1)
      /\ \A p \in Places : seats'[p] = IF p[1] = res THEN NewSeat(job[r], p[2]) ELSE seats[p]
  BY DEF CreateReservation
<1>2. s \in Status /\ job[r].withPoint \in Nat /\ job[r].price \in Nat
  BY <1>0 DEF Job, Status
<1>3. h \in [Status -> Nat] /\ h["CANCELED"] = 0 /\ h["REJECTED"] = 0
  BY <1>2 DEF NoBooking, Status
<1>4. amount \in Nat
  BY <1>2, NatProduct
<1> HIDE DEF h, amount
<1>5. b \in Booking /\ b.status = s /\ b.points = amount /\ b.history = h
  BY <1>2, <1>3, <1>4 DEF Booking
<1> HIDE DEF b, s
<1>6. book'[res] = b /\ net'[res] = amount
  BY <1>0, <1>1 DEF RowTypes
<1>7. \A x \in Reservations \ {res} : book'[x] = book[x] /\ net'[x] = net[x]
  BY <1>0, <1>1 DEF RowTypes
<1>8. /\ \A x \in Reservations \ {res} : notes'[x] = notes[x]
      /\ notes'[res] \in Notes
      /\ slot.hosting = "CANCELLED" \/ SlotLocked(r) => "late" \in notes'[res]
  BY <1>0 DEF CreateReservation, RowTypes, Notes
<1>9. res \notin Booked
  BY <1>1, BoundAssumption DEF Reservations
<1> QED BY <1>1, <1>3, <1>4, <1>5, <1>6, <1>7, <1>8, <1>9 DEF s

LEMMA CreateGood ==
  ASSUME LocalInv, NEW r \in Requests, NEW res \in Reservations, CreateReservation(r, res)
  PROVE  Good(r)
<1>0. RowTypes /\ job[r] \in Job
  BY Unpack DEF LocalTypes
<1>1. Local(r) /\ calls' = calls
  BY FinishLocal DEF CreateReservation
<1>2. book' \in [Reservations -> Booking] /\ net' \in [Reservations -> Int]
  <2>1. /\ book' = [x \in Reservations |-> book'[x]] /\ net' = [x \in Reservations |-> net'[x]]
    BY <1>0 DEF CreateReservation, RowTypes
  <2>2. \A x \in Reservations : book'[x] \in Booking /\ net'[x] \in Int
    BY <1>0, CreateFacts DEF RowTypes
  <2> QED BY <2>1, <2>2
<1>3. seats' \in [Places -> Seat]
  <2>1. \A p \in Places : NewSeat(job[r], p[2]) \in Seat
    BY <1>0, PlaceParts, NewSeatType
  <2> QED BY <1>0, <2>1 DEF CreateReservation, RowTypes
<1>4. notes' \in [Reservations -> Notes]
  BY <1>0 DEF CreateReservation, RowTypes, Notes
<1> QED BY <1>0, <1>1, <1>2, <1>3, <1>4, Unpack DEF Good, RowTypes, CreateReservation

LEMMA CommitStatusGood ==
  ASSUME LocalInv, NEW r \in Requests, NEW res \in Reservations, CommitStatus(r, res)
  PROVE  Good(r)
<1>0. RowTypes /\ LocalTypes
  BY Unpack
<1>1. Local(r) /\ calls' = calls
  BY FinishLocal DEF CommitStatus
<1>2. NewStatus(job[r].op) \in Status
  BY DEF NewStatus, Status
<1>3. book' \in [Reservations -> Booking] /\ seats' \in [Places -> Seat]
  BY <1>0, <1>2, RewriteType, ReseatType DEF CommitStatus
<1>4. Refund(r, res) \in Int
  BY <1>0, PointsType DEF Refund
<1>5. net' \in [Reservations -> Int]
  BY <1>0, <1>4 DEF CommitStatus, RowTypes
<1>6. notes' \in [Reservations -> Notes]
  BY <1>0 DEF CommitStatus, RowTypes, Notes
<1> QED BY <1>0, <1>1, <1>3, <1>5, <1>6, Unpack DEF Good, RowTypes, CommitStatus

LEMMA CommitSlotCancelGood ==
  ASSUME LocalInv, NEW r \in Requests, CommitSlotCancel(r)
  PROVE  Good(r)
<1>0. RowTypes /\ LocalTypes
  BY Unpack
<1>1. Local(r) /\ calls' = calls
  BY FinishLocal DEF CommitSlotCancel
<1>2. book' \in [Reservations -> Booking] /\ seats' \in [Places -> Seat]
  BY <1>0, RewriteType, ReseatType DEF CommitSlotCancel, Status
<1>3. net' \in [Reservations -> Int]
  BY <1>0, PointsType DEF CommitSlotCancel, RowTypes
<1>4. notes' \in [Reservations -> Notes]
  BY <1>0 DEF CommitSlotCancel, RowTypes, Notes
<1>5. slot' \in Slot
  BY <1>0 DEF CommitSlotCancel, RowTypes, Slot, Hosting
<1> QED BY <1>0, <1>1, <1>2, <1>3, <1>4, <1>5, Unpack DEF Good, RowTypes, CommitSlotCancel

\* A seat is joined.
LEMMA JoinSeatFacts ==
  ASSUME LocalInv, NEW r \in Requests, NEW p \in Places, JoinSeat(r, p)
  PROVE  /\ Good(r) /\ pc'[r] = "idle" /\ job'[r] = NoJob
         /\ UNCHANGED <<period, slot, opportunity, book, net, notes>>
         /\ \A x \in Places \ {p} : seats'[x] = seats[x]
         /\ seats'[p] = [seats[p] EXCEPT !.status = "PARTICIPATING",
                                         !.reason = "RESERVATION_JOINED"]
<1>0. RowTypes /\ calls \in Nat
  BY Unpack
<1>1. [seats[p] EXCEPT !.status = "PARTICIPATING", !.reason = "RESERVATION_JOINED"] \in Seat
  BY <1>0 DEF RowTypes, Seat, SeatStatus, Reason
<1>2. Local(r) /\ calls' = calls /\ pc'[r] = "idle" /\ job'[r] = NoJob
  BY FinishLocal DEF JoinSeat
<1> QED BY <1>0, <1>1, <1>2 DEF Good, RowTypes, JoinSeat

\* What an evaluation writes to its seats
Evaluated(r, p) ==
  [seats[p] EXCEPT !.status = "PARTICIPATED", !.reason = "RESERVATION_ACCEPTED",
     !.evaluation = Verdict(r, p),
     !.claims = IF p \in job[r].keys THEN Cardinality(Claims(p)) ELSE @]

LEMMA ClaimsFinite ==
  ASSUME NEW p
  PROVE  IsFiniteSet(Claims(p)) /\ Cardinality(Claims(p)) \in Nat
<1>1. Claims(p) \subseteq Requests
  BY DEF Claims
<1> QED BY <1>1, RequestAssumption, FS_Subset, FS_CardinalityType

LEMMA EvaluateFacts ==
  ASSUME LocalInv, NEW r \in Requests, CommitEvaluations(r)
  PROVE  /\ Good(r) /\ pc[r] = "seats" /\ job[r].op = "evaluate"
         /\ UNCHANGED <<period, slot, opportunity, book, net, notes>>
         /\ \A p \in Places : seats'[p] = IF p \in job[r].seats THEN Evaluated(r, p) ELSE seats[p]
         /\ \/ pc'[r] = "idle" /\ job'[r] = NoJob
            \/ /\ pc'[r] = "reward" /\ job'[r].seats \subseteq job[r].seats
               /\ job'[r].keys = {} /\ job'[r].rows = {}
               /\ \A p \in job'[r].seats : Verdict(r, p) = "PASSED"
<1>0. RowTypes /\ LocalTypes /\ calls \in Nat /\ job[r] \in Job
  BY Unpack DEF LocalTypes
<1>1. /\ \A p \in Places : seats'[p] = IF p \in job[r].seats THEN Evaluated(r, p) ELSE seats[p]
      /\ seats' = [p \in Places |-> seats'[p]]
      /\ UNCHANGED <<period, slot, opportunity, book, net, notes>>
      /\ pc[r] = "seats" /\ job[r].op = "evaluate"
  BY DEF CommitEvaluations, SeatsWritten, Evaluated
<1>2. ASSUME NEW p \in Places PROVE Evaluated(r, p) \in Seat
  <2>1. seats[p] \in Seat /\ Verdict(r, p) \in {"NONE", "PASSED", "FAILED"}
    BY <1>0 DEF RowTypes, Seat, Verdict
  <2> QED BY <2>1, ClaimsFinite DEF Evaluated, Seat, SeatStatus, Reason
<1>3. RowTypes'
  BY <1>0, <1>1, <1>2 DEF RowTypes
<1> DEFINE due == {p \in job[r].seats : Verdict(r, p) = "PASSED" /\ seats[p].user /= Nobody}
           j == [NoJob EXCEPT !.op = "evaluate", !.seats = due]
<1>4. CASE Finish(r)
  BY <1>0, <1>1, <1>3, <1>4, FinishLocal DEF Good
<1>5. CASE job' = [job EXCEPT ![r] = j] /\ Goto(r, "reward") /\ UNCHANGED calls
  <2>1. due \subseteq Places /\ due \subseteq job[r].seats
        /\ \A p \in due : Verdict(r, p) = "PASSED"
    BY <1>0 DEF Job
  <2> HIDE DEF due
  <2>2. /\ j \in Job /\ j.seats = due /\ j.op = "evaluate"
        /\ j.keys = {} /\ j.rows = {} /\ j.seatRows = {}
    BY <2>1, NoJobType DEF Job, NoJob
  <2> HIDE DEF j
  <2>3. job'[r] = j /\ pc'[r] = "reward" /\ "reward" \in Label
    BY <1>0, <1>5 DEF Goto, LocalTypes, Label
  <2>4. StepInv(r)'
    BY <2>2, <2>3 DEF StepInv
  <2>5. Local(r)
    BY <1>5, <2>2, <2>3, <2>4, StepLocal
  <2> QED BY <1>0, <1>1, <1>3, <1>5, <2>1, <2>2, <2>3, <2>5 DEF Good
<1> QED BY <1>4, <1>5 DEF CommitEvaluations

\* A seat is rewarded, or not.
LEMMA RewardFacts ==
  ASSUME LocalInv, NEW r \in Requests, NEW p \in Places, Reward(r, p)
  PROVE  /\ Good(r) /\ pc[r] = "reward" /\ p \in job[r].seats
         /\ UNCHANGED <<period, slot, opportunity, book, net, notes>>
         /\ \A x \in Places \ {p} : seats'[x] = seats[x]
         /\ \E paid \in {0, 1} : seats'[p] = [seats[p] EXCEPT !.rewards = @ + paid]
         /\ \/ pc'[r] = "idle" /\ job'[r] = NoJob
            \/ /\ pc'[r] = "reward" /\ job'[r].seats = job[r].seats \ {p}
               /\ job'[r].keys = {} /\ job'[r].rows = {}
<1>0. RowTypes /\ LocalTypes /\ calls \in Nat /\ job[r] \in Job /\ StepInv(r)
  BY Unpack DEF LocalTypes, LocalInv
<1>1. PICK paid \in {0, 1} : seats' = [seats EXCEPT ![p].rewards = @ + paid]
  BY DEF Reward
<1>2. /\ seats' \in [Places -> Seat] /\ seats'[p] = [seats[p] EXCEPT !.rewards = @ + paid]
      /\ \A x \in Places \ {p} : seats'[x] = seats[x]
  BY <1>0, <1>1 DEF RowTypes, Seat
<1>3. RowTypes' /\ UNCHANGED <<period, slot, opportunity, book, net, notes>>
      /\ pc[r] = "reward" /\ p \in job[r].seats
  BY <1>0, <1>2 DEF Reward, RowTypes
<1>4. CASE Finish(r)
  BY <1>0, <1>2, <1>3, <1>4, FinishLocal DEF Good
<1>5. CASE job' = [job EXCEPT ![r].seats = @ \ {p}] /\ UNCHANGED <<calls, pc>>
  <2> DEFINE j == [job[r] EXCEPT !.seats = @ \ {p}]
  <2>1. job[r].seats \ {p} \subseteq Places
    BY <1>0 DEF Job
  <2>2. /\ j \in Job /\ j.seats = job[r].seats \ {p} /\ j.op = job[r].op
        /\ j.keys = job[r].keys /\ j.rows = job[r].rows /\ j.seatRows = job[r].seatRows
    BY <1>0, <2>1 DEF Job
  <2>3. job' = [job EXCEPT ![r] = j] /\ job'[r] = j
    BY <1>0, <1>5 DEF LocalTypes
  <2> HIDE DEF j
  <2>4. pc'[r] = "reward" /\ Goto(r, "reward") /\ "reward" \in Label
    BY <1>0, <1>3, <1>5 DEF Goto, LocalTypes, Label
  <2>5. StepInv(r)'
    BY <1>0, <1>3, <2>2, <2>3, <2>4 DEF StepInv
  <2>6. Local(r)
    BY <2>2, <2>3, <2>4, <2>5, StepLocal
  <2> QED BY <1>0, <1>2, <1>3, <1>5, <2>2, <2>3, <2>4, <2>6 DEF Good, StepInv
<1> QED BY <1>4, <1>5 DEF Reward

\* The slot or its opportunity is edited, or a call ends without a commit.
Idles(r) == \/ \E h \in Hosting, c \in Capacities, p \in Period : EditSlot(r, h, c, p)
            \/ \E o \in Opportunity : EditOpportunity(r, o)
            \/ CompleteSlot(r) \/ Fail(r)

\* What they do to the notes: only the price can be one.
NotesGrow ==
  /\ notes' \in [Reservations -> Notes]
  /\ \A res \in Reservations :
       notes'[res] = notes[res] \/ notes'[res] = notes[res] \cup {"repriced"}

LEMMA IdlesGood ==
  ASSUME LocalInv, NEW r \in Requests, Idles(r)
  PROVE  /\ Good(r) /\ UNCHANGED <<book, seats, net>> /\ NotesGrow
         /\ \/ pc'[r] = "idle" /\ job'[r] = NoJob
            \/ pc'[r] = pc[r] /\ job'[r] = job[r]
         /\ slot'.hosting = "CANCELLED" => slot.hosting = "CANCELLED"
<1>0. RowTypes /\ LocalTypes /\ calls \in Nat
  BY Unpack
<1>1. ASSUME NEW h \in Hosting, NEW c \in Capacities, NEW p \in Period, EditSlot(r, h, c, p)
      PROVE  /\ RowTypes' /\ UNCHANGED <<pc, job, book, seats, net>> /\ NotesGrow /\ calls' \in Nat
             /\ slot'.hosting = "CANCELLED" => slot.hosting = "CANCELLED"
  <2>1. slot' \in Slot /\ (slot'.hosting = "CANCELLED" => slot.hosting = "CANCELLED")
    BY <1>0, <1>1 DEF RowTypes, EditSlot, Slot
  <2> QED BY <1>0, <1>1, <2>1 DEF EditSlot, RowTypes, NotesGrow
<1>2. ASSUME NEW o \in Opportunity, EditOpportunity(r, o)
      PROVE  /\ RowTypes' /\ UNCHANGED <<pc, job, book, seats, net, slot>> /\ NotesGrow
             /\ calls' \in Nat
  BY <1>0, <1>2 DEF EditOpportunity, RowTypes, NotesGrow, Notes
<1>3. ASSUME UNCHANGED <<pc, job>> PROVE Local(r) /\ pc'[r] = pc[r] /\ job'[r] = job[r]
  BY <1>0, <1>3 DEF Local, LocalTypes, Alone, LocalInv, StepInv
<1>4. CASE CompleteSlot(r)
  <2>1. RowTypes' /\ UNCHANGED <<book, seats, net, notes>> /\ slot'.hosting /= "CANCELLED"
    BY <1>0, <1>4 DEF RowTypes, CompleteSlot, Slot, Hosting
  <2> QED BY <1>0, <1>4, <2>1, FinishLocal DEF Good, CompleteSlot, NotesGrow, RowTypes
<1>5. CASE Fail(r)
  <2>1. RowTypes' /\ UNCHANGED <<book, seats, net, notes, slot>>
    BY <1>0, <1>5 DEF RowTypes, Fail, rows
  <2> QED BY <1>0, <1>5, <2>1, FinishLocal DEF Good, Fail, NotesGrow, RowTypes
<1> QED BY <1>1, <1>2, <1>3, <1>4, <1>5 DEF Idles, Good

\* The steps that leave reservations and seats alone
Waits(r) == Arrives(r) \/ Locks(r) \/ Idles(r)

\* What becomes of r: it ends, or goes on as it was, or has just arrived, or locks.
Onward(r) ==
  \/ pc'[r] = "idle" /\ job'[r] = NoJob
  \/ pc'[r] = pc[r] /\ job'[r] = job[r]
  \/ Arrival(r) \/ Locking(r)

LEMMA WaitsFacts ==
  ASSUME LocalInv, NEW r \in Requests, Waits(r)
  PROVE  /\ Good(r) /\ UNCHANGED <<book, seats, net>> /\ NotesGrow /\ Onward(r)
         /\ slot'.hosting = "CANCELLED" => slot.hosting = "CANCELLED"
<1>1. RowTypes /\ calls \in Nat
  BY Unpack
<1>2. ASSUME UNCHANGED rows
      PROVE  /\ RowTypes' /\ UNCHANGED <<book, seats, net, slot>> /\ NotesGrow
  BY <1>1, <1>2 DEF RowTypes, rows, NotesGrow
<1> QED BY <1>1, <1>2, ArrivalLocal, LocksLocal, IdlesGood DEF Waits, Good, Onward

LEMMA NextCases ==
  ASSUME Next
  PROVE  \/ Tick
         \/ \E r \in Requests :
              \/ Waits(r) \/ CommitSlotCancel(r) \/ CommitEvaluations(r)
              \/ \E res \in Reservations : CreateReservation(r, res) \/ CommitStatus(r, res)
              \/ \E p \in Places : JoinSeat(r, p) \/ Reward(r, p)
<1>1. CASE Tick
  BY <1>1
<1>2. ASSUME NEW r \in Requests,
             \/ \E u \in Users, n \in 0..MaxSeats, w \in WithPoints, guest \in Users \cup {Nobody} :
                  Reserve(r, u, n, w, guest)
             \/ CancelSlot(r) \/ FindPast(r)
             \/ \E set \in SUBSET Places : \E passed \in SUBSET set : Evaluate(r, set, passed)
             \/ \E res \in Reservations : Cancel(r, res) \/ Decide(r, res)
             \/ \E p \in Places, u \in Users : Join(r, u, p)
      PROVE  Waits(r)
  BY <1>2 DEF Waits, Arrives
<1>3. ASSUME NEW r \in Requests,
             \/ \E h \in Hosting, c \in Capacities, p \in Period : EditSlot(r, h, c, p)
             \/ \E o \in Opportunity : EditOpportunity(r, o)
             \/ CompleteSlot(r) \/ Fail(r)
      PROVE  Waits(r)
  BY <1>3 DEF Waits, Idles
<1>4. ASSUME NEW r \in Requests,
             \/ SetHosting(r) \/ ReadEvaluations(r)
             \/ \E res \in Reservations : SetStatus(r, res) \/ RejectNext(r, res)
             \/ \E p \in Places : LockSeat(r, p) \/ InsertEvaluation(r, p)
      PROVE  Waits(r)
  BY <1>4 DEF Waits, Locks
<1> QED BY ZenonT(60), <1>1, <1>2, <1>3, <1>4 DEF Next

-----------------------------------------------------------------------------
(* Types and locks *)

LEMMA InitLocal == Init => LocalInv
<1> SUFFICES ASSUME Init PROVE LocalInv
  OBVIOUS
<1>1. slot \in Slot /\ period \in Period
  BY DEF Init, Slot, Hosting, Period
<1>2. TypeOK
  BY <1>1, NoSeatType, NoJobType DEF Init, TypeOK, Label
<1>3. \A r \in Requests : StepInv(r)
  BY NoJobType DEF Init, StepInv
<1> QED BY <1>2, <1>3 DEF LocalInv

LEMMA NextLocal == LocalInv /\ [Next]_vars => LocalInv'
<1> SUFFICES ASSUME LocalInv, [Next]_vars PROVE LocalInv'
  OBVIOUS
<1>0. RowTypes /\ LocalTypes /\ calls \in Nat
  BY Unpack
<1>1. ASSUME NEW r \in Requests, Good(r) PROVE LocalInv'
  BY <1>1 DEF Good, Local, LocalTypes, RowTypes, LocalInv, TypeOK, Notes
<1>2. CASE Tick
  BY <1>0, <1>2 DEF Tick, LocalInv, TypeOK, Period, StepInv
<1>3. CASE UNCHANGED vars
  BY <1>3 DEF vars, LocalInv, TypeOK, StepInv
<1> QED BY <1>1, <1>2, <1>3, NextCases, WaitsFacts, CreateGood, CommitStatusGood,
           CommitSlotCancelGood, JoinSeatFacts, EvaluateFacts, RewardFacts

LEMMA SpecLocal == Spec => []LocalInv
  BY InitLocal, NextLocal, PTL DEF Spec

\* Every variable holds a value of its kind, in every instance.
THEOREM TypeCorrect == Spec => []TypeOK
<1>1. LocalInv => TypeOK
  BY DEF LocalInv
<1> QED BY <1>1, SpecLocal, PTL

\* No two calls hold the same reservation or the key of the same evaluation.
Exclusive == \A r, q \in Requests :
  r /= q => job[r].rows \cap job[q].rows = {} /\ job[r].keys \cap job[q].keys = {}

\* A step of r locks only what is free.
LEMMA StepExclusive ==
  ASSUME Exclusive, NEW r \in Requests, Alone(r),
         \A res \in job'[r].rows : res \in job[r].rows \/ ~RowLocked(r, res),
         \A p \in job'[r].keys : p \in job[r].keys \/ ~KeyLocked(r, p)
  PROVE  Exclusive'
<1>1. \A q \in Requests \ {r} : job'[q] = job[q]
  BY DEF Alone
<1>2. \A q \in Requests \ {r} :
        job'[r].rows \cap job[q].rows = {} /\ job'[r].keys \cap job[q].keys = {}
  BY DEF Exclusive, RowLocked, KeyLocked
<1> QED BY <1>1, <1>2 DEF Exclusive

LEMMA SpecExclusive == Spec => []Exclusive
<1>1. Init => Exclusive
  BY NoJobType DEF Init, Exclusive
<1>2. LocalInv /\ Exclusive /\ [Next]_vars => Exclusive'
  <2> SUFFICES ASSUME LocalInv, Exclusive, [Next]_vars PROVE Exclusive'
    OBVIOUS
  <2>1. CASE Tick \/ UNCHANGED vars
    BY <2>1 DEF Tick, vars, Exclusive
  <2>2. ASSUME NEW r \in Requests, Waits(r) PROVE Exclusive'
    <3>1. Alone(r) /\ Onward(r)
      BY <2>2, WaitsFacts DEF Good, Local
    <3> QED BY <3>1, StepExclusive, NoJobType DEF Onward, Arrival, Locking, Unlocked
  <2>3. ASSUME NEW r \in Requests, Alone(r), job'[r].rows = {}, job'[r].keys = {}
        PROVE  Exclusive'
    BY <2>3, StepExclusive
  <2>4. ASSUME NEW r \in Requests,
               \/ CommitSlotCancel(r)
               \/ \E res \in Reservations : CreateReservation(r, res) \/ CommitStatus(r, res)
        PROVE  Exclusive'
    <3>1. Local(r) /\ job'[r] = NoJob
      BY <2>4, FinishLocal DEF CommitSlotCancel, CreateReservation, CommitStatus
    <3> QED BY <2>3, <3>1, NoJobType DEF Local
  <2>5. ASSUME NEW r \in Requests,
               CommitEvaluations(r) \/ \E p \in Places : JoinSeat(r, p) \/ Reward(r, p)
        PROVE  Exclusive'
    <3>1. Alone(r) /\ job'[r].rows = {} /\ job'[r].keys = {}
      BY <2>5, EvaluateFacts, JoinSeatFacts, RewardFacts, NoJobType DEF Good, Local
    <3> QED BY <2>3, <3>1
  <2> QED BY <2>1, <2>2, <2>4, <2>5, NextCases
<1> QED BY <1>1, <1>2, SpecLocal, PTL DEF Spec

\* A call that has locked all it needs waits for nobody.
LEMMA SingleWaits ==
  ASSUME LocalInv, NEW r \in Requests, ~Bulk(r), job[r].op = "evaluate",
         job[r].seatRows /= {} \/ job[r].keys /= {}, NEW q \in Requests
  PROVE  ~(WaitsFor(r, q) /\ pc[r] = "seats" /\ job[r].seatRows /= {})
         /\ ~(WaitsFor(r, q) /\ pc[r] = "insert")
<1>1. StepInv(r)
  BY DEF LocalInv
<1>2. \A p, x \in job[r].seats : p = x
  BY DEF Bulk
<1>3. job[r].seatRows /= {} => job[r].seats \ job[r].seatRows = {}
  BY <1>1, <1>2 DEF StepInv
<1>4. job[r].keys /= {} => job[r].seats \ job[r].keys = {}
  BY <1>1, <1>2 DEF StepInv
<1>5. pc[r] = "insert" => job[r].seatRows = {}
  BY <1>1 DEF StepInv
<1> QED BY <1>3, <1>4, <1>5 DEF WaitsFor

\* In a circle, calls that are not bulk do not wait for seats: who holds one and is not
\* bulk either has decided on the same reservation, or waits for nothing.
LEMMA NobodyAtSeats ==
  ASSUME LocalInv, Exclusive, NEW set \in SUBSET Requests, Stuck(set),
         \A r \in set : ~Bulk(r), NEW r \in set
  PROVE  pc[r] /= "seats"
<1> SUFFICES ASSUME pc[r] = "seats" PROVE FALSE
  OBVIOUS
<1>1. PICK q \in set : WaitsFor(r, q)
  BY DEF Stuck
<1>2. /\ r \in Requests /\ q \in Requests /\ r /= q /\ StepInv(r) /\ StepInv(q)
      /\ job[r].op /= "slotCancel" /\ job[q].op /= "slotCancel"
  BY <1>1 DEF LocalInv, WaitsFor, Bulk
<1>3. PICK p \in job[q].seatRows : p \in job[r].seats \ job[r].seatRows
  BY <1>1, <1>2 DEF WaitsFor
<1>4. pc[q] = "seats" /\ p \in job[q].seats
  BY <1>2, <1>3 DEF StepInv
<1>5. PICK x \in set : WaitsFor(q, x)
  BY DEF Stuck
<1>6. job[q].op /= "evaluate"
  BY <1>2, <1>3, <1>4, <1>5, SingleWaits
<1>7. job[q].op \in Decisions /\ p[1] \in job[q].rows
  BY <1>2, <1>4, <1>6 DEF StepInv
<1>8. CASE job[r].op \in Decisions
  <2>1. p[1] \in job[r].rows
    BY <1>2, <1>3, <1>8 DEF StepInv
  <2> QED BY <1>2, <1>7, <2>1 DEF Exclusive
<1>9. CASE job[r].op = "evaluate"
  \* Then q waits as well, for a call that holds a seat of the same reservation.
  <2>1. q /= x /\ x \in Requests /\ StepInv(x) /\ job[x].op /= "slotCancel"
    BY <1>5 DEF LocalInv, WaitsFor, Bulk
  <2>2. PICK y \in job[x].seatRows : y \in job[q].seats \ job[q].seatRows
    BY <1>2, <1>4, <1>5 DEF WaitsFor
  <2>3. pc[x] = "seats" /\ y \in job[x].seats
    BY <2>1, <2>2 DEF StepInv
  <2>4. PICK z \in set : WaitsFor(x, z)
    BY DEF Stuck
  <2>5. job[x].op /= "evaluate"
    BY <2>1, <2>2, <2>3, <2>4, SingleWaits
  <2>6. y[1] \in job[x].rows /\ y[1] \in job[q].rows
    BY <1>2, <1>4, <1>7, <2>1, <2>2, <2>3, <2>5 DEF StepInv
  <2> QED BY <1>2, <2>1, <2>6 DEF Exclusive
<1> QED BY <1>2, <1>8, <1>9 DEF StepInv

\* Calls wait for each other only if one of them cancels the slot or evaluates several
\* seats: the others take a reservation, then its seats, or a single row.
THEOREM DeadlockNeedsBulkAlways == Spec => []DeadlockNeedsBulk
<1>1. ASSUME LocalInv, Exclusive PROVE DeadlockNeedsBulk
  <2> SUFFICES ASSUME NEW set \in SUBSET Requests, Stuck(set), \A r \in set : ~Bulk(r)
               PROVE  FALSE
    BY DEF DeadlockNeedsBulk
  <2>1. \A r \in set : pc[r] /= "seats" /\ r \in Requests /\ StepInv(r)
    BY <1>1, NobodyAtSeats DEF LocalInv
  <2>2. PICK r \in set : TRUE
    BY DEF Stuck
  <2>3. PICK q \in set : WaitsFor(r, q)
    BY DEF Stuck
  <2>4. job[q].rows = {} /\ job[q].seatRows = {} /\ ~HoldsSlot(q)
    BY <2>1 DEF StepInv, HoldsSlot
  <2>5. job[q].keys /= {}
    BY <2>1, <2>3, <2>4 DEF WaitsFor
  <2>6. pc[q] = "insert" /\ job[q].op = "evaluate"
    BY <2>1, <2>5 DEF StepInv
  <2>7. PICK x \in set : WaitsFor(q, x)
    BY DEF Stuck
  <2> QED BY <1>1, <2>1, <2>5, <2>6, <2>7, SingleWaits
<1> QED BY <1>1, SpecLocal, SpecExclusive, PTL

-----------------------------------------------------------------------------
(* Reservations stay, and what is decided on exists *)

LEMMA RewriteStays ==
  ASSUME RowTypes, NEW set, NEW s \in Status, Rewrite(set, s)
  PROVE  /\ Booked \subseteq Booked'
         /\ \A res \in Reservations \ set : book'[res] = book[res]
         /\ \A res \in set \cap Reservations : book'[res].status = s
<1>1. \A res \in Reservations \ set : book'[res] = book[res]
  BY DEF Rewrite
<1>2. \A res \in set \cap Reservations : book'[res].status = s
  BY DEF RowTypes, Rewrite, Booking
<1>3. s /= "NONE"
  BY DEF Status
<1> QED BY <1>1, <1>2, <1>3 DEF Booked

LEMMA BookedStays ==
  ASSUME LocalInv, [Next]_vars
  PROVE  Booked \subseteq Booked'
<1>0. RowTypes
  BY Unpack
<1>1. ASSUME NEW r \in Requests, NEW res \in Reservations, CreateReservation(r, res)
      PROVE  Booked \subseteq Booked'
  BY <1>1, CreateFacts DEF Booked
<1>2. ASSUME NEW r \in Requests, NEW res \in Reservations, CommitStatus(r, res)
      PROVE  Booked \subseteq Booked'
  <2>1. NewStatus(job[r].op) \in Status
    BY DEF NewStatus, Status
  <2> QED BY <1>0, <1>2, <2>1, RewriteStays DEF CommitStatus
<1>3. ASSUME NEW r \in Requests, CommitSlotCancel(r) PROVE Booked \subseteq Booked'
  BY <1>0, <1>3, RewriteStays DEF CommitSlotCancel, Status
<1>4. ASSUME NEW r \in Requests, Waits(r) PROVE Booked \subseteq Booked'
  BY <1>4, WaitsFacts DEF Booked
<1>5. ASSUME NEW r \in Requests,
             CommitEvaluations(r) \/ \E p \in Places : JoinSeat(r, p) \/ Reward(r, p)
      PROVE  Booked \subseteq Booked'
  BY <1>5 DEF JoinSeat, CommitEvaluations, Reward, Booked
<1>6. CASE Tick \/ UNCHANGED vars
  BY <1>6 DEF Tick, vars, Booked
<1> QED BY <1>1, <1>2, <1>3, <1>4, <1>5, <1>6, NextCases

DecidesBooked == \A r \in Requests :
  pc[r] \in {"row", "seats"} /\ job[r].op /= "evaluate" => job[r].on \subseteq Booked

LEMMA SpecDecides == Spec => []DecidesBooked
<1>1. Init => DecidesBooked
  BY DEF Init, DecidesBooked
<1>2. LocalInv /\ DecidesBooked /\ [Next]_vars => DecidesBooked'
  <2> SUFFICES ASSUME LocalInv, DecidesBooked, [Next]_vars PROVE DecidesBooked'
    OBVIOUS
  <2>0. Booked \subseteq Booked'
    BY BookedStays
  <2>1. CASE Tick \/ UNCHANGED vars
    BY <2>0, <2>1 DEF Tick, vars, DecidesBooked
  <2>2. ASSUME NEW r \in Requests, Alone(r),
               pc'[r] \in {"row", "seats"} /\ job'[r].op /= "evaluate" => job'[r].on \subseteq Booked
        PROVE  DecidesBooked'
    BY <2>0, <2>2 DEF Alone, DecidesBooked
  <2>3. ASSUME NEW r \in Requests,
               \/ CommitSlotCancel(r)
               \/ \E res \in Reservations : CreateReservation(r, res) \/ CommitStatus(r, res)
        PROVE  DecidesBooked'
    <3>1. Local(r) /\ pc'[r] = "idle"
      BY <2>3, FinishLocal DEF CommitSlotCancel, CreateReservation, CommitStatus
    <3> QED BY <2>2, <3>1 DEF Local
  <2>4. ASSUME NEW r \in Requests,
               CommitEvaluations(r) \/ \E p \in Places : JoinSeat(r, p) \/ Reward(r, p)
        PROVE  DecidesBooked'
    <3>1. Alone(r) /\ pc'[r] \in {"idle", "reward"}
      BY <2>4, EvaluateFacts, JoinSeatFacts, RewardFacts DEF Good, Local
    <3> QED BY <2>2, <3>1
  <2>5. ASSUME NEW r \in Requests, Waits(r) PROVE DecidesBooked'
    <3>1. Alone(r) /\ Onward(r) /\ StepInv(r)
      BY <2>5, WaitsFacts DEF Good, Local, LocalInv
    <3>2. CASE Locking(r)
      <4>1. pc[r] \in {"row", "seats"} /\ job'[r].op /= "evaluate" => job'[r].on \subseteq Booked
        BY <3>2 DEF Locking, DecidesBooked
      <4>2. pc[r] = "slot" \/ (pc[r] = "insert" /\ job'[r].op = "evaluate") \/ pc[r] \in {"row", "seats"}
        BY <3>1, <3>2 DEF Locking, StepInv
      <4> QED BY <2>2, <3>1, <3>2, <4>1, <4>2 DEF Locking
    <3>3. CASE ~Locking(r)
      BY <2>2, <3>1, <3>3 DEF Onward, Arrival, DecidesBooked
    <3> QED BY <3>2, <3>3
  <2> QED BY <2>1, <2>3, <2>4, <2>5, NextCases
<1> QED BY <1>1, <1>2, SpecLocal, PTL DEF Spec

-----------------------------------------------------------------------------
(* Rewards *)

\* q has evaluated p, is about to, or is about to reward it.
Pays(q, p) == (Evaluating(q) \/ pc[q] = "reward") /\ p \in job[q].seats
Payers(p) == {q \in Requests : Pays(q, p)}

\* What a call knows of a seat's evaluation
Knows(q, p) ==
  /\ pc[q] = "reward" /\ p \in job[q].seats => seats[p].evaluation = "PASSED"
  /\ p \in job[q].keys => seats[p].evaluation = "NONE"
  /\ pc[q] = "seats" /\ job[q].op = "evaluate" /\ p \in job[q].seats \ job[q].keys =>
       seats[p].evaluation /= "NONE"

\* Every reward of a seat that is evaluated, paid or to be paid, has a claim of its own.
Claimed(p) ==
  /\ seats[p].rewards = 0 \/ seats[p].evaluation = "PASSED"
  /\ seats[p].evaluation /= "NONE" => seats[p].rewards + Cardinality(Payers(p)) <= seats[p].claims
  /\ p[1] \notin Booked => Payers(p) = {}
  /\ \A q \in Requests : Knows(q, p)

Ledger == \A p \in Places : Claimed(p)

LEMMA PayersFinite ==
  ASSUME NEW p
  PROVE  IsFiniteSet(Payers(p)) /\ Cardinality(Payers(p)) \in Nat
<1>1. Payers(p) \subseteq Requests
  BY DEF Payers
<1> QED BY <1>1, RequestAssumption, FS_Subset, FS_CardinalityType

\* Only r can begin to pay, in a step of r.
LEMMA PayersShrink ==
  ASSUME NEW r \in Requests, Alone(r), NEW p, Pays(r, p)' => Pays(r, p)
  PROVE  /\ Payers(p)' \subseteq Payers(p)
         /\ Cardinality(Payers(p)') \in Nat /\ Cardinality(Payers(p)) \in Nat
         /\ Cardinality(Payers(p)') <= Cardinality(Payers(p))
<1>1. Payers(p)' \subseteq Payers(p)
  BY DEF Payers, Pays, Evaluating, Alone
<1> QED BY <1>1, PayersFinite, FS_Subset, FS_CardinalityType

\* A step that neither evaluates nor rewards p
LEMMA KeptPlace ==
  ASSUME RowTypes, NEW p \in Places, Claimed(p), NEW r \in Requests, Alone(r),
         Booked \subseteq Booked',
         seats'[p].evaluation = seats[p].evaluation, seats'[p].rewards = seats[p].rewards,
         seats'[p].claims = seats[p].claims, Knows(r, p)',
         Pays(r, p)' => Pays(r, p) \/ (p[1] \in Booked /\ seats[p].evaluation = "NONE")
  PROVE  Claimed(p)'
<1>1. seats[p].rewards \in Nat /\ seats[p].claims \in Nat
  BY DEF RowTypes, Seat
<1>2. ASSUME NEW q \in Requests PROVE Knows(q, p)'
  BY DEF Claimed, Knows, Alone
<1>3. CASE Pays(r, p)' => Pays(r, p)
  <2>1. /\ Payers(p)' \subseteq Payers(p)
        /\ Cardinality(Payers(p)') \in Nat /\ Cardinality(Payers(p)) \in Nat
        /\ Cardinality(Payers(p)') <= Cardinality(Payers(p))
    BY <1>3, PayersShrink
  <2>2. seats'[p].evaluation /= "NONE" =>
          seats'[p].rewards + Cardinality(Payers(p)') <= seats'[p].claims
    BY <1>1, <2>1 DEF Claimed
  <2> QED BY <1>2, <2>1, <2>2 DEF Claimed
<1>4. CASE p[1] \in Booked /\ seats[p].evaluation = "NONE"
  BY <1>2, <1>4 DEF Claimed
<1> QED BY <1>3, <1>4

LEMMA WaitsLedger ==
  ASSUME LocalInv, Ledger, NEW r \in Requests, Waits(r)
  PROVE  Ledger'
<1>0. /\ RowTypes /\ Alone(r) /\ Onward(r) /\ UNCHANGED <<book, seats>> /\ StepInv(r)
      /\ StepInv(r)'
  BY WaitsFacts, Unpack DEF Good, Local, LocalInv
<1>1. Booked \subseteq Booked'
  BY <1>0 DEF Booked
<1> SUFFICES ASSUME NEW p \in Places PROVE Claimed(p)'
  BY DEF Ledger
<1>2. Claimed(p) /\ Knows(r, p)
  BY DEF Ledger, Claimed
<1>3. CASE pc'[r] = "idle" /\ job'[r] = NoJob
  <2>1. Knows(r, p)' /\ ~Pays(r, p)'
    BY <1>3, NoJobType DEF Knows, Pays
  <2> QED BY <1>0, <1>1, <1>2, <2>1, KeptPlace
<1>4. CASE pc'[r] = pc[r] /\ job'[r] = job[r]
  <2>1. Knows(r, p)' /\ (Pays(r, p)' => Pays(r, p))
    BY <1>0, <1>2, <1>4 DEF Knows, Pays, Evaluating
  <2> QED BY <1>0, <1>1, <1>2, <2>1, KeptPlace
<1>5. CASE Arrival(r)
  <2>1. Knows(r, p)'
    BY <1>0, <1>5 DEF Knows, Arrival, Unlocked
  <2>2. Pays(r, p)' => p[1] \in Booked /\ seats[p].evaluation = "NONE"
    BY <1>5 DEF Pays, Evaluating, Arrival
  <2> QED BY <1>0, <1>1, <1>2, <2>1, <2>2, KeptPlace
<1>6. CASE Locking(r)
  <2>1. pc[r] \in {"row", "slot"} => job'[r].op /= "evaluate" /\ pc'[r] = "seats" /\ job'[r].keys = {}
    BY <1>0, <1>6 DEF Locking, StepInv, Decisions
  <2>2. Pays(r, p)' => Pays(r, p)
    BY <1>6, <2>1 DEF Pays, Evaluating, Locking
  <2>3. pc'[r] /= "reward"
    BY <1>6 DEF Locking
  <2>4. p \in job'[r].keys => seats[p].evaluation = "NONE"
    BY <1>2, <1>6 DEF Locking, Knows
  <2>5. pc'[r] = "seats" /\ job'[r].op = "evaluate" /\ p \in job'[r].seats \ job'[r].keys =>
          seats[p].evaluation /= "NONE"
    BY <1>2, <1>6, <2>1 DEF Locking, Knows
  <2>6. Knows(r, p)'
    BY <1>0, <2>3, <2>4, <2>5 DEF Knows
  <2> QED BY <1>0, <1>1, <1>2, <2>2, <2>6, KeptPlace
<1> QED BY <1>0, <1>3, <1>4, <1>5, <1>6 DEF Onward

\* A seat of a new reservation is nobody's business yet.
LEMMA CreateLedger ==
  ASSUME LocalInv, Ledger, NEW r \in Requests, NEW res \in Reservations,
         CreateReservation(r, res)
  PROVE  Ledger'
<1>0. RowTypes /\ job[r] \in Job /\ Alone(r) /\ pc'[r] = "idle" /\ job'[r] = NoJob
  BY FinishLocal, Unpack DEF LocalTypes, Local, CreateReservation
<1>1. Booked \subseteq Booked' /\ res \notin Booked
  BY CreateFacts DEF Booked
<1> SUFFICES ASSUME NEW p \in Places PROVE Claimed(p)'
  BY DEF Ledger
<1>2. Knows(r, p)' /\ ~Pays(r, p)' /\ Claimed(p)
  BY <1>0, NoJobType DEF Knows, Pays, Evaluating, Ledger
<1>3. CASE p[1] /= res
  <2>1. seats'[p] = seats[p]
    BY <1>3, CreateFacts
  <2> QED BY <1>0, <1>1, <1>2, <2>1, KeptPlace
<1>4. CASE p[1] = res
  <2>1. seats'[p].evaluation = "NONE" /\ seats'[p].rewards = 0
    BY <1>0, <1>4, CreateFacts, NewSeatType, PlaceParts
  <2>2. Payers(p) = {} /\ Payers(p)' = {}
    BY <1>0, <1>1, <1>2, <1>4 DEF Claimed, Payers, Pays, Evaluating, Alone
  <2>3. ASSUME NEW q \in Requests PROVE Knows(q, p)'
    BY <2>1, <2>2, <2>3 DEF Knows, Payers, Pays, Evaluating
  <2> QED BY <2>1, <2>2, <2>3 DEF Claimed
<1> QED BY <1>3, <1>4

\* A change of status keeps evaluations and rewards.
LEMMA StatusLedger ==
  ASSUME LocalInv, Ledger, NEW r \in Requests, Alone(r), pc'[r] = "idle", job'[r] = NoJob,
         Booked \subseteq Booked', NEW op, NEW set, Reseat(op, set)
  PROVE  Ledger'
<1>0. RowTypes
  BY Unpack
<1> SUFFICES ASSUME NEW p \in Places PROVE Claimed(p)'
  BY DEF Ledger
<1>1. Knows(r, p)' /\ ~Pays(r, p)' /\ Claimed(p)
  BY NoJobType DEF Knows, Pays, Evaluating, Ledger
<1>2. seats[p] \in Seat /\ (seats'[p] = seats[p] \/ seats'[p] = SeatAfter(op, seats[p]))
  BY <1>0 DEF RowTypes, Reseat
<1>3. /\ seats'[p].evaluation = seats[p].evaluation /\ seats'[p].rewards = seats[p].rewards
      /\ seats'[p].claims = seats[p].claims
  BY <1>2, SeatAfterType
<1> QED BY <1>0, <1>1, <1>3, KeptPlace

LEMMA CommitLedger ==
  ASSUME LocalInv, Ledger, [Next]_vars, NEW r \in Requests,
         CommitSlotCancel(r) \/ \E res \in Reservations : CommitStatus(r, res)
  PROVE  Ledger'
<1>1. Alone(r) /\ pc'[r] = "idle" /\ job'[r] = NoJob
  BY FinishLocal DEF Local, CommitSlotCancel, CommitStatus
<1>2. Booked \subseteq Booked'
  BY BookedStays
<1> QED BY <1>1, <1>2, StatusLedger DEF CommitSlotCancel, CommitStatus

LEMMA JoinLedger ==
  ASSUME LocalInv, Ledger, NEW r \in Requests, NEW x \in Places, JoinSeat(r, x)
  PROVE  Ledger'
<1>0. RowTypes /\ Alone(r) /\ pc'[r] = "idle" /\ job'[r] = NoJob /\ UNCHANGED book
  BY JoinSeatFacts, Unpack DEF Good, Local
<1> SUFFICES ASSUME NEW p \in Places PROVE Claimed(p)'
  BY DEF Ledger
<1>1. Knows(r, p)' /\ ~Pays(r, p)' /\ Claimed(p) /\ Booked \subseteq Booked'
  BY <1>0, NoJobType DEF Knows, Pays, Evaluating, Ledger, Booked
<1>2. seats[x] \in Seat /\ (p = x \/ p \in Places \ {x})
  BY <1>0 DEF RowTypes
<1>3. \/ seats'[p] = seats[p]
      \/ /\ p = x
         /\ seats'[p] = [seats[p] EXCEPT !.status = "PARTICIPATING",
                                        !.reason = "RESERVATION_JOINED"]
  BY <1>2, JoinSeatFacts
<1>4. /\ seats'[p].evaluation = seats[p].evaluation /\ seats'[p].rewards = seats[p].rewards
      /\ seats'[p].claims = seats[p].claims
  BY <1>2, <1>3 DEF Seat
<1> QED BY <1>0, <1>1, <1>4, KeptPlace

\* The calls that had validated a participation are counted when it is evaluated.
LEMMA EvaluateLedger ==
  ASSUME LocalInv, Exclusive, Ledger, NEW r \in Requests, CommitEvaluations(r)
  PROVE  Ledger'
<1>0. /\ RowTypes /\ Alone(r) /\ pc[r] = "seats" /\ job[r].op = "evaluate" /\ UNCHANGED book
      /\ StepInv(r)
      /\ \/ pc'[r] = "idle" /\ job'[r] = NoJob
         \/ /\ pc'[r] = "reward" /\ job'[r].seats \subseteq job[r].seats
            /\ job'[r].keys = {} /\ \A p \in job'[r].seats : Verdict(r, p) = "PASSED"
  BY EvaluateFacts, Unpack DEF Good, Local, LocalInv
<1>1. Booked \subseteq Booked'
  BY <1>0 DEF Booked
<1> SUFFICES ASSUME NEW p \in Places PROVE Claimed(p)'
  BY DEF Ledger
<1>2. Claimed(p) /\ Knows(r, p) /\ seats[p] \in Seat
  BY <1>0 DEF Ledger, Claimed, RowTypes
<1>3. Pays(r, p)' => Pays(r, p)
  BY <1>0, NoJobType DEF Pays, Evaluating
<1>4. CASE p \notin job[r].seats
  <2>1. seats'[p] = seats[p] /\ Knows(r, p)'
    BY <1>0, <1>4, EvaluateFacts, NoJobType DEF Knows
  <2> QED BY <1>0, <1>1, <1>2, <1>3, <2>1, KeptPlace
<1>5. CASE p \in job[r].seats \ job[r].keys
  <2>1. Verdict(r, p) = seats[p].evaluation /\ seats'[p] = Evaluated(r, p)
    BY <1>5, EvaluateFacts DEF Verdict
  <2>2. /\ seats'[p].evaluation = seats[p].evaluation /\ seats'[p].rewards = seats[p].rewards
        /\ seats'[p].claims = seats[p].claims
    BY <1>2, <1>5, <2>1 DEF Evaluated, Seat
  <2>3. Knows(r, p)'
    BY <1>0, <2>1, <2>2, NoJobType DEF Knows
  <2> QED BY <1>0, <1>1, <1>2, <1>3, <2>2, <2>3, KeptPlace
<1>6. CASE p \in job[r].keys
  <2>1. p \in job[r].seats /\ seats[p].evaluation = "NONE" /\ seats[p].rewards = 0
    BY <1>0, <1>2, <1>6 DEF StepInv, Knows, Claimed
  <2>2. seats'[p] = Evaluated(r, p) /\ Verdict(r, p) \in {"PASSED", "FAILED"}
    BY <1>6, <2>1, EvaluateFacts DEF Verdict
  <2>3. /\ seats'[p].evaluation = Verdict(r, p) /\ seats'[p].rewards = 0
        /\ seats'[p].claims = Cardinality(Claims(p))
    BY <1>2, <1>6, <2>1, <2>2 DEF Evaluated, Seat
  <2>4. \A q \in Requests : ~(pc[q] = "reward" /\ p \in job[q].seats)
    BY <1>2, <2>1 DEF Claimed, Knows
  <2>5. Payers(p) = Claims(p)
    BY <2>4 DEF Payers, Pays, Claims
  <2>6. /\ Payers(p)' \subseteq Payers(p) /\ Cardinality(Payers(p)') \in Nat
        /\ Cardinality(Payers(p)') <= Cardinality(Claims(p))
    BY <1>0, <1>3, <2>5, PayersShrink
  <2>7. ASSUME NEW q \in Requests PROVE Knows(q, p)'
    <3>1. CASE q = r
      BY <1>0, <2>2, <2>3, <3>1, NoJobType DEF Knows
    <3>2. CASE q /= r
      <4>1. p \notin job[q].keys
        BY <1>6, <3>2 DEF Exclusive
      <4>2. pc'[q] = pc[q] /\ job'[q] = job[q]
        BY <1>0, <3>2 DEF Alone
      <4> QED BY <2>2, <2>3, <2>4, <4>1, <4>2 DEF Knows
    <3> QED BY <3>1, <3>2
  <2> QED BY <1>1, <1>2, <2>3, <2>6, <2>7 DEF Claimed
<1> QED BY <1>4, <1>5, <1>6

\* A reward uses up its claim.
LEMMA RewardLedger ==
  ASSUME LocalInv, Ledger, NEW r \in Requests, NEW x \in Places, Reward(r, x)
  PROVE  Ledger'
<1>0. /\ RowTypes /\ Alone(r) /\ pc[r] = "reward" /\ x \in job[r].seats /\ UNCHANGED book
      /\ \/ pc'[r] = "idle" /\ job'[r] = NoJob
         \/ pc'[r] = "reward" /\ job'[r].seats = job[r].seats \ {x} /\ job'[r].keys = {}
  BY RewardFacts, Unpack DEF Good, Local
<1>1. Booked \subseteq Booked'
  BY <1>0 DEF Booked
<1> SUFFICES ASSUME NEW p \in Places PROVE Claimed(p)'
  BY DEF Ledger
<1>2. Claimed(p) /\ Knows(r, p) /\ seats[p] \in Seat
  BY <1>0 DEF Ledger, Claimed, RowTypes
<1>3. Pays(r, p)' => Pays(r, p)
  BY <1>0, NoJobType DEF Pays, Evaluating
<1>4. CASE p /= x
  <2>0. \A y \in Places \ {x} : seats'[y] = seats[y]
    BY RewardFacts
  <2>1. seats'[p] = seats[p]
    BY <1>4, <2>0
  <2>2. Knows(r, p)'
    BY <1>0, <1>2, <2>1, NoJobType DEF Knows
  <2> QED BY <1>0, <1>1, <1>2, <1>3, <2>1, <2>2, KeptPlace
<1>5. CASE p = x
  <2>1. seats[p].evaluation = "PASSED" /\ r \in Payers(p) /\ ~Pays(r, p)'
    BY <1>0, <1>2, <1>5, NoJobType DEF Knows, Payers, Pays, Evaluating
  <2>2. PICK paid \in {0, 1} : seats'[p] = [seats[p] EXCEPT !.rewards = @ + paid]
    BY <1>5, RewardFacts
  <2>3. /\ seats[p].rewards \in Nat /\ seats[p].claims \in Nat
        /\ seats'[p].evaluation = "PASSED" /\ seats'[p].rewards = seats[p].rewards + paid
        /\ seats'[p].claims = seats[p].claims
    BY <1>2, <2>1, <2>2 DEF Seat
  <2>4. Payers(p)' = Payers(p) \ {r}
    BY <1>0, <2>1 DEF Payers, Pays, Evaluating, Alone
  <2>5. /\ Cardinality(Payers(p)') = Cardinality(Payers(p)) - 1
        /\ Cardinality(Payers(p)) \in Nat /\ Cardinality(Payers(p)') \in Nat
    BY <2>1, <2>4, PayersFinite, FS_RemoveElement, FS_CardinalityType
  <2>6. seats'[p].rewards + Cardinality(Payers(p)') <= seats'[p].claims
    BY <1>2, <2>1, <2>3, <2>5 DEF Claimed
  <2>7. ASSUME NEW q \in Requests PROVE Knows(q, p)'
    <3>1. CASE q = r
      BY <1>0, <1>5, <2>3, <3>1, NoJobType DEF Knows
    <3>2. CASE q /= r
      BY <1>0, <1>2, <2>1, <2>3, <3>2 DEF Claimed, Knows, Alone
    <3> QED BY <3>1, <3>2
  <2> QED BY <1>1, <1>2, <2>3, <2>4, <2>6, <2>7 DEF Claimed
<1> QED BY <1>4, <1>5

LEMMA SpecLedger == Spec => []Ledger
<1>1. Init => Ledger
  <2> SUFFICES ASSUME Init, NEW p \in Places PROVE Claimed(p)
    BY DEF Ledger
  <2>1. seats[p] = NoSeat /\ Payers(p) = {} /\ \A q \in Requests : pc[q] = "idle" /\ job[q] = NoJob
    BY DEF Init, Payers, Pays, Evaluating
  <2> QED BY <2>1, NoJobType DEF Claimed, Knows, NoSeat
<1>2. LocalInv /\ Exclusive /\ Ledger /\ [Next]_vars => Ledger'
  <2> SUFFICES ASSUME LocalInv, Exclusive, Ledger, [Next]_vars PROVE Ledger'
    OBVIOUS
  <2>1. CASE Tick \/ UNCHANGED vars
    BY <2>1 DEF Tick, vars, Ledger, Claimed, Knows, Payers, Pays, Evaluating, Booked
  <2> QED BY <2>1, NextCases, WaitsLedger, CreateLedger, CommitLedger, JoinLedger,
             EvaluateLedger, RewardLedger
<1> QED BY <1>1, <1>2, SpecLocal, SpecExclusive, PTL DEF Spec

\* However many managers evaluate a participation at once, the rewards paid for it are at
\* most as many as the calls that had found it evaluatable, and none if it failed.
THEOREM RewardsAreClaimedAlways == Spec => []RewardsAreClaimed
<1>1. ASSUME LocalInv, Ledger PROVE RewardsAreClaimed
  <2> SUFFICES ASSUME NEW p \in Places
               PROVE  seats[p].rewards <=
                        (IF seats[p].evaluation = "PASSED" THEN seats[p].claims ELSE 0)
    BY DEF RewardsAreClaimed
  <2>1. seats[p].rewards \in Nat /\ seats[p].claims \in Nat
    BY <1>1, Unpack DEF RowTypes, Seat
  <2> QED BY <1>1, <2>1, PayersFinite DEF Ledger, Claimed
<1> QED BY <1>1, SpecLocal, SpecLedger, PTL

-----------------------------------------------------------------------------
(* Seats follow their reservation *)

Raced(res) == "raced" \in notes[res]

\* A join on its way has seen an accepted reservation, or a decision was committed since.
JoinOf(q, p) ==
  /\ job[q].on = {p[1]} /\ job[q].seats = {p}
  /\ p[1] \in Booked /\ (book[p[1]].status = "ACCEPTED" \/ Raced(p[1]))

JoinInv == \A q \in Requests : pc[q] = "join" => \E p \in Places : JoinOf(q, p)

\* SeatsFollowReservation, of one seat
Follows(p) ==
  \/ seats[p].status = "NONE" \/ seats[p].evaluation /= "NONE"
  \/ Matches(book[p[1]].status, seats[p])
  \/ seats[p].reason = "RESERVATION_JOINED" /\ Raced(p[1])

SeatsInv == JoinInv /\ \A p \in Places : p[1] \in Booked => Follows(p)

LEMMA FollowsAll ==
  SeatsFollowReservation <=> \A p \in Places : p[1] \in Booked => Follows(p)
  BY DEF SeatsFollowReservation, SeatsOf, Follows, Raced

\* A seat and its reservation's status are as they were.
LEMMA FollowsKept ==
  ASSUME NEW p, Follows(p), seats'[p] = seats[p], book'[p[1]] = book[p[1]],
         Raced(p[1]) => Raced(p[1])'
  PROVE  Follows(p)'
  BY DEF Follows, Matches

LEMMA WaitsSeats ==
  ASSUME LocalInv, SeatsInv, NEW r \in Requests, Waits(r)
  PROVE  SeatsInv'
<1>1. /\ Alone(r) /\ UNCHANGED <<book, seats>> /\ Onward(r)
      /\ \A res \in Reservations : Raced(res) => Raced(res)'
  BY WaitsFacts DEF Good, Local, NotesGrow, Raced
<1>2. ASSUME NEW p \in Places, p[1] \in Booked' PROVE Follows(p)'
  BY <1>1, <1>2, PlaceParts, FollowsKept DEF SeatsInv, Booked
<1>3. ASSUME NEW q \in Requests, NEW p \in Places, JoinOf(q, p), job'[q] = job[q]
      PROVE  JoinOf(q, p)'
  BY <1>1, <1>3, PlaceParts DEF JoinOf, Booked
<1>4. ASSUME NEW q \in Requests, pc'[q] = "join" PROVE \E p \in Places : JoinOf(q, p)'
  <2>1. CASE pc[q] = "join" /\ job'[q] = job[q]
    BY <1>3, <2>1 DEF SeatsInv, JoinInv
  <2>2. CASE q = r /\ Arrival(r)
    <3>1. PICK p \in Places : /\ job'[r].on = {p[1]} /\ job'[r].seats = {p}
                              /\ book[p[1]].status = "ACCEPTED"
      BY <1>4, <2>2 DEF Arrival
    <3>2. p[1] \in Reservations /\ book'[p[1]].status = "ACCEPTED"
      BY <1>1, <3>1, PlaceParts
    <3>3. JoinOf(q, p)'
      BY <2>2, <3>1, <3>2 DEF JoinOf, Booked
    <3> QED BY <3>3
  <2> QED BY <1>1, <1>4, <2>1, <2>2 DEF Alone, Onward, Locking
<1> QED BY <1>2, <1>4 DEF SeatsInv, JoinInv

\* A step that writes the reservations of set, and their seats to match
LEMMA RewriteSeats ==
  ASSUME LocalInv, SeatsInv, NEW r \in Requests, Alone(r), pc'[r] /= "join",
         NEW set \in SUBSET Reservations, Booked \subseteq Booked',
         \A res \in Reservations \ set : book'[res] = book[res],
         \A p \in Places : p[1] \notin set => seats'[p] = seats[p],
         \A res \in Booked : Raced(res) => Raced(res)',
         \A res \in set : res \in Booked /\ JoinPending(res) => Raced(res)',
         \A p \in Places : p[1] \in set => Follows(p)'
  PROVE  SeatsInv'
<1>1. ASSUME NEW q \in Requests, pc'[q] = "join" PROVE \E p \in Places : JoinOf(q, p)'
  <2>1. pc[q] = "join" /\ job'[q] = job[q]
    BY <1>1 DEF Alone
  <2>2. PICK p \in Places : JoinOf(q, p)
    BY <2>1 DEF SeatsInv, JoinInv
  <2>3. p[1] \in Reservations /\ p[1] \in Booked /\ p[1] \in Booked' /\ JoinPending(p[1])
    BY <2>1, <2>2, PlaceParts DEF JoinOf, JoinPending
  <2>4. CASE p[1] \in set
    BY <2>1, <2>2, <2>3, <2>4 DEF JoinOf
  <2>5. CASE p[1] \notin set
    BY <2>1, <2>2, <2>3, <2>5 DEF JoinOf
  <2> QED BY <2>4, <2>5
<1>2. ASSUME NEW p \in Places, p[1] \in Booked' PROVE Follows(p)'
  <2>1. CASE p[1] \in set
    BY <2>1
  <2>2. CASE p[1] \notin set
    <3>1. p[1] \in Reservations /\ book'[p[1]] = book[p[1]] /\ seats'[p] = seats[p]
      BY <2>2, PlaceParts
    <3>2. p[1] \in Booked /\ Follows(p)
      BY <1>2, <3>1 DEF Booked, SeatsInv
    <3> QED BY <3>1, <3>2, FollowsKept
  <2> QED BY <2>1, <2>2
<1> QED BY <1>1, <1>2 DEF SeatsInv, JoinInv

\* A new reservation's status and its new seats match.
LEMMA NewSeatMatches ==
  ASSUME NEW j, NEW i, NewSeat(j, i).status /= "NONE"
  PROVE  Matches(IF j.requireApproval THEN "APPLIED" ELSE "ACCEPTED", NewSeat(j, i))
<1>1. ~(i > j.count)
  BY DEF NewSeat, NoSeat
<1>2. NewSeat(j, i).status = IF j.requireApproval THEN "PENDING" ELSE "PARTICIPATING"
  BY <1>1 DEF NewSeat, NoSeat
<1>3. CASE j.requireApproval
  BY <1>2, <1>3 DEF Matches
<1>4. CASE ~j.requireApproval
  BY <1>2, <1>4 DEF Matches
<1> QED BY <1>3, <1>4

LEMMA CreateSeats ==
  ASSUME LocalInv, SeatsInv, [Next]_vars, NEW r \in Requests, NEW res \in Reservations,
         CreateReservation(r, res)
  PROVE  SeatsInv'
<1>0. Alone(r) /\ pc'[r] /= "join" /\ Booked \subseteq Booked'
  BY CreateGood, FinishLocal, BookedStays DEF Good, Local, CreateReservation
<1> DEFINE set == {res}
<1>1. /\ res \notin Booked /\ set \in SUBSET Reservations
      /\ \A x \in Reservations \ set : book'[x] = book[x] /\ notes'[x] = notes[x]
      /\ book'[res].status = IF job[r].requireApproval THEN "APPLIED" ELSE "ACCEPTED"
      /\ \A p \in Places : seats'[p] = IF p[1] = res THEN NewSeat(job[r], p[2]) ELSE seats[p]
  BY CreateFacts
<1>2. ASSUME NEW p \in Places, p[1] = res PROVE Follows(p)'
  <2>1. seats'[p] = NewSeat(job[r], p[2])
    BY <1>1, <1>2
  <2>2. CASE NewSeat(job[r], p[2]).status = "NONE"
    BY <2>1, <2>2 DEF Follows
  <2>3. CASE NewSeat(job[r], p[2]).status /= "NONE"
    <3>1. Matches(IF job[r].requireApproval THEN "APPLIED" ELSE "ACCEPTED", NewSeat(job[r], p[2]))
      BY <2>3, NewSeatMatches
    <3>2. Matches(book'[p[1]].status, seats'[p])
      BY <1>1, <1>2, <2>1, <3>1
    <3> QED BY <3>2 DEF Follows, Matches
  <2> QED BY <2>2, <2>3
<1>3. \A x \in Booked : Raced(x) => Raced(x)'
  BY <1>1 DEF Raced, Booked
<1>4. /\ \A p \in Places : p[1] \notin set => seats'[p] = seats[p]
      /\ \A x \in set : x \in Booked /\ JoinPending(x) => Raced(x)'
      /\ \A p \in Places : p[1] \in set => Follows(p)'
  BY <1>1, <1>2
<1> HIDE DEF set
<1> QED BY <1>0, <1>1, <1>3, <1>4, RewriteSeats

\* A status and the seats written with it match.
LEMMA SeatAfterMatches ==
  ASSUME NEW op, NEW seat \in Seat, SeatAfter(op, seat).status /= "NONE"
  PROVE  Matches(IF op = "slotCancel" THEN "REJECTED" ELSE NewStatus(op), SeatAfter(op, seat))
  BY DEF SeatAfter, Matches, NewStatus, Seat

\* Decisions and slot cancellations
LEMMA StatusSeats ==
  ASSUME LocalInv, SeatsInv, [Next]_vars, NEW r \in Requests, Finish(r),
         NEW set \in SUBSET Reservations, NEW op,
         NEW s \in Status, s = (IF op = "slotCancel" THEN "REJECTED" ELSE NewStatus(op)),
         Rewrite(set, s), Reseat(op, set),
         \A res \in Reservations : Raced(res) => Raced(res)',
         \A res \in set : JoinPending(res) => Raced(res)'
  PROVE  SeatsInv'
<1>0. Alone(r) /\ pc'[r] /= "join" /\ Booked \subseteq Booked' /\ RowTypes
  BY FinishLocal, BookedStays, Unpack DEF Local
<1>1. /\ \A res \in Reservations \ set : book'[res] = book[res]
      /\ \A res \in set : book'[res].status = s
  BY <1>0, RewriteStays
<1>2. /\ \A p \in Places : p[1] \notin set => seats'[p] = seats[p]
      /\ \A p \in Places : p[1] \in set => seats'[p] = SeatAfter(op, seats[p])
  BY DEF Reseat
<1>3. ASSUME NEW p \in Places, p[1] \in set PROVE Follows(p)'
  <2>1. seats'[p] = SeatAfter(op, seats[p]) /\ seats[p] \in Seat /\ book'[p[1]].status = s
    BY <1>0, <1>1, <1>2, <1>3 DEF RowTypes
  <2>2. CASE SeatAfter(op, seats[p]).status = "NONE"
    BY <2>1, <2>2 DEF Follows
  <2>3. CASE SeatAfter(op, seats[p]).status /= "NONE"
    <3>1. Matches(s, SeatAfter(op, seats[p]))
      BY <2>1, <2>3, SeatAfterMatches
    <3>2. Matches(book'[p[1]].status, seats'[p])
      BY <2>1, <3>1
    <3> QED BY <3>2 DEF Follows, Matches
  <2> QED BY <2>2, <2>3
<1>4. \A res \in Booked : Raced(res) => Raced(res)'
  BY DEF Booked
<1>5. \A res \in set : res \in Booked /\ JoinPending(res) => Raced(res)'
  OBVIOUS
<1> QED BY <1>0, <1>1, <1>2, <1>3, <1>4, <1>5, RewriteSeats

LEMMA CommitStatusSeats ==
  ASSUME LocalInv, SeatsInv, [Next]_vars, NEW r \in Requests, NEW res \in Reservations,
         CommitStatus(r, res)
  PROVE  SeatsInv'
<1> DEFINE op == job[r].op
           s == NewStatus(op)
           set == {res}
<1>1. /\ Finish(r) /\ set \in SUBSET Reservations /\ s \in Status
      /\ s = IF op = "slotCancel" THEN "REJECTED" ELSE NewStatus(op)
      /\ Rewrite(set, s) /\ Reseat(op, set)
  BY DEF CommitStatus, NewStatus, Status
<1>2. \A x \in Reservations : Raced(x) => Raced(x)'
  BY Unpack DEF CommitStatus, RowTypes, Raced
<1>3. \A x \in set : JoinPending(x) => Raced(x)'
  BY Unpack DEF CommitStatus, RowTypes, Raced
<1> HIDE DEF op, s, set
<1> QED BY <1>1, <1>2, <1>3, StatusSeats

LEMMA CommitSlotCancelSeats ==
  ASSUME LocalInv, SeatsInv, [Next]_vars, NEW r \in Requests, CommitSlotCancel(r)
  PROVE  SeatsInv'
<1> DEFINE set == job[r].on
           op == "slotCancel"
           s == "REJECTED"
<1>1. /\ Finish(r) /\ set \in SUBSET Reservations /\ s \in Status
      /\ s = IF op = "slotCancel" THEN "REJECTED" ELSE NewStatus(op)
      /\ Rewrite(set, s) /\ Reseat(op, set)
  BY Unpack DEF CommitSlotCancel, Status, LocalTypes, Job
<1>2. \A x \in Reservations : Raced(x) => Raced(x)'
  BY DEF CommitSlotCancel, Raced
<1>3. \A x \in set : JoinPending(x) => Raced(x)'
  BY <1>1 DEF CommitSlotCancel, Raced
<1> HIDE DEF op, s, set
<1> QED BY <1>1, <1>2, <1>3, StatusSeats

\* A step that writes the seats of set and nothing else
LEMMA PlaceSeats ==
  ASSUME SeatsInv, NEW r \in Requests, Alone(r), pc'[r] /= "join", UNCHANGED <<book, notes>>,
         \A p \in Places : p[1] \in Booked => seats'[p] = seats[p] \/ Follows(p)'
  PROVE  SeatsInv'
<1>1. Booked' = Booked
  BY DEF Booked
<1>2. ASSUME NEW p \in Places, p[1] \in Booked' PROVE Follows(p)'
  BY <1>1, <1>2, FollowsKept DEF SeatsInv, Raced
<1>3. ASSUME NEW q \in Requests, pc'[q] = "join" PROVE \E p \in Places : JoinOf(q, p)'
  BY <1>1, <1>3 DEF SeatsInv, JoinInv, JoinOf, Raced, Alone
<1> QED BY <1>2, <1>3 DEF SeatsInv, JoinInv

LEMMA JoinSeatSeats ==
  ASSUME LocalInv, SeatsInv, NEW r \in Requests, NEW x \in Places, JoinSeat(r, x)
  PROVE  SeatsInv'
<1>0. /\ Alone(r) /\ pc'[r] /= "join" /\ UNCHANGED <<book, notes>> /\ seats[x] \in Seat
      /\ pc[r] = "join" /\ job[r].seats = {x}
      /\ \A p \in Places \ {x} : seats'[p] = seats[p]
      /\ seats'[x] = [seats[x] EXCEPT !.status = "PARTICIPATING", !.reason = "RESERVATION_JOINED"]
  BY JoinSeatFacts, Unpack DEF Good, Local, RowTypes, JoinSeat
<1>1. seats'[x].status = "PARTICIPATING" /\ seats'[x].reason = "RESERVATION_JOINED"
  BY <1>0 DEF Seat
<1>2. JoinOf(r, x)
  BY <1>0 DEF SeatsInv, JoinInv, JoinOf
<1>3. Follows(x)'
  BY <1>0, <1>1, <1>2 DEF JoinOf, Follows, Matches, Raced
<1> QED BY <1>0, <1>3, PlaceSeats

LEMMA EvaluateSeats ==
  ASSUME LocalInv, Ledger, SeatsInv, NEW r \in Requests, CommitEvaluations(r)
  PROVE  SeatsInv'
<1>0. /\ Alone(r) /\ pc'[r] /= "join" /\ UNCHANGED <<book, notes>> /\ RowTypes
      /\ pc[r] = "seats" /\ job[r].op = "evaluate"
      /\ \A p \in Places : seats'[p] = IF p \in job[r].seats THEN Evaluated(r, p) ELSE seats[p]
  BY EvaluateFacts, Unpack DEF Good, Local
<1>1. ASSUME NEW p \in Places, p \in job[r].seats PROVE Follows(p)'
  <2>1. Verdict(r, p) /= "NONE"
    BY <1>0, <1>1 DEF Ledger, Claimed, Knows, Verdict
  <2>2. seats'[p].evaluation = Verdict(r, p)
    BY <1>0, <1>1 DEF Evaluated, RowTypes, Seat
  <2> QED BY <2>1, <2>2 DEF Follows
<1> QED BY <1>0, <1>1, PlaceSeats

LEMMA RewardSeats ==
  ASSUME LocalInv, Ledger, SeatsInv, NEW r \in Requests, NEW x \in Places, Reward(r, x)
  PROVE  SeatsInv'
<1>0. /\ Alone(r) /\ pc'[r] /= "join" /\ UNCHANGED <<book, notes>> /\ seats[x] \in Seat
      /\ pc[r] = "reward" /\ x \in job[r].seats
      /\ \A p \in Places \ {x} : seats'[p] = seats[p]
      /\ \E paid \in {0, 1} : seats'[x] = [seats[x] EXCEPT !.rewards = @ + paid]
  BY RewardFacts, Unpack DEF Good, Local, RowTypes
<1>1. seats'[x].evaluation = seats[x].evaluation /\ seats[x].evaluation = "PASSED"
  BY <1>0 DEF Seat, Ledger, Claimed, Knows
<1>2. Follows(x)'
  BY <1>1 DEF Follows
<1> QED BY <1>0, <1>2, PlaceSeats

\* The seats that are not evaluated follow their reservation's status, but for joins
\* that raced with a decision; with them the rule of the consistency batch on statuses holds.
THEOREM SeatsFollowReservationAlways == Spec => []SeatsFollowReservation
<1>1. Init => SeatsInv
  BY PlaceParts DEF Init, SeatsInv, JoinInv, Booked, NoBooking
<1>2. LocalInv /\ Ledger /\ SeatsInv /\ [Next]_vars => SeatsInv'
  <2> SUFFICES ASSUME LocalInv, Ledger, SeatsInv, [Next]_vars PROVE SeatsInv'
    OBVIOUS
  <2>1. CASE Tick \/ UNCHANGED vars
    BY <2>1 DEF Tick, vars, SeatsInv, JoinInv, JoinOf, Follows, Raced, Booked, Matches
  <2> QED BY <2>1, NextCases, WaitsSeats, CreateSeats, CommitStatusSeats,
             CommitSlotCancelSeats, JoinSeatSeats, EvaluateSeats, RewardSeats
<1>3. SeatsInv => SeatsFollowReservation
  BY FollowsAll DEF SeatsInv
<1> QED BY <1>1, <1>2, <1>3, SpecLocal, SpecLedger, PTL DEF Spec

-----------------------------------------------------------------------------
(* A cancelled slot is closed *)

Late(res) == "late" \in notes[res]

\* HoldsSlot: a slot cancellation that has read the reservations it is going to reject
OneSweeps == \A r, q \in Requests : HoldsSlot(r) /\ HoldsSlot(q) => r = q

\* What it has not read is noted as late.
SweepReads == \A r \in Requests : HoldsSlot(r) => \A res \in Booked \ job[r].on : Late(res)

ClosedInv == OneSweeps /\ SweepReads /\ CancelledSlotIsClosed

\* A step that begins no sweep
LEMMA QuietSweeps ==
  ASSUME ClosedInv, NEW r \in Requests, Alone(r),
         HoldsSlot(r)' => HoldsSlot(r) /\ job'[r].on = job[r].on,
         \A res \in Reservations :
           \/ (book'[res].status = "NONE" <=> book[res].status = "NONE") /\ (Late(res) => Late(res)')
           \/ ~HoldsSlot(r)' /\ ((\E q \in Requests \ {r} : HoldsSlot(q)) => Late(res)'),
         slot'.hosting = "CANCELLED" => \A res \in Booked' : Active(res)' => Late(res)'
  PROVE  ClosedInv'
<1>1. \A q \in Requests : HoldsSlot(q)' => HoldsSlot(q) /\ job'[q].on = job[q].on
  BY DEF Alone, HoldsSlot
<1>2. OneSweeps'
  BY <1>1 DEF ClosedInv, OneSweeps
<1>3. SweepReads'
  <2> SUFFICES ASSUME NEW q \in Requests, HoldsSlot(q)', NEW res \in Booked' \ job'[q].on
               PROVE  Late(res)'
    BY DEF SweepReads
  <2>1. HoldsSlot(q) /\ res \notin job[q].on /\ res \in Reservations /\ book'[res].status /= "NONE"
    BY <1>1 DEF Booked
  <2>2. CASE (book'[res].status = "NONE" <=> book[res].status = "NONE") /\ (Late(res) => Late(res)')
    <3>1. res \in Booked
      BY <2>1, <2>2 DEF Booked
    <3> QED BY <2>1, <2>2, <3>1 DEF ClosedInv, SweepReads
  <2>3. CASE q = r
    BY <2>1, <2>2, <2>3
  <2>4. CASE q /= r
    BY <2>1, <2>2, <2>4
  <2> QED BY <2>3, <2>4
<1>4. CancelledSlotIsClosed'
  BY DEF CancelledSlotIsClosed, Late
<1> QED BY <1>2, <1>3, <1>4 DEF ClosedInv

\* While the reservations stay as they are, the slot stays closed.
LEMMA StaysClosed ==
  ASSUME ClosedInv, UNCHANGED book, \A res \in Reservations : Late(res) => Late(res)',
         slot'.hosting = "CANCELLED" => slot.hosting = "CANCELLED"
  PROVE  slot'.hosting = "CANCELLED" => \A res \in Booked' : Active(res)' => Late(res)'
  BY DEF ClosedInv, CancelledSlotIsClosed, Booked, Active, Late

LEMMA SetHostingClosed ==
  ASSUME LocalInv, ClosedInv, NEW r \in Requests, SetHosting(r)
  PROVE  ClosedInv'
<1>0. /\ Alone(r) /\ UNCHANGED <<book, notes, slot>> /\ Locking(r) /\ pc[r] = "slot"
  BY LocksLocal DEF Locks, Local, SetHosting, rows
<1>1. job'[r].on = Booked
  BY <1>0 DEF Locking
<1>2. \A q \in Requests \ {r} : ~HoldsSlot(q) /\ ~HoldsSlot(q)'
  BY <1>0 DEF SetHosting, SlotLocked, HoldsSlot, Alone
<1>3. OneSweeps' /\ SweepReads'
  BY <1>0, <1>1, <1>2 DEF OneSweeps, SweepReads, Booked
<1>4. CancelledSlotIsClosed'
  BY <1>0 DEF ClosedInv, CancelledSlotIsClosed, Booked, Active
<1> QED BY <1>3, <1>4 DEF ClosedInv

LEMMA WaitsClosed ==
  ASSUME LocalInv, ClosedInv, NEW r \in Requests, Waits(r)
  PROVE  ClosedInv'
<1>0. /\ Alone(r) /\ UNCHANGED book /\ Onward(r) /\ NotesGrow /\ StepInv(r)
      /\ slot'.hosting = "CANCELLED" => slot.hosting = "CANCELLED"
  BY WaitsFacts DEF Good, Local, LocalInv
<1>1. \A res \in Reservations : Late(res) => Late(res)'
  BY <1>0 DEF NotesGrow, Late
<1>2. slot'.hosting = "CANCELLED" => \A res \in Booked' : Active(res)' => Late(res)'
  BY <1>0, <1>1, StaysClosed
<1>3. CASE SetHosting(r)
  BY <1>3, SetHostingClosed
<1>4. CASE pc[r] = "slot" /\ ~SetHosting(r)
  <2>1. ~Locks(r)
    BY <1>4 DEF Locks, SetStatus, RejectNext, LockSeat, InsertEvaluation, ReadEvaluations,
                SeatsWritten
  <2>2. Arrives(r) \/ Idles(r)
    BY <2>1 DEF Waits
  <2>3. pc'[r] /= "seats"
    BY <1>4, <2>2, ArrivalLocal, IdlesGood DEF Arrival
  <2> QED BY <1>0, <1>1, <1>2, <2>3, QuietSweeps DEF HoldsSlot
<1>5. CASE pc[r] /= "slot"
  <2>1. HoldsSlot(r)' => HoldsSlot(r) /\ job'[r].on = job[r].on
    <3>1. CASE Locking(r)
      BY <1>0, <1>5, <3>1 DEF Locking, HoldsSlot, StepInv, Decisions
    <3>2. CASE ~Locking(r)
      BY <1>0, <3>2 DEF Onward, Arrival, HoldsSlot
    <3> QED BY <3>1, <3>2
  <2> QED BY <1>0, <1>1, <1>2, <2>1, QuietSweeps
<1> QED BY <1>3, <1>4, <1>5

LEMMA CreateClosed ==
  ASSUME LocalInv, ClosedInv, NEW r \in Requests, NEW res \in Reservations,
         CreateReservation(r, res)
  PROVE  ClosedInv'
<1>0. Alone(r) /\ ~HoldsSlot(r)'
  BY FinishLocal DEF Local, CreateReservation, HoldsSlot
<1>1. /\ \A x \in Reservations \ {res} : book'[x] = book[x] /\ notes'[x] = notes[x]
      /\ slot.hosting = "CANCELLED" \/ SlotLocked(r) => Late(res)'
      /\ UNCHANGED slot
  BY CreateFacts DEF Late
<1>2. (\E q \in Requests \ {r} : HoldsSlot(q)) => Late(res)'
  BY <1>1 DEF SlotLocked
<1>3. slot'.hosting = "CANCELLED" => \A x \in Booked' : Active(x)' => Late(x)'
  BY <1>1 DEF ClosedInv, CancelledSlotIsClosed, Booked, Active, Late
<1>4. \A x \in Reservations :
        \/ (book'[x].status = "NONE" <=> book[x].status = "NONE") /\ (Late(x) => Late(x)')
        \/ ~HoldsSlot(r)' /\ ((\E q \in Requests \ {r} : HoldsSlot(q)) => Late(x)')
  BY <1>0, <1>1, <1>2 DEF Late
<1> QED BY <1>0, <1>3, <1>4, QuietSweeps

LEMMA CommitStatusClosed ==
  ASSUME LocalInv, DecidesBooked, ClosedInv,
         NEW r \in Requests, NEW res \in Reservations, CommitStatus(r, res)
  PROVE  ClosedInv'
<1>0. Alone(r) /\ ~HoldsSlot(r)' /\ RowTypes
  BY FinishLocal, Unpack DEF Local, CommitStatus, HoldsSlot
<1>1. /\ \A x \in Reservations \ {res} : book'[x] = book[x] /\ notes'[x] = notes[x]
      /\ UNCHANGED slot
      /\ slot.hosting = "CANCELLED" => Late(res)'
      /\ Late(res) => Late(res)'
  BY <1>0 DEF CommitStatus, RowTypes, Rewrite, Late
<1>2. book'[res].status /= "NONE"
  <2>1. NewStatus(job[r].op) \in Status /\ "NONE" \notin Status
    BY DEF NewStatus, Status
  <2> QED BY <1>0, <2>1, RewriteStays DEF CommitStatus
<1>3. book[res].status /= "NONE"
  BY DEF CommitStatus, DecidesBooked, Booked, SeatsWritten, Decisions
<1>4. slot'.hosting = "CANCELLED" => \A x \in Booked' : Active(x)' => Late(x)'
  BY <1>1 DEF ClosedInv, CancelledSlotIsClosed, Booked, Active, Late
<1>5. \A x \in Reservations :
        (book'[x].status = "NONE" <=> book[x].status = "NONE") /\ (Late(x) => Late(x)')
  BY <1>1, <1>2, <1>3 DEF Late
<1> QED BY <1>0, <1>4, <1>5, QuietSweeps

LEMMA CommitSlotCancelClosed ==
  ASSUME LocalInv, ClosedInv, NEW r \in Requests, CommitSlotCancel(r)
  PROVE  ClosedInv'
<1>0. Alone(r) /\ ~HoldsSlot(r)' /\ HoldsSlot(r) /\ RowTypes
  BY FinishLocal, Unpack DEF Local, CommitSlotCancel, HoldsSlot, SeatsWritten
<1>1. \A q \in Requests : ~HoldsSlot(q)'
  BY <1>0 DEF ClosedInv, OneSweeps, Alone, HoldsSlot
<1>2. /\ \A x \in Reservations \ job[r].on : book'[x] = book[x]
      /\ \A x \in job[r].on \cap Reservations : book'[x].status = "REJECTED"
  BY <1>0, RewriteStays DEF CommitSlotCancel, Status
<1>3. ASSUME NEW x \in Booked', Active(x)' PROVE Late(x)'
  <2>1. x \in Reservations /\ x \notin job[r].on
    BY <1>2, <1>3 DEF Active, Booked
  <2>2. x \in Booked /\ notes'[x] = notes[x]
    BY <1>2, <1>3, <2>1 DEF CommitSlotCancel, Booked
  <2> QED BY <1>0, <2>1, <2>2 DEF ClosedInv, SweepReads, Late
<1> QED BY <1>1, <1>3 DEF ClosedInv, OneSweeps, SweepReads, CancelledSlotIsClosed, Late

LEMMA PlaceClosed ==
  ASSUME LocalInv, ClosedInv, NEW r \in Requests,
         CommitEvaluations(r) \/ \E p \in Places : JoinSeat(r, p) \/ Reward(r, p)
  PROVE  ClosedInv'
<1>1. Alone(r) /\ pc'[r] \in {"idle", "reward"} /\ UNCHANGED <<book, notes, slot>>
  BY EvaluateFacts, JoinSeatFacts, RewardFacts DEF Good, Local
<1>2. ~HoldsSlot(r)'
  BY <1>1 DEF HoldsSlot
<1>3. \A res \in Reservations : Late(res) => Late(res)'
  BY <1>1 DEF Late
<1> QED BY <1>1, <1>2, <1>3, StaysClosed, QuietSweeps

\* Once the slot is cancelled, a reservation is still active only if it was made, or
\* accepted, too late for the cancellation to see.
THEOREM CancelledSlotIsClosedAlways == Spec => []CancelledSlotIsClosed
<1>1. Init => ClosedInv
  BY DEF Init, ClosedInv, OneSweeps, SweepReads, CancelledSlotIsClosed, HoldsSlot
<1>2. LocalInv /\ DecidesBooked /\ ClosedInv /\ [Next]_vars => ClosedInv'
  <2> SUFFICES ASSUME LocalInv, DecidesBooked, ClosedInv, [Next]_vars PROVE ClosedInv'
    OBVIOUS
  <2>1. CASE Tick \/ UNCHANGED vars
    BY <2>1 DEF Tick, vars, ClosedInv, OneSweeps, SweepReads, CancelledSlotIsClosed, HoldsSlot,
                Booked, Active, Late
  <2> QED BY <2>1, NextCases, WaitsClosed, CreateClosed, CommitStatusClosed,
             CommitSlotCancelClosed, PlaceClosed
<1>3. ClosedInv => CancelledSlotIsClosed
  BY DEF ClosedInv
<1> QED BY <1>1, <1>2, <1>3, SpecLocal, SpecDecides, PTL DEF Spec

-----------------------------------------------------------------------------
(* Points follow the history *)

Repriced(res) == "repriced" \in notes[res]

\* The price is what a reservation was made at, unless it is noted.
Priced(res) == ~Repriced(res) => book[res].points = opportunity.price * book[res].withPoint

\* A decision under way has read that price.
DecidedAt(r) ==
  pc[r] = "seats" /\ job[r].op \in Decisions =>
    \A res \in job[r].on : ~Repriced(res) => job[r].price = opportunity.price

PriceInv == (\A res \in Booked : Priced(res)) /\ \A r \in Requests : DecidedAt(r)

\* An edit of the price is noted for every reservation there is.
LEMMA PriceNoted ==
  ASSUME LocalInv, NEW r \in Requests, Waits(r)
  PROVE  \/ opportunity'.price = opportunity.price
         \/ \A res \in Booked : Repriced(res)'
<1>1. CASE Arrives(r) \/ Locks(r)
  BY <1>1, ArrivalLocal, LocksLocal DEF rows
<1>2. CASE Idles(r)
  <2>1. ASSUME NEW o \in Opportunity, EditOpportunity(r, o), o.price /= opportunity.price
        PROVE  \A res \in Booked : Repriced(res)'
    BY <2>1 DEF EditOpportunity, Repriced, Booked
  <2>2. ASSUME NEW o \in Opportunity, EditOpportunity(r, o) PROVE opportunity' = o
    BY <2>2 DEF EditOpportunity
  <2>3. ASSUME CompleteSlot(r) \/ Fail(r) PROVE opportunity' = opportunity
    BY <2>3 DEF CompleteSlot, Fail, rows
  <2>4. ASSUME NEW h \in Hosting, NEW c \in Capacities, NEW p \in Period, EditSlot(r, h, c, p)
        PROVE  opportunity' = opportunity
    BY <2>4 DEF EditSlot
  <2> QED BY <1>2, <2>1, <2>2, <2>3, <2>4 DEF Idles
<1> QED BY <1>1, <1>2 DEF Waits

\* The price is read with the lock on the reservation, and kept.
LEMMA PriceRead ==
  ASSUME LocalInv, NEW r \in Requests, Locks(r), pc'[r] = "seats", job'[r].op \in Decisions
  PROVE  \/ pc[r] = "row" /\ job'[r].price = opportunity.price
         \/ /\ pc[r] = "seats" /\ job[r].op \in Decisions
            /\ job'[r].price = job[r].price /\ job'[r].on = job[r].on
<1>0. /\ LocalTypes /\ StepInv(r) /\ job[r] \in Job /\ Locking(r)
  BY LocksLocal, Unpack DEF LocalInv, LocalTypes
<1>1. CASE pc[r] = "row"
  <2>1. PICK res \in Reservations : SetStatus(r, res)
    BY <1>1 DEF Locks, SetHosting, ReadEvaluations, RejectNext, SeatsWritten, LockSeat,
                InsertEvaluation
  <2> QED BY <1>0, <1>1, <2>1 DEF SetStatus, LocalTypes, Job
<1>2. CASE pc[r] = "seats"
  <2>1. CASE \E p \in Places : LockSeat(r, p)
    BY <1>0, <1>2, <2>1 DEF LockSeat, LocalTypes, Job
  <2>2. CASE \E res \in Reservations : RejectNext(r, res)
    BY <1>0, <1>2, <2>2 DEF RejectNext, Locking, Decisions
  <2> QED BY <1>2, <2>1, <2>2 DEF Locks, SetHosting, ReadEvaluations, SetStatus, InsertEvaluation
<1>3. pc[r] \in {"row", "seats"}
  BY <1>0 DEF Locking, StepInv, Decisions
<1> QED BY <1>1, <1>2, <1>3

\* A step that keeps the reservations' points, and either keeps the price or notes it
LEMMA PriceKept ==
  ASSUME PriceInv, DecidesBooked, NEW r \in Requests, Alone(r), DecidedAt(r)',
         \A res \in Booked : Repriced(res) => Repriced(res)',
         opportunity'.price = opportunity.price \/ \A res \in Booked : Repriced(res)',
         \A res \in Booked' : \/ Priced(res)'
                              \/ /\ res \in Booked /\ book'[res].points = book[res].points
                                 /\ book'[res].withPoint = book[res].withPoint
  PROVE  PriceInv'
<1>1. ASSUME NEW res \in Booked' PROVE Priced(res)'
  BY <1>1 DEF PriceInv, Priced
<1>2. ASSUME NEW q \in Requests PROVE DecidedAt(q)'
  <2>1. CASE q = r
    BY <2>1
  <2>2. CASE q /= r
    <3>1. pc'[q] = pc[q] /\ job'[q] = job[q] /\ DecidedAt(q)
      BY <2>2 DEF Alone, PriceInv
    <3>2. pc[q] = "seats" /\ job[q].op \in Decisions => job[q].on \subseteq Booked
      BY DEF DecidesBooked, Decisions
    <3> QED BY <3>1, <3>2 DEF DecidedAt
  <2> QED BY <2>1, <2>2
<1> QED BY <1>1, <1>2 DEF PriceInv

LEMMA WaitsPrice ==
  ASSUME LocalInv, DecidesBooked, PriceInv, NEW r \in Requests, Waits(r)
  PROVE  PriceInv'
<1>0. /\ Alone(r) /\ UNCHANGED book /\ Booked' = Booked
      /\ opportunity'.price = opportunity.price \/ \A res \in Booked : Repriced(res)'
      /\ \A res \in Booked : Repriced(res) => Repriced(res)'
  BY WaitsFacts, PriceNoted DEF Good, Local, NotesGrow, Repriced, Booked
<1>1. DecidedAt(r)'
  <2>1. CASE Locks(r)
    <3>1. UNCHANGED <<opportunity, notes>>
      BY <2>1, LocksLocal DEF rows
    <3> QED BY <2>1, <3>1, PriceRead DEF DecidedAt, PriceInv, Repriced
  <2>2. CASE Arrives(r)
    BY <2>2, ArrivalLocal DEF Arrival, DecidedAt
  <2>3. CASE Idles(r)
    <3>1. \/ pc'[r] = "idle" \/ (pc'[r] = pc[r] /\ job'[r] = job[r])
      BY <2>3, IdlesGood
    <3>2. pc[r] = "seats" /\ job[r].op \in Decisions => job[r].on \subseteq Booked
      BY DEF DecidesBooked, Decisions
    <3> QED BY <1>0, <3>1, <3>2 DEF DecidedAt, PriceInv
  <2> QED BY <2>1, <2>2, <2>3 DEF Waits
<1> QED BY <1>0, <1>1, PriceKept

\* What a new reservation pays, and whether that is the price
LEMMA CreatePrice ==
  ASSUME LocalInv, DecidesBooked, PriceInv, NEW r \in Requests, NEW res \in Reservations,
         CreateReservation(r, res)
  PROVE  PriceInv'
<1>0. Alone(r) /\ pc'[r] = "idle" /\ RowTypes /\ UNCHANGED opportunity
  BY FinishLocal, Unpack DEF Local, CreateReservation
<1>1. /\ res \notin Booked
      /\ \A x \in Reservations \ {res} : book'[x] = book[x] /\ notes'[x] = notes[x]
  BY CreateFacts
<1>2. /\ book'[res].withPoint = job[r].withPoint
      /\ book'[res].points = job[r].price * job[r].withPoint
  BY <1>0 DEF CreateReservation, RowTypes
<1>3. job[r].price /= opportunity.price => Repriced(res)'
  BY <1>0 DEF CreateReservation, RowTypes, Repriced
<1>4. Priced(res)'
  BY <1>0, <1>2, <1>3 DEF Priced
<1>5. \A x \in Booked : Repriced(x) => Repriced(x)'
  BY <1>1 DEF Repriced, Booked
<1>6. \A x \in Booked' : \/ Priced(x)'
                         \/ /\ x \in Booked /\ book'[x].points = book[x].points
                            /\ book'[x].withPoint = book[x].withPoint
  BY <1>1, <1>4 DEF Booked
<1>7. DecidedAt(r)'
  BY <1>0 DEF DecidedAt
<1> QED BY <1>0, <1>5, <1>6, <1>7, PriceKept

\* Decisions and cancellations rewrite the status and the history only.
LEMMA RewriteKeeps ==
  ASSUME RowTypes, NEW set, NEW s \in Status, Rewrite(set, s), NEW res \in Reservations
  PROVE  /\ book'[res].points = book[res].points /\ book'[res].withPoint = book[res].withPoint
         /\ res \in set => book'[res].history = [book[res].history EXCEPT ![s] = @ + 1]
  BY DEF RowTypes, Rewrite, Booking

LEMMA CommitPrice ==
  ASSUME LocalInv, DecidesBooked, PriceInv, NEW r \in Requests,
         CommitSlotCancel(r) \/ \E res \in Reservations : CommitStatus(r, res)
  PROVE  PriceInv'
<1>0. Alone(r) /\ pc'[r] = "idle" /\ RowTypes /\ UNCHANGED opportunity
  BY FinishLocal, Unpack DEF Local, CommitStatus, CommitSlotCancel
<1>1. ASSUME NEW set, NEW s \in Status, Rewrite(set, s), set \subseteq Booked,
             \A res \in Booked : Repriced(res) => Repriced(res)'
      PROVE  PriceInv'
  <2>1. Booked' = Booked
    BY <1>0, <1>1, RewriteStays DEF Booked
  <2>2. \A res \in Booked' : /\ res \in Booked /\ book'[res].points = book[res].points
                             /\ book'[res].withPoint = book[res].withPoint
    BY <1>0, <1>1, <2>1, RewriteKeeps DEF Booked
  <2>3. DecidedAt(r)'
    BY <1>0 DEF DecidedAt
  <2> QED BY <1>0, <1>1, <2>2, <2>3, PriceKept
<1>2. CASE CommitSlotCancel(r)
  <2>1. /\ Rewrite(job[r].on, "REJECTED") /\ "REJECTED" \in Status
        /\ job[r].on \subseteq Booked
    BY <1>2 DEF CommitSlotCancel, Status, SeatsWritten, DecidesBooked
  <2>2. \A res \in Booked : Repriced(res) => Repriced(res)'
    BY <1>2 DEF CommitSlotCancel, Repriced, Booked
  <2> QED BY <1>1, <2>1, <2>2
<1>3. ASSUME NEW res \in Reservations, CommitStatus(r, res) PROVE PriceInv'
  <2>1. Rewrite({res}, NewStatus(job[r].op)) /\ NewStatus(job[r].op) \in Status
        /\ {res} \subseteq Booked
    BY <1>3 DEF CommitStatus, NewStatus, Status, SeatsWritten, DecidesBooked
  <2>2. \A x \in Booked : Repriced(x) => Repriced(x)'
    BY <1>0, <1>3 DEF CommitStatus, Repriced, Booked, RowTypes
  <2> QED BY <1>1, <2>1, <2>2
<1> QED BY <1>2, <1>3

LEMMA SpecPrice == Spec => []PriceInv
<1>1. Init => PriceInv
  BY DEF Init, PriceInv, Priced, DecidedAt, Booked, NoBooking
<1>2. LocalInv /\ DecidesBooked /\ PriceInv /\ [Next]_vars => PriceInv'
  <2> SUFFICES ASSUME LocalInv, DecidesBooked, PriceInv, [Next]_vars PROVE PriceInv'
    OBVIOUS
  <2>1. CASE Tick \/ UNCHANGED vars
    BY <2>1 DEF Tick, vars, PriceInv, Priced, DecidedAt, Repriced, Booked
  <2>2. ASSUME NEW r \in Requests,
               CommitEvaluations(r) \/ \E p \in Places : JoinSeat(r, p) \/ Reward(r, p)
        PROVE  PriceInv'
    <3>1. Alone(r) /\ pc'[r] \in {"idle", "reward"} /\ UNCHANGED <<book, notes, opportunity>>
      BY <2>2, EvaluateFacts, JoinSeatFacts, RewardFacts DEF Good, Local
    <3> QED BY <3>1, PriceKept DEF DecidedAt, Repriced, Booked
  <2> QED BY <2>1, <2>2, NextCases, WaitsPrice, CreatePrice, CommitPrice
<1> QED BY <1>1, <1>2, SpecLocal, SpecDecides, PTL DEF Spec

\* NetFollowsHistory, of one reservation
Accounted(res) ==
  {"swept", "repriced"} \cap notes[res] = {} =>
    net[res] = book[res].points
                 * (1 - book[res].history["CANCELED"] - book[res].history["REJECTED"])

LEMMA AccountedAll == NetFollowsHistory <=> \A res \in Booked : Accounted(res)
  BY DEF NetFollowsHistory, Accounted

\* One more refund is one more in the history.
LEMMA RefundOnce ==
  ASSUME NEW p \in Nat, NEW c \in Nat, NEW d \in Nat
  PROVE  /\ p * (1 - c - d) - p = p * (1 - (c + 1) - d)
         /\ p * (1 - c - d) - p = p * (1 - c - (d + 1))
<1> DEFINE k == 1 - c - d
<1>1. /\ k \in Int /\ 1 - (c + 1) - d = k - 1 /\ 1 - c - (d + 1) = k - 1
  OBVIOUS
<1> HIDE DEF k
<1>2. p * (k - 1) = p * k - p
  BY <1>1
<1> QED BY <1>1, <1>2 DEF k

LEMMA CreateAccounted ==
  ASSUME LocalInv, NetFollowsHistory, NEW r \in Requests, NEW res \in Reservations,
         CreateReservation(r, res)
  PROVE  NetFollowsHistory'
<1>1. \A x \in Reservations \ {res} :
        book'[x] = book[x] /\ net'[x] = net[x] /\ notes'[x] = notes[x]
  BY CreateFacts
<1>2. /\ book'[res].history["CANCELED"] = 0 /\ book'[res].history["REJECTED"] = 0
      /\ book'[res].points = net'[res] /\ net'[res] \in Nat
  BY CreateFacts
<1>3. net'[res] * (1 - 0 - 0) = net'[res]
  BY <1>2
<1>4. Accounted(res)'
  BY <1>2, <1>3 DEF Accounted
<1>5. ASSUME NEW x \in Booked', x /= res PROVE Accounted(x)'
  BY <1>1, <1>5, AccountedAll DEF Booked, Accounted
<1> QED BY <1>4, <1>5, AccountedAll DEF Booked, NetFollowsHistory, Accounted

\* What is refunded, at the price the decision has read, is what was paid.
LEMMA CommitStatusAccounted ==
  ASSUME LocalInv, DecidesBooked, PriceInv, NetFollowsHistory,
         NEW r \in Requests, NEW res \in Reservations, CommitStatus(r, res)
  PROVE  NetFollowsHistory'
<1>0. RowTypes
  BY Unpack
<1> DEFINE s == NewStatus(job[r].op)
           b == book[res]
<1>1. /\ \A x \in Reservations \ {res} :
           book'[x] = book[x] /\ net'[x] = net[x] /\ notes'[x] = notes[x]
      /\ notes[res] \subseteq notes'[res]
      /\ net'[res] = net[res] - Refund(r, res)
  BY <1>0 DEF CommitStatus, RowTypes, Rewrite
<1>2. /\ b \in Booking /\ b.history \in [Status -> Nat] /\ s \in Status
      /\ b.points \in Nat /\ net[res] \in Int
  BY <1>0 DEF RowTypes, Booking, NewStatus, Status
<1>3. book'[res].points = b.points /\ book'[res].history = [b.history EXCEPT ![s] = @ + 1]
  BY <1>0, <1>2, RewriteKeeps DEF CommitStatus
<1>4. /\ res \in Booked /\ job[r].op \in Decisions /\ pc[r] = "seats" /\ job[r].on = {res}
  BY DEF CommitStatus, DecidesBooked, SeatsWritten, Decisions
<1>5. ~Repriced(res) => Points(r, res) = b.points
  BY <1>4 DEF PriceInv, Priced, DecidedAt, Points
<1>6. /\ "CANCELED" \in Status /\ "REJECTED" \in Status
      /\ b.history["CANCELED"] \in Nat /\ b.history["REJECTED"] \in Nat
  BY <1>2 DEF Status
<1>7. Accounted(res)'
  <2> SUFFICES ASSUME {"swept", "repriced"} \cap notes'[res] = {}
               PROVE  net'[res] = b.points * (1 - book'[res].history["CANCELED"]
                                                - book'[res].history["REJECTED"])
    BY <1>3 DEF Accounted
  <2>1. /\ net[res] = b.points * (1 - b.history["CANCELED"] - b.history["REJECTED"])
        /\ Points(r, res) = b.points
    BY <1>1, <1>4, <1>5 DEF NetFollowsHistory, Repriced
  <2>2. CASE job[r].op = "accept"
    <3>1. Refund(r, res) = 0 /\ s = "ACCEPTED"
      BY <2>2 DEF Refund, NewStatus
    <3>2. /\ book'[res].history["CANCELED"] = b.history["CANCELED"]
          /\ book'[res].history["REJECTED"] = b.history["REJECTED"]
      BY <1>2, <1>3, <1>6, <3>1
    <3>3. net'[res] = net[res]
      BY <1>1, <1>2, <3>1
    <3> QED BY <2>1, <3>2, <3>3
  <2>3. CASE job[r].op = "cancel"
    <3>1. Refund(r, res) = b.points /\ s = "CANCELED"
      BY <2>1, <2>3 DEF Refund, NewStatus
    <3>2. /\ book'[res].history["CANCELED"] = b.history["CANCELED"] + 1
          /\ book'[res].history["REJECTED"] = b.history["REJECTED"]
      BY <1>2, <1>3, <1>6, <3>1
    <3>3. net'[res] = net[res] - b.points
      BY <1>1, <3>1
    <3> QED BY <1>2, <1>6, <2>1, <3>2, <3>3, RefundOnce
  <2>4. CASE job[r].op \notin {"accept", "cancel"}
    <3>1. Refund(r, res) = b.points /\ s = "REJECTED"
      BY <2>1, <2>4 DEF Refund, NewStatus
    <3>2. /\ book'[res].history["CANCELED"] = b.history["CANCELED"]
          /\ book'[res].history["REJECTED"] = b.history["REJECTED"] + 1
      BY <1>2, <1>3, <1>6, <3>1
    <3>3. net'[res] = net[res] - b.points
      BY <1>1, <3>1
    <3> QED BY <1>2, <1>6, <2>1, <3>2, <3>3, RefundOnce
  <2> QED BY <2>2, <2>3, <2>4
<1>8. ASSUME NEW x \in Booked', x /= res PROVE Accounted(x)'
  BY <1>1, <1>8, AccountedAll DEF Booked, Accounted
<1> QED BY <1>7, <1>8 DEF Booked, NetFollowsHistory, Accounted

LEMMA CommitSlotCancelAccounted ==
  ASSUME LocalInv, NetFollowsHistory, NEW r \in Requests, CommitSlotCancel(r)
  PROVE  NetFollowsHistory'
<1>0. RowTypes
  BY Unpack
<1>1. ASSUME NEW x \in Booked' PROVE Accounted(x)'
  <2>1. CASE x \in job[r].on
    BY <1>0, <1>1, <2>1 DEF CommitSlotCancel, RowTypes, Accounted, Booked
  <2>2. CASE x \notin job[r].on
    <3>1. book'[x] = book[x] /\ net'[x] = net[x] /\ notes'[x] = notes[x] /\ x \in Booked
      BY <1>0, <1>1, <2>2 DEF CommitSlotCancel, RowTypes, Rewrite, Booked
    <3> QED BY <3>1, AccountedAll DEF Accounted
  <2> QED BY <2>1, <2>2
<1> QED BY <1>1 DEF NetFollowsHistory, Accounted

\* Unless the slot is cancelled or the price edited, the points moved for a reservation
\* are what it paid times one less the number of its cancellations and rejections,
\* whatever order they came in.
THEOREM NetFollowsHistoryAlways == Spec => []NetFollowsHistory
<1>1. Init => NetFollowsHistory
  BY DEF Init, NetFollowsHistory, Booked, NoBooking
<1>2. LocalInv /\ DecidesBooked /\ PriceInv /\ NetFollowsHistory /\ [Next]_vars
        => NetFollowsHistory'
  <2> SUFFICES ASSUME LocalInv, DecidesBooked, PriceInv, NetFollowsHistory, [Next]_vars
               PROVE  NetFollowsHistory'
    OBVIOUS
  <2>1. ASSUME UNCHANGED <<book, net>>,
               \A res \in Reservations : notes[res] \subseteq notes'[res]
        PROVE  NetFollowsHistory'
    BY <2>1 DEF NetFollowsHistory, Booked
  <2>2. CASE Tick \/ UNCHANGED vars
    BY <2>1, <2>2 DEF Tick, vars
  <2>3. ASSUME NEW r \in Requests, Waits(r) PROVE NetFollowsHistory'
    BY <2>1, <2>3, WaitsFacts DEF NotesGrow
  <2>4. ASSUME NEW r \in Requests,
               CommitEvaluations(r) \/ \E p \in Places : JoinSeat(r, p) \/ Reward(r, p)
        PROVE  NetFollowsHistory'
    BY <2>1, <2>4 DEF CommitEvaluations, JoinSeat, Reward
  <2> QED BY <2>2, <2>3, <2>4, NextCases, CreateAccounted, CommitStatusAccounted,
             CommitSlotCancelAccounted
<1> QED BY <1>1, <1>2, SpecLocal, SpecDecides, SpecPrice, PTL DEF Spec

\* Hence the points a reservation has moved are those its history accounts for, and its
\* rewards those its overlapping evaluations do.
THEOREM PointsFollowHistoryAlways == Spec => []PointsFollowHistory
<1>1. NetFollowsHistory /\ RewardsAreClaimed => PointsFollowHistory
  BY DEF PointsFollowHistory
<1> QED BY <1>1, NetFollowsHistoryAlways, RewardsAreClaimedAlways, PTL
=============================================================================
