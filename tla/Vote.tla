--------------------------------- MODULE Vote ---------------------------------
(***************************************************************************)
(* A vote topic of a community: managers edit and delete it before it      *)
(* opens, members cast ballots and change them while it is open.  Each     *)
(* option carries the number of its ballots and the sum of their powers,   *)
(* which a cast updates in the transaction of the ballot.                  *)
(*                                                                         *)
(* A cast holds an advisory lock of its user and topic throughout, the     *)
(* ballot's row and a share of the option it refers to (the foreign key)   *)
(* from the upsert on, and the rows of the options whose counts change,    *)
(* one after the other.  An edit replaces all options, a deletion removes  *)
(* them: both lock the topic, then option after option, then the ballots   *)
(* that are deleted with these.  A lock is given up at the commit, which   *)
(* is one step with the last lock, or when the transaction fails.          *)
(*                                                                         *)
(* Abstracted: time is the phase of the topic; what the gate and the power *)
(* policy find (NFTs, a membership, a role, which change at any time) is   *)
(* one weight, 0 for a user who may not vote; labels and texts.            *)
(*                                                                         *)
(* Some names begin with Vote or Cast so that a module can extend this one *)
(* and Report.                                                             *)
(***************************************************************************)
EXTENDS Integers, Sequences, FiniteSetsExt

CONSTANTS
  Users,           \* users of the community
  NoUser,          \* the user of a cast that is not under way
  Casts,           \* slots for casts under way
  Managers,        \* slots for edits and deletions under way
  OptionsPerTopic, \* options of the topic, and of each edit of it
  MaxEdits,        \* bound: edits ever committed
  MaxWeight        \* bound: the largest power of a ballot

ASSUME ActorAssumption == Casts \cap Managers = {} /\ NoUser \notin Users
ASSUME OptionAssumption == OptionsPerTopic \in Nat \ {0}
ASSUME LimitAssumption == MaxEdits \in Nat /\ MaxWeight \in Nat \ {0}

VARIABLES
  phase,   \* upcoming, open or closed: calcPhase at this moment
  options, \* ids of the topic's rows of t_vote_options; {} once it is deleted
  tally,   \* tally[o]: voteCount and totalPower of option o
  ballot,  \* ballot[u]: the user's row of t_vote_ballots
  gone,    \* users who have deleted their account
  votePc,  \* votePc[x]: next step of a cast or manager
  cast,    \* cast[c]: what a cast keeps
  edit,    \* edit[m]: what an edit or deletion keeps
  ghost    \* history: the ballot of a user who has deleted the account

voteVars == <<phase, options, tally, ballot, gone, votePc, cast, edit, ghost>>
topic == <<phase, options, tally>>

-----------------------------------------------------------------------------
(* Rows *)

\* Ids are handed out in the order of creation, OptionsPerTopic at a time.
Ids == 1..(OptionsPerTopic * (MaxEdits + 1))
Batch(n) == (OptionsPerTopic * n + 1)..(OptionsPerTopic * (n + 1))

\* option is 0 where there is no ballot.
Ballot == [option: {0}, power: {0}] \cup [option: Ids, power: 1..MaxWeight]
NoBallot == [option |-> 0, power |-> 0]

CastMemory == [user: Users \cup {NoUser}, option: Ids \cup {0}, power: 0..MaxWeight, old: Ballot]
NoCast == [user |-> NoUser, option |-> 0, power |-> 0, old |-> NoBallot]

\* held: the options an edit has locked; late: the topic opened after it was read.
Plan == [kind: {"none", "edit", "delete"}, held: SUBSET Ids, late: BOOLEAN]
NoPlan == [kind |-> "none", held |-> {}, late |-> FALSE]

VoteInit ==
  /\ phase = "upcoming"
  /\ options = Batch(0)
  /\ tally = [o \in Ids |-> [count |-> 0, power |-> 0]]
  /\ ballot = [u \in Users |-> NoBallot]
  /\ gone = {}
  /\ votePc = [x \in Casts \cup Managers |-> "idle"]
  /\ cast = [c \in Casts |-> NoCast]
  /\ edit = [m \in Managers |-> NoPlan]
  /\ ghost = [u \in Users |-> NoBallot]

VoteGoto(x, label) == votePc' = [votePc EXCEPT ![x] = label]

-----------------------------------------------------------------------------
(* Locks *)

\* Casts that have written the ballot of user u.
HoldBallot(u) == {c \in Casts : votePc[c] \in {"first", "second"} /\ cast[c].user = u}

\* Casts that refer to option o from a ballot they have written.
Share(o) == {c \in Casts : votePc[c] \in {"first", "second"}
                             /\ cast[c].option = o /\ cast[c].old.option /= o}

Moves(c) == cast[c].old.option \notin {0, cast[c].option}

\* Faulty: the old option first, then the new one.
OldFirst(c) ==
  IF Moves(c) THEN <<cast[c].old.option, cast[c].option>> ELSE <<cast[c].option>>

\* updateOptionCounts: the options whose rows it writes, in that order.
Rows(c) ==
  LET old == cast[c].old IN
  IF Moves(c) THEN IF old.option < cast[c].option THEN <<old.option, cast[c].option>>
                   ELSE <<cast[c].option, old.option>>
  ELSE IF old = [option |-> cast[c].option, power |-> cast[c].power] THEN <<>>
  ELSE <<cast[c].option>>

\* Casts that have written the row of option o, and managers who delete it.
Write(o) == {c \in Casts : votePc[c] = "second" /\ Rows(c)[1] = o}
Delete(o) == {m \in Managers : o \in edit[m].held}

\* The manager who has written the topic, or deletes it, and the casts that refer
\* to it from a new ballot.
HoldTopic == {m \in Managers : votePc[m] \in {"options", "ballots"}}
ShareTopic == {c \in Casts : votePc[c] \in {"first", "second"} /\ cast[c].old = NoBallot}
DeleteTopic == {m \in HoldTopic : edit[m].kind = "delete"}

NextRow(c) == IF votePc[c] = "first" THEN Rows(c)[1] ELSE Rows(c)[2]
NextOption(m) == Min(options \ edit[m].held)

\* Who holds what x asks for next.
Blockers(x) ==
  CASE votePc[x] = "upsert" ->
         (HoldBallot(cast[x].user) \ {x})
         \cup (IF cast[x].old.option = cast[x].option THEN {} ELSE Delete(cast[x].option))
         \cup (IF cast[x].old = NoBallot THEN DeleteTopic ELSE {})
    [] votePc[x] \in {"first", "second"} ->
         (Write(NextRow(x)) \ {x}) \cup Delete(NextRow(x))
    [] votePc[x] = "topic" ->
         (HoldTopic \ {x}) \cup (IF edit[x].kind = "delete" THEN ShareTopic ELSE {})
    [] votePc[x] = "options" -> Share(NextOption(x)) \cup Write(NextOption(x))
    [] votePc[x] = "ballots" -> UNION {HoldBallot(u) : u \in {v \in Users : ballot[v].option /= 0}}
    [] OTHER -> {}

Granted(x) == Blockers(x) = {}

\* Transactions each of which waits for another one of them.
Stuck(S) == S /= {} /\ \A x \in S : Blockers(x) \cap S /= {}

-----------------------------------------------------------------------------
(* Casting *)

\* Faulty: only the end of the period is checked.
NotClosed == phase /= "closed"

\* validateVotingPeriod
Open == phase = "open"

\* Faulty: nothing keeps two casts of a user apart.
NoVoteLock(u) == TRUE

\* acquireVoteLock
VoteLock(u) == \A c \in Casts : votePc[c] /= "idle" => cast[c].user /= u

\* The topic is read: it exists, its period is on, the option is one of its own.
BeginCast(c, u, o) ==
  /\ votePc[c] = "idle" /\ u \notin gone
  /\ VoteLock(u)
  /\ Open /\ o \in options
  /\ cast' = [cast EXCEPT ![c] = [NoCast EXCEPT !.user = u, !.option = o]]
  /\ VoteGoto(c, "find")
  /\ UNCHANGED <<topic, ballot, gone, edit, ghost>>

\* Faulty: the gate is passed, and the power taken as it is.
AnyWeight(w) == TRUE

\* checkEligibility and the check of the power
Eligible(w) == w > 0

\* calculatePower finds weight w, and findBallot follows.
FindBallot(c, w) ==
  /\ votePc[c] = "find" /\ Eligible(w)
  /\ cast' = [cast EXCEPT ![c].power = w, ![c].old = ballot[cast[c].user]]
  /\ VoteGoto(c, "upsert")
  /\ UNCHANGED <<topic, ballot, gone, edit, ghost>>

\* Faulty: a ballot that moves takes its new power from the old option.
CountedAnew(c) ==
  LET new == cast[c].option
      old == cast[c].old
      taken == IF old = NoBallot THEN tally
               ELSE [tally EXCEPT ![old.option].count = @ - 1,
                                  ![old.option].power = @ - (IF Moves(c) THEN cast[c].power ELSE old.power)]
  IN  [taken EXCEPT ![new].count = @ + 1, ![new].power = @ + cast[c].power]

\* The counts once the cast is committed.
Counted(c) ==
  LET new == cast[c].option
      old == cast[c].old
      taken == IF old = NoBallot THEN tally
               ELSE [tally EXCEPT ![old.option].count = @ - 1, ![old.option].power = @ - old.power]
  IN  [taken EXCEPT ![new].count = @ + 1, ![new].power = @ + cast[c].power]

CommitCast(c) ==
  /\ tally' = Counted(c)
  /\ ballot' = [ballot EXCEPT ![cast[c].user] = [option |-> cast[c].option, power |-> cast[c].power]]
  /\ VoteGoto(c, "idle")
  /\ cast' = [cast EXCEPT ![c] = NoCast]
  /\ UNCHANGED <<phase, options, gone, edit, ghost>>

\* upsertBallot; a ballot that is cast again unchanged changes no option.
Upsert(c) ==
  /\ votePc[c] = "upsert" /\ Granted(c)
  /\ cast[c].option \in options /\ cast[c].user \notin gone
  /\ IF Rows(c) = <<>> THEN CommitCast(c)
     ELSE VoteGoto(c, "first") /\ UNCHANGED <<topic, ballot, gone, cast, edit, ghost>>

\* incrementOptionCount, decrementOptionCount and adjustOptionTotalPower
WriteFirst(c) ==
  /\ votePc[c] = "first" /\ Granted(c)
  /\ IF Len(Rows(c)) = 1 THEN CommitCast(c)
     ELSE VoteGoto(c, "second") /\ UNCHANGED <<topic, ballot, gone, cast, edit, ghost>>

WriteSecond(c) ==
  /\ votePc[c] = "second" /\ Granted(c)
  /\ CommitCast(c)

DropCast(c) ==
  /\ VoteGoto(c, "idle")
  /\ cast' = [cast EXCEPT ![c] = NoCast]
  /\ UNCHANGED <<topic, ballot, gone, edit, ghost>>

\* The user may not vote.
RefuseVoter(c, w) == votePc[c] = "find" /\ ~Eligible(w) /\ DropCast(c)

\* The foreign keys find that the user or the option has been deleted meanwhile.
RefuseBallot(c) ==
  /\ votePc[c] = "upsert" /\ Granted(c)
  /\ cast[c].user \in gone \/ cast[c].option \notin options
  /\ DropCast(c)

-----------------------------------------------------------------------------
(* Editing and deleting *)

\* Faulty: a topic may be deleted until it is closed.
NotOver == phase /= "closed"

\* validateTopicIsUpcoming
Upcoming == phase = "upcoming"

\* Edits committed so far; the options come from the latest.
Edits == (Max(options) \div OptionsPerTopic) - 1

\* managerUpdateVoteTopic, managerDeleteVoteTopic
ReadTopic(m, kind) ==
  /\ votePc[m] = "idle" /\ options /= {} /\ Upcoming
  /\ kind = "edit" => Edits + Cardinality({n \in Managers : edit[n].kind = "edit"}) < MaxEdits
  /\ edit' = [edit EXCEPT ![m] = [NoPlan EXCEPT !.kind = kind]]
  /\ VoteGoto(m, "topic")
  /\ UNCHANGED <<topic, ballot, gone, cast, ghost>>

\* updateTopic and the replacement of gate and policy, or the deletion of the topic
LockTopic(m) ==
  /\ votePc[m] = "topic" /\ Granted(m) /\ options /= {}
  /\ VoteGoto(m, "options")
  /\ UNCHANGED <<topic, ballot, gone, cast, edit, ghost>>

\* deleteOptions
LockOption(m) ==
  /\ votePc[m] = "options" /\ Granted(m)
  /\ edit' = [edit EXCEPT ![m].held = @ \cup {NextOption(m)}]
  /\ IF edit[m].held \cup {NextOption(m)} = options THEN VoteGoto(m, "ballots") ELSE UNCHANGED votePc
  /\ UNCHANGED <<topic, ballot, gone, cast, ghost>>

\* The edits that have read the topic when it opens.
Overrun == [m \in Managers |-> IF votePc[m] = "idle" THEN edit[m] ELSE [edit[m] EXCEPT !.late = TRUE]]

\* The ballots go with their options.
RemoveOptions(m) ==
  /\ votePc[m] = "ballots" /\ Granted(m)
  /\ ballot' = [u \in Users |-> NoBallot]
  /\ tally' = [o \in Ids |-> [count |-> 0, power |-> 0]]
  /\ VoteGoto(m, "idle")
  /\ UNCHANGED <<gone, cast, ghost>>

\* createOptions and the commit.  validateTopicInput asks of a period only that
\* it is not empty: the topic may be open or closed from here on.
CommitEdit(m, after) ==
  /\ edit[m].kind = "edit" /\ RemoveOptions(m)
  /\ options' = Batch(Edits + 1)
  /\ phase' = after
  /\ edit' = [IF after = "upcoming" THEN edit ELSE Overrun EXCEPT ![m] = NoPlan]

\* deleteTopic and the commit
CommitDelete(m) ==
  /\ edit[m].kind = "delete" /\ RemoveOptions(m)
  /\ options' = {}
  /\ edit' = [edit EXCEPT ![m] = NoPlan]
  /\ UNCHANGED phase

DropEdit(m) ==
  /\ VoteGoto(m, "idle")
  /\ edit' = [edit EXCEPT ![m] = NoPlan]
  /\ UNCHANGED <<topic, ballot, gone, cast, ghost>>

\* Another manager has deleted the topic.
RefuseEdit(m) == votePc[m] = "topic" /\ Granted(m) /\ options = {} /\ DropEdit(m)

-----------------------------------------------------------------------------
(* Time, failures, and what changes elsewhere *)

Opens ==
  /\ phase = "upcoming" /\ phase' = "open"
  /\ edit' = Overrun
  /\ UNCHANGED <<options, tally, ballot, gone, votePc, cast, ghost>>

Closes ==
  /\ phase = "open" /\ phase' = "closed"
  /\ UNCHANGED <<options, tally, ballot, gone, votePc, cast, edit, ghost>>

\* deleteUserAndIdentity: the ballot goes with the user's row, and nothing else.
DeleteUser(u) ==
  /\ u \notin gone /\ HoldBallot(u) = {}
  /\ gone' = gone \cup {u}
  /\ ballot' = [ballot EXCEPT ![u] = NoBallot]
  /\ ghost' = [ghost EXCEPT ![u] = ballot[u]]
  /\ UNCHANGED <<topic, votePc, cast, edit>>

\* An error, a timeout, or PostgreSQL ends one of several transactions that wait
\* for each other: nothing is written, and all locks are given up.
Drop(x) ==
  /\ votePc[x] /= "idle"
  /\ IF x \in Casts THEN DropCast(x) ELSE DropEdit(x)

-----------------------------------------------------------------------------
(* Specification *)

CastStep(c) ==
  \/ \E w \in 0..MaxWeight : FindBallot(c, w) \/ RefuseVoter(c, w)
  \/ Upsert(c) \/ WriteFirst(c) \/ WriteSecond(c) \/ RefuseBallot(c)

EditStep(m) ==
  \/ LockTopic(m) \/ LockOption(m) \/ CommitDelete(m) \/ RefuseEdit(m)
  \/ \E after \in {"upcoming", "open", "closed"} : CommitEdit(m, after)

VoteNext ==
  \/ \E c \in Casts, u \in Users, o \in Ids : BeginCast(c, u, o)
  \/ \E c \in Casts : CastStep(c)
  \/ \E m \in Managers, kind \in {"edit", "delete"} : ReadTopic(m, kind)
  \/ \E m \in Managers : EditStep(m)
  \/ \E x \in Casts \cup Managers : Drop(x)
  \/ Opens \/ Closes
  \/ \E u \in Users : DeleteUser(u)

VoteSpec == VoteInit /\ [][VoteNext]_voteVars

-----------------------------------------------------------------------------
(* Properties *)

VoteTypeOK ==
  /\ phase \in {"upcoming", "open", "closed"}
  /\ options \subseteq Ids
  /\ tally \in [Ids -> [count: Nat, power: Nat]]
  /\ ballot \in [Users -> Ballot] /\ ghost \in [Users -> Ballot]
  /\ gone \subseteq Users
  /\ votePc \in [Casts \cup Managers ->
            {"idle", "find", "upsert", "first", "second", "topic", "options", "ballots"}]
  /\ cast \in [Casts -> CastMemory]
  /\ edit \in [Managers -> Plan]

\* The counts of an option are those of the ballots that name it, however many
\* casts, edits and failures there were; only the ballots of users who have
\* deleted their account stay in the counts.
VotersOf(o) == {u \in Users : ballot[u].option = o}
GhostsOf(o) == {u \in Users : ghost[u].option = o}

CountsMatchBallots == \A o \in options :
  tally[o].count = Cardinality(VotersOf(o)) + Cardinality(GhostsOf(o))

\* The same for the powers: each ballot counts with the power it was cast with,
\* whatever its voter holds by now.
PowersMatchBallots == \A o \in options :
  tally[o].power = MapThenSumSet(LAMBDA u : ballot[u].power, VotersOf(o))
                   + MapThenSumSet(LAMBDA u : ghost[u].power, GhostsOf(o))

\* Both: what an option shows is what its ballots add up to.
TalliesMatchBallots == CountsMatchBallots /\ PowersMatchBallots

\* Casts never wait for each other in a circle: the order in which the options are
\* written prevents it.  Every deadlock has an edit or a deletion in it that read
\* the topic before it opened.
DeadlockNeedsLateEdit == \A S \in SUBSET (Casts \cup Managers) :
  Stuck(S) => \E m \in S \cap Managers : edit[m].late

\* A topic that has not opened has no ballots and no counts, as the replacement of
\* the options takes for granted: a cast that overlaps an edit leaves nothing.
OpensEmpty ==
  phase = "upcoming" => /\ \A u \in Users : ballot[u] = NoBallot
                        /\ \A o \in options : tally[o] = [count |-> 0, power |-> 0]

\* A ballot that was cast disappears only with its user, or through an edit or a
\* deletion that had read the topic before it opened.
BallotsSurvive == [][\A u \in Users :
  ballot[u] /= NoBallot /\ ballot'[u] = NoBallot =>
    (u \in gone') \/ \E m \in Managers : edit[m].late /\ votePc'[m] = "idle"]_voteVars

\* What the topic promises: every commit is one step of a poll, although a cast
\* adds to what it finds and takes away what it read of the ballot before.
Poll == INSTANCE VotePoll WITH
  OptionIds <- Ids, FirstOptions <- Batch(0), Powers <- 1..MaxWeight,
  shown <- [o \in options |-> tally[o]]

ImplementsPoll == Poll!PollSpec
=============================================================================
