------------------------------ MODULE VotePoll -------------------------------
(***************************************************************************)
(* What a vote topic promises, seen from outside: a cast is one step, in   *)
(* which the user's ballot moves to its option and what the options show   *)
(* changes by just that.  There are no ballots before the topic opens; an  *)
(* edit starts over, with options that show nothing.                       *)
(*                                                                         *)
(* Not promised: that an edit comes before the topic opens, that a cast    *)
(* comes before it closes, or that the ballot of a user who leaves is      *)
(* taken from what its option shows.  Vote shows why.                      *)
(***************************************************************************)
EXTENDS Integers

CONSTANTS
  Users,
  OptionIds,     \* every option there can ever be
  FirstOptions,  \* the options the topic is created with
  Powers,        \* what a ballot may weigh
  NoBallot       \* the ballot of a user who has none

VARIABLES
  phase,   \* upcoming, open or closed
  shown,   \* shown[o]: the number of ballots of option o, and their power
  ballot,  \* ballot[u]: the option and the power of the user's ballot
  gone     \* users who have left

pollVars == <<phase, shown, ballot, gone>>

Options == DOMAIN shown
Nothing == [count |-> 0, power |-> 0]

PollInit ==
  /\ phase = "upcoming"
  /\ shown = [o \in FirstOptions |-> Nothing]
  /\ ballot = [u \in Users |-> NoBallot]
  /\ gone = {}

\* What ballot b adds to option o.
CountOf(b, o) == IF b.option = o THEN 1 ELSE 0
PowerOf(b, o) == IF b.option = o THEN b.power ELSE 0

Moved(old, new) == [o \in Options |->
  [count |-> shown[o].count - CountOf(old, o) + CountOf(new, o),
   power |-> shown[o].power - PowerOf(old, o) + PowerOf(new, o)]]

\* A first ballot, or another one, of a user who is there for an option that is there
Cast(u, b) ==
  /\ phase /= "upcoming" /\ u \notin gone /\ b.option \in Options
  /\ ballot' = [ballot EXCEPT ![u] = b]
  /\ shown' = Moved(ballot[u], b)
  /\ UNCHANGED <<phase, gone>>

\* The options, and the ballots with them, are replaced, or removed for good.
StartOver(fresh, after) ==
  /\ Options /= {} /\ fresh \cap Options = {}
  /\ fresh = {} => after = phase
  /\ phase' = after
  /\ shown' = [o \in fresh |-> Nothing]
  /\ ballot' = [u \in Users |-> NoBallot]
  /\ UNCHANGED gone

TimePasses ==
  /\ <<phase, phase'>> \in {<<"upcoming", "open">>, <<"open", "closed">>}
  /\ UNCHANGED <<shown, ballot, gone>>

Depart(u) ==
  /\ u \notin gone /\ gone' = gone \cup {u}
  /\ ballot' = [ballot EXCEPT ![u] = NoBallot]
  /\ UNCHANGED <<phase, shown>>

\* Each step changes something.
PollNext ==
  /\ pollVars' /= pollVars
  /\ \/ \E u \in Users, b \in [option: OptionIds, power: Powers] : Cast(u, b)
     \/ \E fresh \in SUBSET OptionIds, after \in {"upcoming", "open", "closed"} : StartOver(fresh, after)
     \/ TimePasses
     \/ \E u \in Users : Depart(u)

PollSpec == PollInit /\ [][PollNext]_pollVars
=============================================================================
