-------------------------------- MODULE SignUp --------------------------------
(***************************************************************************)
(* One person with one phone and a LINE login in each of several           *)
(* communities: the users the system takes these for, and their            *)
(* memberships.                                                            *)
(*                                                                         *)
(* A LINE login is a row of t_identities with a community, unique for uid  *)
(* and community.  The phone is a row without one: its uniqueness is not   *)
(* enforced, since the database does not take two NULLs for the same, and  *)
(* rests on looks that are not in the statement that inserts.              *)
(*                                                                         *)
(* A check of the phone looks up the user before its transaction, which    *)
(* then adds the login that is missing and joins the community.  A signup  *)
(* looks up the phone, creates the user with the logins, and joins in a    *)
(* transaction of its own.  Every call may fail between two of its steps.  *)
(*                                                                         *)
(* Abstracted: Firebase and its tokens, the wallet and the bonus of a      *)
(* membership (Membership, IncentiveGrant), the profile.                   *)
(*                                                                         *)
(* Some names begin with SignUp so that a module can extend this one and   *)
(* Membership.                                                             *)
(***************************************************************************)
EXTENDS Naturals, FiniteSets

CONSTANTS
  Communities, \* communities the person logs in to
  Users,       \* bound: ids for rows of t_users; one that is free can be used
  NoUser,      \* the user of a login that is not known
  Requests,    \* slots for requests under way
  MaxEvents    \* bound: requests that fail half-way, accounts that are deleted,
               \* memberships that other calls change

ASSUME CommunityAssumption == Communities /= {}
ASSUME UserAssumption == NoUser \notin Users
ASSUME EventAssumption == MaxEvents \in Nat

VARIABLES
  users,     \* rows of t_users
  line,      \* line[k]: the user of the LINE login in community k
  phone,     \* the users with a row for the phone
  members,   \* pairs of a user and a community with a membership that is JOINED
  invited,   \* pairs with one of another status: PENDING, or LEFT
  at,        \* at[c]: next step of call c
  kept,      \* kept[c]: what c keeps
  events,    \* how many of these there have been
  overtaken, \* history: calls about to insert the phone, which another has
             \* inserted since they looked
  raced,     \* history: such a call has inserted it while there was a user
  phoneless  \* history: a user of these has signed up without the phone

signUpVars == <<users, line, phone, members, invited, at, kept, events, overtaken, raced, phoneless>>
rows == <<users, line, phone, members, invited>>
past == <<overtaken, raced, phoneless>>

-----------------------------------------------------------------------------
(* Rows *)

\* join: the membership is to be created; phone: so is the row of the phone.
Kept == [community: Communities, user: Users \cup {NoUser}, join: BOOLEAN, phone: BOOLEAN]
Request(k, u, join, withPhone) ==
  [community |-> k, user |-> u, join |-> join, phone |-> withPhone]
AnyRequest == Request(CHOOSE k \in Communities : TRUE, NoUser, FALSE, FALSE)

SignUpInit ==
  /\ users = {}
  /\ line = [k \in Communities |-> NoUser]
  /\ phone = {}
  /\ members = {}
  /\ invited = {}
  /\ at = [c \in Requests |-> "idle"]
  /\ kept = [c \in Requests |-> AnyRequest]
  /\ events = 0
  /\ overtaken = {}
  /\ raced = FALSE
  /\ phoneless = FALSE

Step(c, label, request) ==
  /\ at' = [at EXCEPT ![c] = label]
  /\ kept' = [kept EXCEPT ![c] = request]

EndRequest(c) == Step(c, "idle", AnyRequest)

Login(c) == line[kept[c].community]
Enrolled(c) == IF kept[c].join THEN {<<kept[c].user, kept[c].community>>} ELSE {}

\* joinIfNeeded: a membership of whatever status is JOINED from now on.
JoinIfNeeded(set) == members' = members \cup set /\ invited' = invited \ set

Memberships == members \cup invited

-----------------------------------------------------------------------------
(* Checking a phone *)

\* Faulty: the login is all that can be missing.
FindLoginOnly(c, k) ==
  /\ at[c] = "idle"
  /\ \/ phone = {} /\ Step(c, "line", Request(k, NoUser, FALSE, FALSE))
     \/ \E u \in phone : Step(c, "login", Request(k, u, FALSE, FALSE))
  /\ UNCHANGED <<rows, events, past>>

\* findUserByIdentity takes the first row of any order, findMembership a
\* membership of any status: somebody who was invited is taken for a member.
FindByPhone(c, k) ==
  /\ at[c] = "idle"
  /\ \/ phone = {} /\ Step(c, "line", Request(k, NoUser, FALSE, FALSE))
     \/ \E u \in phone : Step(c, "login", Request(k, u, <<u, k>> \notin Memberships, FALSE))
  /\ UNCHANGED <<rows, events, past>>

\* The phone is unknown: NEW_USER, unless the LINE login is known.
FindByLine(c) ==
  /\ at[c] = "line"
  /\ LET k == kept[c].community
         u == line[k]
     IN IF u = NoUser THEN EndRequest(c)
        ELSE Step(c, "look", Request(k, u, <<u, k>> \notin Memberships, TRUE))
  /\ UNCHANGED <<rows, events, past>>

\* linkPhoneAuth
StartLink(c, k) ==
  /\ at[c] = "idle"
  /\ line[k] /= NoUser
  /\ Step(c, "look", Request(k, line[k], FALSE, TRUE))
  /\ UNCHANGED <<rows, events, past>>

\* Faulty: what was found before the transaction is good enough.
LookOnce(c) ==
  /\ at[c] = "look"
  /\ Step(c, "link", kept[c])
  /\ overtaken' = overtaken \ {c}
  /\ UNCHANGED <<rows, events, raced, phoneless>>

\* linkPhoneIdentity looks again, in the transaction; a phone that is known by
\* now is an error.
LookAgain(c) ==
  /\ at[c] = "look"
  /\ IF phone = {} THEN Step(c, "link", kept[c]) ELSE EndRequest(c)
  /\ overtaken' = overtaken \ {c}
  /\ UNCHANGED <<rows, events, raced, phoneless>>

\* Others that have found no phone are overtaken once it is inserted.
InsertPhone(c, u) ==
  /\ phone' = phone \cup {u}
  /\ raced' = (raced \/ c \in overtaken)
  /\ overtaken' =
       (overtaken \cup {d \in Requests : at[d] \in {"link", "create"} /\ kept[d].phone}) \ {c}

\* The foreign keys need the user to be there still.
Link(c) ==
  /\ at[c] = "link"
  /\ kept[c].user \in users
  /\ InsertPhone(c, kept[c].user)
  /\ JoinIfNeeded(Enrolled(c))
  /\ EndRequest(c)
  /\ UNCHANGED <<users, line, events, phoneless>>

\* The phone is known: a LINE login of somebody else is an error.
FindLogin(c) ==
  /\ at[c] = "login"
  /\ CASE Login(c) = NoUser -> Step(c, "add", kept[c])
       [] Login(c) = kept[c].user -> Step(c, "enrol", kept[c])
       [] OTHER -> EndRequest(c)
  /\ UNCHANGED <<rows, events, past>>

\* addIdentityToUser; the row is unique for uid and community.
AddLogin(c) ==
  /\ at[c] = "add"
  /\ kept[c].user \in users
  /\ Login(c) = NoUser
  /\ line' = [line EXCEPT ![kept[c].community] = kept[c].user]
  /\ JoinIfNeeded(Enrolled(c))
  /\ EndRequest(c)
  /\ UNCHANGED <<users, phone, events, past>>

\* The login is there: a check that has found no membership joins.
Enrol(c) ==
  /\ at[c] = "enrol"
  /\ kept[c].user \in users
  /\ JoinIfNeeded(Enrolled(c))
  /\ EndRequest(c)
  /\ UNCHANGED <<users, line, phone, events, past>>

-----------------------------------------------------------------------------
(* Signing up *)

\* createUserAndIdentity; the phone is optional.
SignUp(c, k, withPhone) ==
  /\ at[c] = "idle"
  /\ withPhone => phone = {}
  /\ Step(c, "create", Request(k, NoUser, TRUE, withPhone))
  /\ overtaken' = overtaken \ {c}
  /\ UNCHANGED <<rows, events, raced, phoneless>>

FreeIds == Users \ (users \cup {kept[c].user : c \in Requests})

\* The user and the logins are one statement.
CreateUser(c) ==
  /\ at[c] = "create"
  /\ Login(c) = NoUser
  /\ \E u \in FreeIds :
       /\ users' = users \cup {u}
       /\ line' = [line EXCEPT ![kept[c].community] = u]
       /\ IF kept[c].phone THEN InsertPhone(c, u) ELSE UNCHANGED <<phone, overtaken, raced>>
       /\ Step(c, "enrol", [kept[c] EXCEPT !.user = u])
  /\ phoneless' = (phoneless \/ ~kept[c].phone)
  /\ UNCHANGED <<members, invited, events>>

-----------------------------------------------------------------------------
(* Refusals, failures, other calls *)

\* A key that is taken, a user who is gone.
Refuse(c) ==
  /\ \/ at[c] \in {"add", "create"} /\ Login(c) /= NoUser
     \/ at[c] \in {"link", "add", "enrol"} /\ kept[c].user \notin users
  /\ EndRequest(c)
  /\ overtaken' = overtaken \ {c}
  /\ UNCHANGED <<rows, events, raced, phoneless>>

Disturb == events < MaxEvents /\ events' = events + 1

\* The process stops, a transaction times out, a statement fails.
Fail(c) ==
  /\ at[c] /= "idle"
  /\ Disturb
  /\ EndRequest(c)
  /\ overtaken' = overtaken \ {c}
  /\ UNCHANGED <<rows, raced, phoneless>>

\* userDeleteAccount: the logins and memberships go with the user.
DeleteUser(u) ==
  /\ u \in phone \cup {line[k] : k \in Communities}
  /\ u /= NoUser
  /\ Disturb
  /\ users' = users \ {u}
  /\ line' = [k \in Communities |-> IF line[k] = u THEN NoUser ELSE line[k]]
  /\ phone' = phone \ {u}
  /\ members' = {m \in members : m[1] /= u}
  /\ invited' = {m \in invited : m[1] /= u}
  /\ raced' = (raced /\ users' /= {})
  /\ phoneless' = (phoneless /\ users' /= {})
  /\ UNCHANGED <<at, kept, overtaken>>

\* The owner of a community grants points to a user of another one, or the user
\* accepts an invitation.
Grant(u, k) ==
  /\ Disturb
  /\ <<u, k>> \notin members
  /\ JoinIfNeeded({<<u, k>>})
  /\ UNCHANGED <<users, line, phone, at, kept, past>>

\* inviteMember; the row is unique for user and community.
InviteMember(u, k) ==
  /\ Disturb
  /\ <<u, k>> \notin Memberships
  /\ invited' = invited \cup {<<u, k>>}
  /\ UNCHANGED <<users, line, phone, members, at, kept, past>>

\* An invitation is denied or cancelled: LEFT, whatever the status was.
LeaveMember(u, k) ==
  /\ Disturb
  /\ <<u, k>> \in members
  /\ members' = members \ {<<u, k>>}
  /\ invited' = invited \cup {<<u, k>>}
  /\ UNCHANGED <<users, line, phone, at, kept, past>>

\* deleteMembership: the member withdraws or is removed.
DeleteMember(u, k) ==
  /\ Disturb
  /\ <<u, k>> \in Memberships
  /\ members' = members \ {<<u, k>>}
  /\ invited' = invited \ {<<u, k>>}
  /\ UNCHANGED <<users, line, phone, at, kept, past>>

-----------------------------------------------------------------------------
Proceed(c) ==
  \/ FindByLine(c) \/ LookAgain(c) \/ Link(c) \/ FindLogin(c) \/ AddLogin(c)
  \/ Enrol(c) \/ CreateUser(c) \/ Refuse(c)

SignUpNext ==
  \/ \E c \in Requests, k \in Communities :
       FindByPhone(c, k) \/ StartLink(c, k) \/ \E b \in BOOLEAN : SignUp(c, k, b)
  \/ \E c \in Requests : Proceed(c) \/ Fail(c)
  \/ \E u \in users : DeleteUser(u) \/ \E k \in Communities :
       Grant(u, k) \/ InviteMember(u, k) \/ LeaveMember(u, k) \/ DeleteMember(u, k)

SignUpSpec == SignUpInit /\ [][SignUpNext]_signUpVars

\* The server goes on with what it has begun, and the person, who is told to log
\* in again, has the phone checked again in every community.
Fairness ==
  /\ \A c \in Requests : WF_signUpVars(Proceed(c))
  /\ \A k \in Communities : SF_signUpVars(\E c \in Requests : FindByPhone(c, k))

SignUpFairSpec == SignUpSpec /\ Fairness

-----------------------------------------------------------------------------
(* Properties *)

\* Every variable stays within its type.
SignUpTypeOK ==
  /\ users \subseteq Users /\ phone \subseteq users
  /\ line \in [Communities -> users \cup {NoUser}]
  /\ members \subseteq users \X Communities /\ invited \subseteq users \X Communities
  /\ at \in [Requests -> {"idle", "line", "look", "link", "login", "add", "enrol", "create"}]
  /\ kept \in [Requests -> Kept]
  /\ events \in 0..MaxEvents
  /\ overtaken \subseteq Requests
  /\ raced \in BOOLEAN /\ phoneless \in BOOLEAN

\* The phone leads to one user, although no constraint says so, unless two
\* requests found no row for it and then both inserted one.
OnePhoneUser == ~raced => Cardinality(phone) =< 1

\* The person is one user in all communities: a check of the phone never meets a
\* LINE login of another user, which is an error nothing in the code repairs,
\* unless signups overlapped or one of them left the phone out.
OneUserPerPerson == ~raced /\ ~phoneless => Cardinality(users) =< 1

\* Both: who the person is depends on the phone, and the phone on one row.
OneUser == OnePhoneUser /\ OneUserPerPerson

\* A signup that failed after its user was created is completed: whoever has a
\* login is JOINED in the end, unless there is a membership of another status, which
\* the check of the phone takes for one that is joined, or the person is two users
\* by now or none.
SignUpCompletes ==
  \A k \in Communities :
    line[k] /= NoUser ~> \/ line[k] = NoUser
                         \/ <<line[k], k>> \in Memberships
                         \/ Cardinality(users) > 1
=============================================================================
