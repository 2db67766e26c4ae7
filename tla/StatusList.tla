------------------------------ MODULE StatusList ------------------------------
(***************************************************************************)
(* Verifiable credentials and the lists that say which are revoked.  Each  *)
(* row of t_vc_issuance_requests has a bit in a row of                     *)
(* t_status_list_credentials; the list is published as a whole, and a      *)
(* verifier trusts it alone.  Issuing reserves a bit, revoking and the     *)
(* deactivation of a DID set bits.                                         *)
(*                                                                         *)
(* Every call is one database transaction at READ COMMITTED: each of its   *)
(* statements sees what others have committed, a row it has written stays  *)
(* locked until it ends, and its writes become visible together.           *)
(*                                                                         *)
(* Abstracted: claims, JWTs, keys and signatures; list URLs; credentials   *)
(* that were issued before there were lists.  The order of the credentials *)
(* of one cascade, and the choice among several open lists, are by         *)
(* creation time in the code and arbitrary here.  Every user has a DID.    *)
(***************************************************************************)
EXTENDS Integers, FiniteSets

CONSTANTS
  Users,      \* users who hold credentials
  Nobody,     \* the user of a credential that is not issued
  Vcs,        \* credentials that may be issued, one for each evaluation
  Requests,   \* slots for calls that are in flight at the same time
  Capacity,   \* bits of a list
  MaxLists    \* bound: lists ever created

ASSUME UserAssumption == Nobody \notin Users
ASSUME CapacityAssumption == Capacity \in Nat \ {0}
ASSUME BoundAssumption == MaxLists \in Nat

VARIABLES
  lists,       \* lists[l]: the row with listKey l
  vcs,         \* vcs[v]: the row of the credential for evaluation v
  dead,        \* users whose DID was deactivated
  pc,          \* pc[r]: next step of request r
  job,         \* job[r]: the call that r serves, and what it has read and written
  overlapped,  \* history: credentials whose revocation overlapped another of their list
  late         \* history: credentials issued while or after the user's DID was deactivated

vars == <<lists, vcs, dead, pc, job, overlapped, late>>
rows == <<lists, vcs, dead, late>>

-----------------------------------------------------------------------------
(* Rows *)

Lists == 1..MaxLists
Slots == 0..(Capacity - 1)

\* bits: the positions that encodedList has set.
List == [exists: BOOLEAN, next: 0..Capacity, frozen: BOOLEAN, bits: SUBSET Slots]
NoList == [exists |-> FALSE, next |-> 0, frozen |-> FALSE, bits |-> {}]

Vc == [user: Users \cup {Nobody}, list: Lists \cup {0}, slot: Slots, revoked: BOOLEAN]
NoVc == [user |-> Nobody, list |-> 0, slot |-> 0, revoked |-> FALSE]

\* todo, cur, done: the credentials a call has still to process, the one it is at,
\* and those it has revoked.  seen: the bits of the list of cur as it was read.
\* draft: the bits the call has written, locks: the lists it has written.
\* For an issue, todo holds the credential, and list and slot its place.
Job == [op: {"none", "issue", "revoke", "deactivate"}, user: Users \cup {Nobody},
        todo: SUBSET Vcs, cur: SUBSET Vcs, done: SUBSET Vcs,
        seen: SUBSET Slots, draft: [Lists -> SUBSET Slots], locks: SUBSET Lists,
        list: Lists \cup {0}, slot: Slots]
NoJob == [op |-> "none", user |-> Nobody, todo |-> {}, cur |-> {}, done |-> {},
          seen |-> {}, draft |-> [l \in Lists |-> {}], locks |-> {},
          list |-> 0, slot |-> 0]

Issued == {v \in Vcs : vcs[v].user /= Nobody}
Live == {v \in Issued : ~vcs[v].revoked}
Existing == {l \in Lists : lists[l].exists}

\* Faulty: nextIndex is read and written without the row's lock.
Unlocked(r, l) == FALSE

\* Another transaction has written the row of list l.
Locked(r, l) == \E q \in Requests \ {r} : l \in job[q].locks

-----------------------------------------------------------------------------
(* Requests *)

Init ==
  /\ lists = [l \in Lists |-> NoList]
  /\ vcs = [v \in Vcs |-> NoVc]
  /\ dead = {} /\ overlapped = {} /\ late = {}
  /\ pc = [r \in Requests |-> "idle"]
  /\ job = [r \in Requests |-> NoJob]

Goto(r, label) == pc' = [pc EXCEPT ![r] = label]
Begin(r, j, label) == pc[r] = "idle" /\ Goto(r, label) /\ job' = [job EXCEPT ![r] = j]
End(r) == Goto(r, "idle") /\ job' = [job EXCEPT ![r] = NoJob]

\* A statement fails, the transaction runs into its timeout or a deadlock, or the
\* process dies: everything is rolled back.
Fail(r) == pc[r] /= "idle" /\ End(r) /\ UNCHANGED <<rows, overlapped>>

-----------------------------------------------------------------------------
(* Issuing: VcIssuanceService.issueVc *)

Issue(r, v, u) ==
  /\ Begin(r, [NoJob EXCEPT !.op = "issue", !.user = u, !.todo = {v}], "find")
  /\ UNCHANGED <<rows, overlapped>>

\* findActive
FindActive(r, l) ==
  /\ pc[r] = "find"
  /\ l \in Existing /\ ~lists[l].frozen
  /\ job' = [job EXCEPT ![r].list = l]
  /\ Goto(r, "slot")
  /\ UNCHANGED <<rows, overlapped>>

\* ... finds none.
NoneActive(r) ==
  /\ pc[r] = "find"
  /\ \A l \in Existing : lists[l].frozen
  /\ Goto(r, "boot")
  /\ UNCHANGED <<rows, job, overlapped>>

\* computeNextListKey: MAX(list_key) + 1
NextKey(l) == \A k \in Lists : k \in Existing => k < l
ComputeKey(r, l) ==
  /\ pc[r] = "boot"
  /\ NextKey(l) /\ (l = 1 \/ l - 1 \in Existing)
  /\ job' = [job EXCEPT ![r].list = l]
  /\ Goto(r, "create")
  /\ UNCHANGED <<rows, overlapped>>

\* A transaction that has inserted the same key makes others wait.
CreateList(r) ==
  LET l == job[r].list IN
  /\ pc[r] = "create"
  /\ ~Locked(r, l) /\ l \notin Existing
  /\ job' = [job EXCEPT ![r].locks = {l}]
  /\ Goto(r, "slot")
  /\ UNCHANGED <<rows, overlapped>>

\* P2002: the code computes the next key, but the database has failed the transaction.
KeyTaken(r) ==
  /\ pc[r] = "create"
  /\ job[r].list \in Existing
  /\ End(r)
  /\ UNCHANGED <<rows, overlapped>>

\* allocateSlot: the conditional increment, and the freeze with the last slot.
AllocateSlot(r) ==
  LET l == job[r].list IN
  /\ pc[r] = "slot"
  /\ ~Locked(r, l) /\ ~lists[l].frozen
  /\ job' = [job EXCEPT ![r].slot = lists[l].next, ![r].locks = {l}]
  /\ Goto(r, "insert")
  /\ UNCHANGED <<rows, overlapped>>

\* StatusListFrozenError
FrozenMeanwhile(r) ==
  LET l == job[r].list IN
  /\ pc[r] = "slot"
  /\ ~Locked(r, l) /\ lists[l].frozen
  /\ job' = [job EXCEPT ![r].list = 0]
  /\ Goto(r, "find")
  /\ UNCHANGED <<rows, overlapped>>

\* The slot that freezes its list.
LastSlot(s) == s = Capacity - 1

\* The list as the transaction of r leaves it.
Allocated(l, s) ==
  [exists |-> TRUE, next |-> s + 1, frozen |-> LastSlot(s), bits |-> lists[l].bits]

Deactivating(u) ==
  \E q \in Requests : pc[q] /= "idle" /\ job[q].op = "deactivate" /\ job[q].user = u

\* VcIssuanceRepository.create and the commit; a second credential for one
\* evaluation violates a unique key.
CommitIssue(r, v) ==
  LET j == job[r] IN
  /\ pc[r] = "insert"
  /\ v \in j.todo \ Issued
  /\ vcs' = [vcs EXCEPT ![v] = [user |-> j.user, list |-> j.list, slot |-> j.slot,
                                revoked |-> FALSE]]
  /\ lists' = [lists EXCEPT ![j.list] = Allocated(j.list, j.slot)]
  /\ late' = IF j.user \in dead \/ Deactivating(j.user) THEN late \cup {v} ELSE late
  /\ End(r)
  /\ UNCHANGED <<dead, overlapped>>

-----------------------------------------------------------------------------
(* Revoking: StatusListService.revokeVc *)

\* revokeUserVc: a credential that is revoked already is left alone.
Revoke(r, v) ==
  /\ v \in Live
  /\ Begin(r, [NoJob EXCEPT !.op = "revoke", !.todo = {v}], "read")
  /\ UNCHANGED <<rows, overlapped>>

\* Faulty: the DEACTIVATE row is committed before the cascade.
DeactivateFirst(r, u) ==
  LET set == {v \in Live : vcs[v].user = u} IN
  /\ Begin(r, [NoJob EXCEPT !.op = "deactivate", !.user = u, !.todo = set],
           IF set = {} THEN "commit" ELSE "read")
  /\ dead' = dead \cup {u}
  /\ UNCHANGED <<lists, vcs, late, overlapped>>

\* deactivateDid and cascadeRevokeForUser: the DEACTIVATE row is written first, the
\* live credentials of the user are read once.
Deactivate(r, u) ==
  LET set == {v \in Live : vcs[v].user = u} IN
  /\ Begin(r, [NoJob EXCEPT !.op = "deactivate", !.user = u, !.todo = set],
           IF set = {} THEN "commit" ELSE "read")
  /\ UNCHANGED <<rows, overlapped>>

\* Credentials of list l whose revocation r has begun.
OnList(r, l) == {v \in job[r].cur \cup job[r].done : vcs[v].list = l}

\* Faulty: reads the list outside of the transaction.
CommittedBits(r, l) == lists[l].bits

\* A transaction sees its own writes.
BitsOf(r, l) == IF l \in job[r].locks THEN job[r].draft[l] ELSE lists[l].bits

\* The credentials whose revocation overlaps when r begins that of v.
Overlap(r, v) ==
  LET l == vcs[v].list
      rivals == {q \in Requests \ {r} : OnList(q, l) /= {}}
  IN IF rivals = {} THEN {} ELSE {v} \cup OnList(r, l) \cup UNION {OnList(q, l) : q \in rivals}

\* findByListKey: the whole bitstring is read, without a lock.
ReadBits(r, v) ==
  /\ pc[r] = "read"
  /\ v \in job[r].todo
  /\ job' = [job EXCEPT ![r].todo = @ \ {v}, ![r].cur = {v},
                        ![r].seen = BitsOf(r, vcs[v].list)]
  /\ overlapped' = overlapped \cup Overlap(r, v)
  /\ Goto(r, "write")
  /\ UNCHANGED rows

\* updateBitstring and markVcRevoked: the whole bitstring is written, by the list's
\* id alone.
WriteBits(r, v) ==
  LET l == vcs[v].list IN
  /\ pc[r] = "write"
  /\ v \in job[r].cur
  /\ ~Locked(r, l)
  /\ job' = [job EXCEPT ![r].cur = {}, ![r].done = @ \cup {v},
                        ![r].draft[l] = job[r].seen \cup {vcs[v].slot},
                        ![r].locks = @ \cup {l}]
  /\ Goto(r, IF job[r].todo = {} THEN "commit" ELSE "read")
  /\ UNCHANGED <<rows, overlapped>>

CommitRevocation(r) ==
  LET j == job[r] IN
  /\ pc[r] = "commit"
  /\ lists' = [l \in Lists |->
                 IF l \in j.locks THEN [lists[l] EXCEPT !.bits = j.draft[l]] ELSE lists[l]]
  /\ vcs' = [v \in Vcs |-> IF v \in j.done THEN [vcs[v] EXCEPT !.revoked = TRUE] ELSE vcs[v]]
  /\ dead' = IF j.op = "deactivate" THEN dead \cup {j.user} ELSE dead
  /\ End(r)
  /\ UNCHANGED <<overlapped, late>>

-----------------------------------------------------------------------------
(* Specification *)

Next ==
  \E r \in Requests :
    \/ \E v \in Vcs :
         \/ \E u \in Users : Issue(r, v, u)
         \/ CommitIssue(r, v) \/ Revoke(r, v) \/ ReadBits(r, v) \/ WriteBits(r, v)
    \/ \E l \in Lists : FindActive(r, l) \/ ComputeKey(r, l)
    \/ NoneActive(r) \/ CreateList(r) \/ KeyTaken(r) \/ AllocateSlot(r) \/ FrozenMeanwhile(r)
    \/ \E u \in Users : Deactivate(r, u)
    \/ CommitRevocation(r) \/ Fail(r)

Spec == Init /\ [][Next]_vars

-----------------------------------------------------------------------------
(* Properties *)

Label == {"idle", "find", "boot", "create", "slot", "insert", "read", "write", "commit"}

\* Every variable holds a value of its kind; a list never hands out more slots than
\* it has bits.
TypeOK ==
  /\ lists \in [Lists -> List]
  /\ vcs \in [Vcs -> Vc]
  /\ dead \subseteq Users /\ overlapped \subseteq Vcs /\ late \subseteq Vcs
  /\ pc \in [Requests -> Label]
  /\ job \in [Requests -> Job]

\* No two credentials share a bit, however their issues race for a list, its last
\* slot or the creation of its successor.
SlotsUnique ==
  \A v, w \in Issued :
    vcs[v].list = vcs[w].list /\ vcs[v].slot = vcs[w].slot => v = w

\* A verifier rejects no live credential: every published bit belongs to one that
\* is revoked, also when the revocation failed half-way.
ListedIsRevoked ==
  \A l \in Lists : \A s \in lists[l].bits :
    \E v \in Issued : vcs[v].list = l /\ vcs[v].slot = s /\ vcs[v].revoked

\* A verifier rejects every revoked credential, unless its revocation overlapped
\* another one of the same list.
Listed(v) == vcs[v].slot \in lists[vcs[v].list].bits
RevokedIsListedUnlessOverlapped ==
  \A v \in Issued : vcs[v].revoked /\ v \notin overlapped => Listed(v)

\* Both: a list says of its credentials what their rows say, unless revocations
\* overlapped.
ListFollowsRevocations == ListedIsRevoked /\ RevokedIsListedUnlessOverlapped

\* A deactivated user holds no live credential but those issued while the DID was
\* being deactivated, or later.
TombstoneRevokesAll == \A v \in Live : vcs[v].user \in dead => v \in late
=============================================================================
