------------------------------ MODULE NftMinting ------------------------------
(***************************************************************************)
(* Tokens that are minted and sent by an external service: a script queues *)
(* a mint for an instance, one batch requests the queued mints, another    *)
(* asks the service what became of the instances that are being minted.    *)
(*                                                                         *)
(* Both batches page through rows of one status, in no particular order,   *)
(* and skip as many rows for the second page as the first one had,         *)
(* although these have left the status by then.  A request is made inside  *)
(* a database transaction, which expires 10 s after its start: with the    *)
(* retries of the HTTP client a request can take longer than that.         *)
(*                                                                         *)
(* Runs of the batches may overlap and crash.  An instance has one mint:   *)
(* it has a wallet from then on, and the script passes over such.  Two     *)
(* runs of the script, which looks before it writes, are taken not to      *)
(* overlap.                                                                *)
(*                                                                         *)
(* Abstracted: wallets, projects and metadata, the hash of the minting.    *)
(*                                                                         *)
(* Some names begin with Mint so that a module can extend this one and     *)
(* AnchorBatch.                                                            *)
(***************************************************************************)
EXTENDS Integers, FiniteSetsExt

CONSTANTS
  Mints,      \* instances, each with its mint
  NoMint,     \* the mint of a run that has none in hand
  MintRuns,   \* slots for runs of either batch under way
  BatchSize,  \* rows of a page
  MaxRetries, \* failures after which an error of the service is final
  MaxCrashes  \* bound: runs that crash

ASSUME MintAssumption == NoMint \notin Mints
ASSUME SizeAssumption == BatchSize \in Nat \ {0} /\ MaxRetries \in Nat /\ MaxCrashes \in Nat

VARIABLES
  mint,      \* mint[m]: status of the row of t_nft_mints; none before it is queued
  retries,   \* retries[m]: its failures, counted up to MaxRetries
  instance,  \* instance[m]: status of the row of t_nft_instances
  service,   \* service[m]: state of the token at the service
  accepted,  \* accepted[m]: requests the service has accepted, counted up to 2
  mintPc,    \* mintPc[r]: next step of run r
  mintRun,   \* mintRun[r]: what a run keeps
  crashes,   \* runs that have crashed
  lost,      \* history: mints accepted in a transaction that did not commit
  overlapped \* history: mints that two runs had read at a time

mintVars == <<mint, retries, instance, service, accepted, mintPc, mintRun, crashes, lost, overlapped>>
rows == <<mint, retries, instance>>

-----------------------------------------------------------------------------
(* Rows *)

\* skip: rows to pass over; page: rows of the page that are still to do; final: those
\* of them read with MaxRetries failures; full: it had BatchSize rows; mint: the one
\* in hand; state: what the service says of it, "fatal" an error of a final one.
Run == [batch: {"request", "sync"}, skip: Nat, page: SUBSET Mints, final: SUBSET Mints,
        full: BOOLEAN, mint: Mints \cup {NoMint}, state: {"none", "sold", "minted", "error", "fatal"}]
NoRun == [batch |-> "sync", skip |-> 0, page |-> {}, final |-> {}, full |-> FALSE,
          mint |-> NoMint, state |-> "none"]

MintInit ==
  /\ mint = [m \in Mints |-> "none"]
  /\ retries = [m \in Mints |-> 0]
  /\ instance = [m \in Mints |-> "STOCK"]
  /\ service = [m \in Mints |-> "none"]
  /\ accepted = [m \in Mints |-> 0]
  /\ mintPc = [r \in MintRuns |-> "idle"]
  /\ mintRun = [r \in MintRuns |-> NoRun]
  /\ crashes = 0
  /\ lost = {}
  /\ overlapped = {}

MintGoto(r, label) == mintPc' = [mintPc EXCEPT ![r] = label]

\* Mints a run has read and not finished.
Hands(r) == mintRun[r].page \cup ({mintRun[r].mint} \cap Mints)

\* assignAndMint
Queue(m) ==
  /\ mint[m] = "none"
  /\ mint' = [mint EXCEPT ![m] = "QUEUED"]
  /\ UNCHANGED <<retries, instance, service, accepted, mintPc, mintRun, crashes, lost, overlapped>>

-----------------------------------------------------------------------------
(* Paging *)

EndRun(r) == MintGoto(r, "idle") /\ mintRun' = [mintRun EXCEPT ![r] = NoRun]

Least(a, b) == IF a < b THEN a ELSE b

Matching(batch) ==
  IF batch = "request" THEN {m \in Mints : mint[m] = "QUEUED"}
  ELSE {m \in Mints : instance[m] = "MINTING"}

\* The rows after the first skip of any order; a run ends where there are none.
ReadPage(r, batch, skip) ==
  LET n == Cardinality(Matching(batch)) - skip
  IN IF n =< 0 THEN EndRun(r) /\ UNCHANGED overlapped
     ELSE \E page \in kSubset(Least(n, BatchSize), Matching(batch)) :
            /\ mintRun' = [mintRun EXCEPT ![r] =
                 [NoRun EXCEPT !.batch = batch, !.skip = skip, !.page = page,
                               !.full = n >= BatchSize,
                               !.final = {m \in page : batch = "sync" /\ retries[m] >= MaxRetries}]]
            /\ overlapped' = overlapped \cup
                 (page \cap UNION {Hands(s) : s \in MintRuns \ {r}})
            /\ MintGoto(r, "next")

Start(r, batch) ==
  /\ mintPc[r] = "idle"
  /\ Matching(batch) /= {}
  /\ ReadPage(r, batch, 0)
  /\ UNCHANGED <<rows, service, accepted, crashes, lost>>

\* A page that is not full is the last one.
TurnPage(r) ==
  /\ mintPc[r] = "next"
  /\ mintRun[r].page = {}
  /\ IF mintRun[r].full THEN ReadPage(r, mintRun[r].batch, mintRun[r].skip + BatchSize)
     ELSE EndRun(r) /\ UNCHANGED overlapped
  /\ UNCHANGED <<rows, service, accepted, crashes, lost>>

\* The run takes mint m from its page, and with it in hand goes to label.
Take(r, m, label, state) ==
  /\ mintPc[r] = "next"
  /\ m \in mintRun[r].page
  /\ MintGoto(r, label)
  /\ mintRun' = [mintRun EXCEPT ![r].page = @ \ {m},
                        ![r].final = @ \ {m},
                        ![r].mint = IF label = "next" THEN NoMint ELSE m,
                        ![r].state = state]

\* The run is done with the mint in hand.
Done(r) ==
  /\ MintGoto(r, "next")
  /\ mintRun' = [mintRun EXCEPT ![r].mint = NoMint, ![r].state = "none"]

-----------------------------------------------------------------------------
(* Requesting a mint *)

\* mintAndSendSpecific; the retries of the HTTP client share a key, by which the
\* service takes them for one request.
Accept(r, m) ==
  /\ mintRun[r].batch = "request"
  /\ Take(r, m, "store", "none")
  /\ service' = [service EXCEPT ![m] = IF @ = "none" THEN "sold" ELSE @]
  /\ accepted' = [accepted EXCEPT ![m] = Least(@ + 1, 2)]
  /\ UNCHANGED <<rows, crashes, lost, overlapped>>

\* The service refuses, or was not reached.
Decline(r, m) ==
  /\ mintRun[r].batch = "request"
  /\ Take(r, m, "fail", "none")
  /\ UNCHANGED <<rows, service, accepted, crashes, lost, overlapped>>

\* Faulty: the instance is left to the other batch.
StoreMint(r) ==
  /\ mintPc[r] = "store"
  /\ mint' = [mint EXCEPT ![mintRun[r].mint] = "SUBMITTED"]
  /\ Done(r)
  /\ UNCHANGED <<retries, instance, service, accepted, crashes, lost, overlapped>>

\* Faulty: the mint stays in the queue.
StoreInstance(r) ==
  /\ mintPc[r] = "store"
  /\ instance' = [instance EXCEPT ![mintRun[r].mint] = "MINTING"]
  /\ Done(r)
  /\ UNCHANGED <<mint, retries, service, accepted, crashes, lost, overlapped>>

\* SUBMITTED and MINTING are one transaction with the request.
Store(r) ==
  /\ mintPc[r] = "store"
  /\ mint' = [mint EXCEPT ![mintRun[r].mint] = "SUBMITTED"]
  /\ instance' = [instance EXCEPT ![mintRun[r].mint] = "MINTING"]
  /\ Done(r)
  /\ UNCHANGED <<retries, service, accepted, crashes, lost, overlapped>>

\* The transaction has expired by the time the service answers.
ExpireRequest(r) ==
  /\ mintPc[r] = "store"
  /\ lost' = lost \cup {mintRun[r].mint}
  /\ MintGoto(r, "fail")
  /\ UNCHANGED <<rows, service, accepted, mintRun, crashes, overlapped>>

\* Faulty: the mint is to be tried again.
Requeue(r) ==
  /\ mintPc[r] = "fail"
  /\ mint' = [mint EXCEPT ![mintRun[r].mint] = "QUEUED"]
  /\ retries' = [retries EXCEPT ![mintRun[r].mint] = Least(@ + 1, MaxRetries)]
  /\ Done(r)
  /\ UNCHANGED <<instance, service, accepted, crashes, lost, overlapped>>

\* A failed mint is not queued again.
Fail(r) ==
  /\ mintPc[r] = "fail"
  /\ mint' = [mint EXCEPT ![mintRun[r].mint] = "FAILED"]
  /\ retries' = [retries EXCEPT ![mintRun[r].mint] = Least(@ + 1, MaxRetries)]
  /\ Done(r)
  /\ UNCHANGED <<instance, service, accepted, crashes, lost, overlapped>>

-----------------------------------------------------------------------------
(* Synchronising *)

\* getNftDetails; after an error the run takes the next instance.
Ask(r, m) ==
  /\ mintRun[r].batch = "sync"
  /\ \/ Take(r, m, "handle",
            IF service[m] = "error" /\ m \in mintRun[r].final THEN "fatal" ELSE service[m])
     \/ Take(r, m, "next", "none")
  /\ UNCHANGED <<rows, service, accepted, crashes, lost, overlapped>>

\* Faulty: what is sold is taken for minted.
HandleSold(r) ==
  LET m == mintRun[r].mint IN
  /\ mintPc[r] = "handle"
  /\ IF mintRun[r].state \in {"sold", "minted"}
     THEN /\ instance' = [instance EXCEPT ![m] = "OWNED"]
          /\ mint' = [mint EXCEPT ![m] = "MINTED"]
     ELSE UNCHANGED <<instance, mint>>
  /\ Done(r)
  /\ UNCHANGED <<retries, service, accepted, crashes, lost, overlapped>>

\* handleInstanceState
Handle(r) ==
  LET m == mintRun[r].mint IN
  /\ mintPc[r] = "handle"
  /\ \/ /\ mintRun[r].state = "minted"
        /\ instance' = [instance EXCEPT ![m] = "OWNED"]
        /\ mint' = [mint EXCEPT ![m] = "MINTED"]
     \/ /\ mintRun[r].state = "sold"
        /\ mint' = [mint EXCEPT ![m] = "SUBMITTED"]
        /\ UNCHANGED instance
     \/ /\ mintRun[r].state = "fatal"
        /\ mint' = [mint EXCEPT ![m] = "FAILED"]
        /\ UNCHANGED instance
     \/ mintRun[r].state \in {"none", "error"} /\ UNCHANGED <<mint, instance>>
  /\ Done(r)
  /\ UNCHANGED <<retries, service, accepted, crashes, lost, overlapped>>

-----------------------------------------------------------------------------
(* The service, and crashes *)

Mint(m) ==
  /\ service[m] = "sold"
  /\ \E s \in {"minted", "error"} : service' = [service EXCEPT ![m] = s]
  /\ UNCHANGED <<rows, accepted, mintPc, mintRun, crashes, lost, overlapped>>

CrashRun(r) ==
  /\ mintPc[r] /= "idle"
  /\ crashes < MaxCrashes
  /\ crashes' = crashes + 1
  /\ lost' = IF mintPc[r] = "store" THEN lost \cup {mintRun[r].mint} ELSE lost
  /\ EndRun(r)
  /\ UNCHANGED <<rows, service, accepted, overlapped>>

-----------------------------------------------------------------------------
Work(r) ==
  \/ TurnPage(r) \/ Store(r) \/ ExpireRequest(r) \/ Fail(r) \/ Handle(r)
  \/ \E m \in Mints : Accept(r, m) \/ Decline(r, m) \/ Ask(r, m)

MintNext ==
  \/ \E m \in Mints : Queue(m) \/ Mint(m)
  \/ \E r \in MintRuns : Start(r, "request") \/ Start(r, "sync") \/ Work(r) \/ CrashRun(r)

MintSpec == MintInit /\ [][MintNext]_mintVars

\* A run that has begun goes on, and the requesting batch is run again and again.
Fairness ==
  /\ \A r \in MintRuns : WF_mintVars(Work(r))
  /\ SF_mintVars(\E r \in MintRuns : Start(r, "request"))

MintFairSpec == MintSpec /\ Fairness

-----------------------------------------------------------------------------
(* Properties *)

\* Every variable stays within its type.
MintTypeOK ==
  /\ mint \in [Mints -> {"none", "QUEUED", "SUBMITTED", "MINTED", "FAILED"}]
  /\ retries \in [Mints -> 0..MaxRetries]
  /\ instance \in [Mints -> {"STOCK", "MINTING", "OWNED"}]
  /\ service \in [Mints -> {"none", "sold", "minted", "error"}]
  /\ accepted \in [Mints -> 0..2]
  /\ mintPc \in [MintRuns -> {"idle", "next", "store", "fail", "handle"}]
  /\ mintRun \in [MintRuns -> Run]
  /\ crashes \in 0..MaxCrashes
  /\ lost \subseteq Mints /\ overlapped \subseteq Mints

\* An instance is owned only once the service has minted it, and its mint says
\* so too unless runs overlapped: a late "sold" or a late failure then hides it.
OwnedIsMinted ==
  \A m \in Mints : instance[m] = "OWNED" =>
    service[m] = "minted" /\ (m \notin overlapped => mint[m] = "MINTED")

\* A token the service has accepted to mint is followed until it is owned: the
\* other batch looks at the instance, unless the answer was lost with the
\* transaction it arrived in.
AcceptedIsFollowed ==
  \A m \in Mints : accepted[m] > 0 =>
    \/ instance[m] \in {"MINTING", "OWNED"}
    \/ m \in lost
    \/ \E r \in MintRuns : mintPc[r] = "store" /\ mintRun[r].mint = m

\* The service is asked to mint a token once, unless the answer to the first
\* request was lost or two runs had read the mint.
AcceptedOnce == \A m \in Mints : accepted[m] > 1 => m \in lost \cup overlapped

\* The status of a mint only moves on, from QUEUED by SUBMITTED to MINTED or to
\* FAILED, unless two runs had read the mint: nothing that a run has learnt of it is
\* out of date when it is written.
MovesOn ==
  {<<"none", "QUEUED">>, <<"QUEUED", "SUBMITTED">>, <<"QUEUED", "FAILED">>,
   <<"SUBMITTED", "MINTED">>, <<"SUBMITTED", "FAILED">>}

MintMovesOn == [][\A m \in Mints \ overlapped :
  mint'[m] /= mint[m] => <<mint[m], mint'[m]>> \in MovesOn]_mintVars

\* Every mint that is queued is requested by some run, although a run that turns
\* its page passes over mints it has not seen.
QueuedIsRequested == \A m \in Mints : []<>(mint[m] /= "QUEUED")
=============================================================================
