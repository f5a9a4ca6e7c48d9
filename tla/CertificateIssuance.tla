------------------------ MODULE CertificateIssuance ------------------------
(***************************************************************************)
(* Certificates: CourseCertificationNftAchievementsService mints one       *)
(* through the Soroban RPC server, StellarSyncService later confirms the   *)
(* transaction record at Horizon.                                          *)
(*                                                                         *)
(* The ledger is external.  It applies a transaction if it carries the     *)
(* next sequence number of the backend's account, at a moment of its own   *)
(* choice; until then it may let the transaction expire.  Every mint uses  *)
(* that account, and so do others who sign with the backend's key.         *)
(* RPC and Horizon only see what the ledger has applied, Horizon later.    *)
(*                                                                         *)
(* The routes that change or remove a certificate take an object id and    *)
(* the certificates have UUIDs: no request reaches those handlers.         *)
(***************************************************************************)
EXTENDS Naturals, FiniteSets

CONSTANTS
  Certificates,  \* ids, each made up by the one request that creates it
  Passes,        \* passes of syncPending that may overlap
  MaxPolls,      \* polls after the first: 10 in the code
  MaxOthers,     \* bounds the other transactions of the account
  MaxFaults      \* bounds rejected calls and stops of the process together

ASSUME BoundsAreNat == MaxPolls \in Nat /\ MaxOthers \in Nat /\ MaxFaults \in Nat

VARIABLES
  configured,  \* whether the contract address and the key are configured
  pc,          \* each certificate: the call its request awaits
  seen,        \* the account's sequence number as the request has read it
  polls,       \* attempts of the polling loop
  items,       \* certificates in the service's array
  hashed,      \* those whose transactionHash is set
  issued,      \* CERTIFICATE_ISSUED events, per certificate
  record,      \* status of the CertificateTx record
  job,         \* what each pass is doing about each record
  tx,          \* the mint transaction, as the ledger has it
  horizon,     \* transactions Horizon knows
  sequence,    \* the account's sequence number
  others, faults  \* what has been used of the bounds

requestVars == <<configured, pc, seen, polls, items, hashed, issued>>
syncVars    == <<record, job>>
ledgerVars  == <<tx, horizon, sequence, others>>
vars        == <<requestVars, syncVars, ledgerVars, faults>>

Calls == {"account", "prepare", "send", "poll", "record"}
Applied == {"success", "failed"}

CertTypeOK ==
  /\ configured \in BOOLEAN
  /\ pc \in [Certificates -> Calls \cup {"unasked", "answered", "gone"}]
  /\ seen \in [Certificates -> Nat]
  /\ polls \in [Certificates -> 0..MaxPolls]
  /\ items \in SUBSET Certificates /\ hashed \in SUBSET Certificates
  /\ issued \in [Certificates -> 0..1]
  /\ record \in [Certificates -> {"none", "pending", "confirmed", "failed"}]
  /\ job \in [Passes \X Certificates -> {"none", "ask", "confirmed", "failed"}]
  /\ tx \in [Certificates -> {"none", "pending", "dropped"} \cup Applied]
  /\ horizon \in SUBSET Certificates
  /\ sequence \in Nat
  /\ others \in 0..MaxOthers /\ faults \in 0..MaxFaults

NoJobs == [j \in Passes \X Certificates |-> "none"]

Init ==
  /\ configured \in BOOLEAN
  /\ pc = [k \in Certificates |-> "unasked"]
  /\ seen = [k \in Certificates |-> 0]
  /\ polls = [k \in Certificates |-> 0]
  /\ items = {} /\ hashed = {}
  /\ issued = [k \in Certificates |-> 0]
  /\ record = [k \in Certificates |-> "none"]
  /\ job = NoJobs
  /\ tx = [k \in Certificates |-> "none"]
  /\ horizon = {}
  /\ sequence = 0
  /\ others = 0 /\ faults = 0

----------------------------------------------------------------------------
(***************************************************************************)
(* create, with issueCertificateOnChain                                    *)
(***************************************************************************)

Await(k, call) == pc' = [pc EXCEPT ![k] = call]

\* The event and the answer, however the mint and its record have ended.
Finish(k) ==
  /\ issued' = [issued EXCEPT ![k] = @ + 1]
  /\ Await(k, "answered")

\* Without configuration the mint throws before its first call.
Create(k) ==
  /\ pc[k] = "unasked"
  /\ items' = items \cup {k}
  /\ \/ configured /\ Await(k, "account") /\ UNCHANGED issued
     \/ ~ configured /\ Finish(k)
  /\ UNCHANGED <<configured, seen, polls, hashed, syncVars, ledgerVars, faults>>

GetAccount(k) ==
  /\ pc[k] = "account"
  /\ seen' = [seen EXCEPT ![k] = sequence]
  /\ Await(k, "prepare")
  /\ UNCHANGED <<configured, polls, items, hashed, issued, syncVars, ledgerVars, faults>>

\* The simulation of the transaction may refuse it.
PrepareTransaction(k) ==
  /\ pc[k] = "prepare"
  /\ \/ Await(k, "send") /\ UNCHANGED issued
     \/ Finish(k)
  /\ UNCHANGED <<configured, seen, polls, items, hashed, syncVars, ledgerVars, faults>>

\* The server takes the transaction, refuses it (ERROR), or asks to come back
\* later, which the code treats as taken.
SendTransaction(k) ==
  /\ pc[k] = "send"
  /\ \/ /\ seen[k] = sequence
        /\ tx' = [tx EXCEPT ![k] = "pending"]
        /\ Await(k, "poll") /\ UNCHANGED issued
     \/ Await(k, "poll") /\ UNCHANGED <<issued, tx>>
     \/ Finish(k) /\ UNCHANGED tx
  /\ UNCHANGED <<configured, seen, polls, items, hashed, syncVars, horizon, sequence,
                 others, faults>>

\* Faulty variant: leaving the loop counts as confirmation.
GetTransaction_Unchecked(k) ==
  /\ pc[k] = "poll"
  /\ IF tx[k] \notin Applied /\ polls[k] < MaxPolls
       THEN polls' = [polls EXCEPT ![k] = @ + 1] /\ UNCHANGED <<pc, hashed>>
       ELSE /\ hashed' = hashed \cup {k}
            /\ Await(k, "record")
            /\ UNCHANGED polls
  /\ UNCHANGED <<configured, seen, items, issued, syncVars, ledgerVars, faults>>

\* Faulty variant: the loop has no limit.
GetTransaction_Forever(k) ==
  /\ pc[k] = "poll"
  /\ tx[k] = "success"
  /\ hashed' = hashed \cup {k}
  /\ Await(k, "record")
  /\ UNCHANGED <<configured, seen, polls, items, issued, syncVars, ledgerVars, faults>>

\* NOT_FOUND is asked again, up to the limit; only SUCCESS yields a hash.
GetTransaction(k) ==
  /\ pc[k] = "poll"
  /\ \/ /\ tx[k] \notin Applied /\ polls[k] < MaxPolls
        /\ polls' = [polls EXCEPT ![k] = @ + 1]
        /\ UNCHANGED <<pc, hashed, issued>>
     \/ /\ tx[k] = "success"
        /\ hashed' = hashed \cup {k}
        /\ Await(k, "record")
        /\ UNCHANGED <<polls, issued>>
     \/ /\ tx[k] = "failed" \/ (tx[k] \notin Applied /\ polls[k] = MaxPolls)
        /\ Finish(k)
        /\ UNCHANGED <<polls, hashed>>
  /\ UNCHANGED <<configured, seen, items, syncVars, ledgerVars, faults>>

CreateRecord(k) ==
  /\ pc[k] = "record"
  /\ record' = [record EXCEPT ![k] = "pending"]
  /\ Finish(k)
  /\ UNCHANGED <<configured, seen, polls, items, hashed, job, ledgerVars, faults>>

Continue(k) ==
  \/ GetAccount(k)
  \/ PrepareTransaction(k)
  \/ SendTransaction(k)
  \/ GetTransaction(k)
  \/ CreateRecord(k)

----------------------------------------------------------------------------
(***************************************************************************)
(* syncPending, once a minute whether or not the last pass has ended       *)
(***************************************************************************)

StartPass(p) ==
  /\ \A k \in Certificates : job[<<p, k>>] = "none"
  /\ job' = [j \in Passes \X Certificates |->
               IF j[1] = p /\ record[j[2]] = "pending" THEN "ask" ELSE job[j]]
  /\ UNCHANGED <<requestVars, record, ledgerVars, faults>>

\* Faulty variant: a transaction Horizon does not know has failed.
AskHorizon_MissFails(p, k) ==
  /\ job[<<p, k>>] = "ask"
  /\ job' = [job EXCEPT ![<<p, k>>] =
       IF k \in horizon /\ tx[k] = "success" THEN "confirmed" ELSE "failed"]
  /\ UNCHANGED <<requestVars, record, ledgerVars, faults>>

\* A transaction Horizon does not know is left for the next pass.
AskHorizon(p, k) ==
  /\ job[<<p, k>>] = "ask"
  /\ job' = [job EXCEPT ![<<p, k>>] =
       IF k \notin horizon THEN "none"
       ELSE IF tx[k] = "success" THEN "confirmed" ELSE "failed"]
  /\ UNCHANGED <<requestVars, record, ledgerVars, faults>>

\* Faulty variant: the record is not saved.
SaveStatus_Forgotten(p, k) ==
  /\ job[<<p, k>>] \in {"confirmed", "failed"}
  /\ job' = [job EXCEPT ![<<p, k>>] = "none"]
  /\ UNCHANGED <<requestVars, record, ledgerVars, faults>>

SaveStatus(p, k) ==
  /\ job[<<p, k>>] \in {"confirmed", "failed"}
  /\ record' = [record EXCEPT ![k] = job[<<p, k>>]]
  /\ job' = [job EXCEPT ![<<p, k>>] = "none"]
  /\ UNCHANGED <<requestVars, ledgerVars, faults>>

----------------------------------------------------------------------------
(***************************************************************************)
(* The ledger and Horizon                                                  *)
(***************************************************************************)

LedgerApplies(k) ==
  /\ tx[k] = "pending" /\ seen[k] = sequence
  /\ \E result \in Applied : tx' = [tx EXCEPT ![k] = result]
  /\ sequence' = sequence + 1
  /\ UNCHANGED <<requestVars, syncVars, horizon, others, faults>>

\* The 30 seconds are over, or another transaction took the sequence number.
LedgerDrops(k) ==
  /\ tx[k] = "pending"
  /\ tx' = [tx EXCEPT ![k] = "dropped"]
  /\ UNCHANGED <<requestVars, syncVars, horizon, sequence, others, faults>>

HorizonIngests(k) ==
  /\ tx[k] \in Applied
  /\ horizon' = horizon \cup {k}
  /\ UNCHANGED <<requestVars, syncVars, tx, sequence, others, faults>>

\* The reward listener, or another process, signs with the backend's key.
OtherTransaction ==
  /\ others < MaxOthers
  /\ others' = others + 1
  /\ sequence' = sequence + 1
  /\ UNCHANGED <<requestVars, syncVars, tx, horizon, faults>>

----------------------------------------------------------------------------
(***************************************************************************)
(* Faults                                                                  *)
(***************************************************************************)

Fault == faults < MaxFaults /\ faults' = faults + 1

\* The exception is caught: no hash, or no record, but the event and the
\* answer.  A transaction whose sending was reported failed may have arrived.
CallFails(k) ==
  /\ Fault
  /\ pc[k] \in Calls
  /\ Finish(k)
  /\ \/ UNCHANGED tx
     \/ /\ pc[k] = "send" /\ seen[k] = sequence
        /\ tx' = [tx EXCEPT ![k] = "pending"]
  /\ UNCHANGED <<configured, seen, polls, items, hashed, syncVars, horizon, sequence,
                 others>>

JobFails(p, k) ==
  /\ Fault
  /\ job[<<p, k>>] # "none"
  /\ job' = [job EXCEPT ![<<p, k>>] = "none"]
  /\ UNCHANGED <<requestVars, record, ledgerVars>>

\* The array of certificates is memory of the process; the records are stored.
ProcessStops ==
  /\ Fault
  /\ pc' = [k \in Certificates |-> IF pc[k] \in Calls THEN "gone" ELSE pc[k]]
  /\ items' = {} /\ hashed' = {}
  /\ job' = NoJobs
  /\ UNCHANGED <<configured, seen, polls, issued, record, ledgerVars>>

Next ==
  \/ \E k \in Certificates :
       \/ Create(k) \/ Continue(k) \/ CallFails(k)
       \/ LedgerApplies(k) \/ LedgerDrops(k) \/ HorizonIngests(k)
  \/ \E p \in Passes : StartPass(p)
  \/ \E p \in Passes, k \in Certificates :
       AskHorizon(p, k) \/ SaveStatus(p, k) \/ JobFails(p, k)
  \/ OtherTransaction
  \/ ProcessStops

Spec == Init /\ [][Next]_vars

\* Calls are settled, the timer fires, Horizon catches up with the ledger.
\* The ledger itself owes nothing: it may drop every transaction.
FairSpec ==
  /\ Spec
  /\ \A k \in Certificates : WF_vars(Continue(k)) /\ WF_vars(HorizonIngests(k))
  /\ \A p \in Passes : WF_vars(StartPass(p))
  /\ \A p \in Passes, k \in Certificates :
       WF_vars(AskHorizon(p, k)) /\ WF_vars(SaveStatus(p, k))

----------------------------------------------------------------------------
(***************************************************************************)
(* Properties                                                              *)
(***************************************************************************)

\* What the platform stores of a certificate is what the ledger says, across
\* late answers, competing mints, overlapping passes and restarts: a hash or a
\* record exists only for a mint that succeeded, is confirmed only when Horizon
\* knows it, and is never marked failed.  (The state has its types.)
RecordsTruthful ==
  /\ CertTypeOK
  /\ \A k \in hashed : k \in items /\ tx[k] = "success"
  /\ \A k \in Certificates :
       /\ record[k] # "none" => tx[k] = "success"
       /\ record[k] \in {"none", "pending"} \/ (record[k] = "confirmed" /\ k \in horizon)

\* Every recorded transaction is confirmed in the end, although passes overlap,
\* lose single records to failures and die with the process; and a certificate
\* with a hash ends confirmed, unless its record was lost to a fault.
RecordsSettle ==
  \A k \in Certificates :
    /\ record[k] = "pending" ~> record[k] = "confirmed"
    /\ k \in hashed ~> record[k] = "confirmed" \/ faults > 0

\* Every request is answered although the ledger may never say anything about
\* its transaction, unless the process stops.
IssuanceAnswered ==
  \A k \in Certificates : pc[k] \in Calls ~> pc[k] \in {"answered", "gone"}

\* "Record the on-chain transaction so StellarSyncService can poll Horizon and
\* confirm the certificate status": with no fault, no answered request leaves a
\* minted certificate without a record.
MintIsRecorded ==
  \A k \in Certificates :
    pc[k] = "answered" /\ tx[k] = "success" /\ faults = 0 => record[k] # "none"
=============================================================================
