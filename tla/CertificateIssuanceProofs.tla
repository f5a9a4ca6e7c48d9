---------------------- MODULE CertificateIssuanceProofs ----------------------
(***************************************************************************)
(* Theorem about CertificateIssuance: what the platform stores of a        *)
(* certificate is what the ledger says.                                    *)
(*                                                                         *)
(* RecordsTruthful is not inductive.  It needs that a mint is sent once,   *)
(* so that nothing overwrites a success; that a request about to write its *)
(* record has seen the success and has not written one before; and that a  *)
(* pass only works on records that exist.                                  *)
(***************************************************************************)
EXTENDS CertificateIssuance, TLAPS

Unfinished == Calls \cup {"unasked"}

\* The calls before anything of the mint can have reached the ledger.
BeforeSending == {"unasked", "account", "prepare", "send"}

RequestOK(k) ==
  /\ pc[k] \in Unfinished => issued[k] = 0 /\ record[k] = "none"
  /\ pc[k] \in Calls => k \in items
  /\ pc[k] \in BeforeSending => tx[k] = "none"
  /\ pc[k] = "record" => tx[k] = "success"

HashOK(k) == k \in hashed => k \in items /\ tx[k] = "success"

RecordOK(k) ==
  /\ record[k] # "none" => tx[k] = "success"
  /\ record[k] \in {"none", "pending"} \/ (record[k] = "confirmed" /\ k \in horizon)

JobOK(p, k) ==
  /\ job[<<p, k>>] # "none" => record[k] # "none"
  /\ job[<<p, k>>] # "failed"
  /\ job[<<p, k>>] = "confirmed" => k \in horizon

CertInv ==
  /\ CertTypeOK
  /\ \A k \in Certificates : RequestOK(k) /\ HashOK(k) /\ RecordOK(k)
  /\ \A p \in Passes, k \in Certificates : JobOK(p, k)

----------------------------------------------------------------------------
LEMMA CertInitInv == Init => CertInv
<1> SUFFICES ASSUME Init PROVE CertInv
  OBVIOUS
<1>1. CertTypeOK
  BY BoundsAreNat DEF Init, CertTypeOK, NoJobs
<1> QED BY <1>1 DEF Init, CertInv, RequestOK, HashOK, RecordOK, JobOK, NoJobs, Unfinished,
                    Calls, BeforeSending

----------------------------------------------------------------------------
(***************************************************************************)
(* The steps of a request touch one certificate.                           *)
(***************************************************************************)

\* Whatever changes only at k, and by no step of a pass.
OnlyAt(k) ==
  /\ \A r \in Certificates : r # k => /\ pc'[r] = pc[r] /\ issued'[r] = issued[r]
                                      /\ record'[r] = record[r] /\ tx'[r] = tx[r]
  /\ items \subseteq items' /\ hashed' \subseteq hashed \cup {k}
  /\ record[k] # "none" => record'[k] # "none"
  /\ UNCHANGED <<job, horizon>>

LEMMA OnlyAtInv ==
  ASSUME CertInv, NEW k \in Certificates, CertTypeOK', OnlyAt(k),
         RequestOK(k)', HashOK(k)', RecordOK(k)'
  PROVE  CertInv'
<1>1. ASSUME NEW r \in Certificates, r # k
      PROVE  RequestOK(r)' /\ HashOK(r)' /\ RecordOK(r)'
  BY <1>1 DEF CertInv, OnlyAt, RequestOK, HashOK, RecordOK
<1>2. ASSUME NEW p \in Passes, NEW r \in Certificates
      PROVE  JobOK(p, r)'
  BY DEF CertInv, OnlyAt, JobOK
<1> QED BY <1>1, <1>2 DEF CertInv

\* The answer is given once: the event was not sent before.
LEMMA FinishTyped ==
  ASSUME CertInv, NEW k \in Certificates, pc[k] \in Unfinished, Finish(k)
  PROVE  /\ pc' \in [Certificates -> Calls \cup {"unasked", "answered", "gone"}]
         /\ issued' \in [Certificates -> 0..1]
         /\ pc'[k] = "answered"
         /\ \A r \in Certificates : r # k => pc'[r] = pc[r] /\ issued'[r] = issued[r]
  BY DEF CertInv, CertTypeOK, RequestOK, Finish, Await

LEMMA AwaitTyped ==
  ASSUME CertInv, NEW k \in Certificates, NEW call \in Calls, Await(k, call)
  PROVE  /\ pc' \in [Certificates -> Calls \cup {"unasked", "answered", "gone"}]
         /\ pc'[k] = call
         /\ \A r \in Certificates : r # k => pc'[r] = pc[r]
  BY DEF CertInv, CertTypeOK, Await

LEMMA CreateInv ==
  ASSUME CertInv, NEW k \in Certificates, Create(k)
  PROVE  CertInv'
<1>1. /\ pc[k] = "unasked" /\ items' = items \cup {k} /\ CertTypeOK
      /\ RequestOK(k) /\ HashOK(k) /\ RecordOK(k)
  BY DEF Create, CertInv
<1>2. UNCHANGED <<configured, seen, polls, hashed, record, job, tx, horizon, sequence, others,
                  faults>>
  BY DEF Create, syncVars, ledgerVars
<1>3. CASE Await(k, "account") /\ UNCHANGED issued
  <2>1. /\ pc' \in [Certificates -> Calls \cup {"unasked", "answered", "gone"}]
        /\ pc'[k] = "account"
        /\ \A r \in Certificates : r # k => pc'[r] = pc[r]
    BY <1>3, AwaitTyped DEF Calls
  <2>2. CertTypeOK'
    BY <1>1, <1>2, <1>3, <2>1 DEF CertTypeOK
  <2>3. OnlyAt(k)
    BY <1>1, <1>2, <1>3, <2>1 DEF OnlyAt
  <2>4. RequestOK(k)' /\ HashOK(k)' /\ RecordOK(k)'
    BY <1>1, <1>2, <1>3, <2>1
       DEF RequestOK, HashOK, RecordOK, Unfinished, Calls, BeforeSending
  <2> QED BY <2>2, <2>3, <2>4, OnlyAtInv
<1>4. CASE Finish(k)
  <2>1. /\ pc' \in [Certificates -> Calls \cup {"unasked", "answered", "gone"}]
        /\ issued' \in [Certificates -> 0..1]
        /\ pc'[k] = "answered"
        /\ \A r \in Certificates : r # k => pc'[r] = pc[r] /\ issued'[r] = issued[r]
    BY <1>1, <1>4, FinishTyped DEF Unfinished
  <2>2. CertTypeOK'
    BY <1>1, <1>2, <2>1 DEF CertTypeOK
  <2>3. OnlyAt(k)
    BY <1>1, <1>2, <2>1 DEF OnlyAt
  <2>4. RequestOK(k)' /\ HashOK(k)' /\ RecordOK(k)'
    BY <1>1, <1>2, <2>1 DEF RequestOK, HashOK, RecordOK, Unfinished, Calls, BeforeSending
  <2> QED BY <2>2, <2>3, <2>4, OnlyAtInv
<1> QED BY <1>3, <1>4 DEF Create

\* A request that ends with its answer, whatever else it did, as long as it
\* left a mint that may have succeeded alone.
LEMMA FinishedInv ==
  ASSUME CertInv, NEW k \in Certificates, pc[k] \in Calls, Finish(k),
         UNCHANGED <<configured, seen, polls, items, hashed, job, horizon, sequence, others>>,
         faults' \in 0..MaxFaults,
         tx' = tx \/ (pc[k] = "send" /\ tx' = [tx EXCEPT ![k] = "pending"]),
         record' = record \/ (pc[k] = "record" /\ record' = [record EXCEPT ![k] = "pending"])
  PROVE  CertInv'
<1>1. /\ pc' \in [Certificates -> Calls \cup {"unasked", "answered", "gone"}]
      /\ issued' \in [Certificates -> 0..1]
      /\ pc'[k] = "answered"
      /\ \A r \in Certificates : r # k => pc'[r] = pc[r] /\ issued'[r] = issued[r]
  BY FinishTyped DEF Unfinished
<1>2. CertTypeOK /\ RequestOK(k) /\ HashOK(k) /\ RecordOK(k)
  BY DEF CertInv
<1>3. /\ tx' \in [Certificates -> {"none", "pending", "dropped"} \cup Applied]
      /\ \A r \in Certificates : r # k => tx'[r] = tx[r]
      /\ tx[k] = "success" => tx'[k] = "success"
  BY <1>2 DEF CertTypeOK, RequestOK, BeforeSending
<1>4. /\ record' \in [Certificates -> {"none", "pending", "confirmed", "failed"}]
      /\ \A r \in Certificates : r # k => record'[r] = record[r]
      /\ record'[k] = record[k] \/ (pc[k] = "record" /\ record'[k] = "pending")
  BY <1>2 DEF CertTypeOK
<1>5. CertTypeOK'
  BY <1>1, <1>2, <1>3, <1>4 DEF CertTypeOK
<1>6. OnlyAt(k)
  BY <1>1, <1>3, <1>4 DEF OnlyAt
<1>7. RequestOK(k)' /\ HashOK(k)' /\ RecordOK(k)'
  BY <1>1, <1>2, <1>3, <1>4
     DEF RequestOK, HashOK, RecordOK, Unfinished, Calls, BeforeSending
<1> QED BY <1>5, <1>6, <1>7, OnlyAtInv

\* A request that goes on to the next call.
LEMMA AwaitedInv ==
  ASSUME CertInv, NEW k \in Certificates, pc[k] \in Calls,
         NEW call \in {"prepare", "send", "poll"}, Await(k, call),
         call \in BeforeSending => pc[k] \in BeforeSending,
         UNCHANGED <<configured, items, hashed, issued, record, job, horizon, sequence, others,
                     faults, polls>>,
         seen' \in [Certificates -> Nat],
         tx' = tx \/ (pc[k] = "send" /\ call = "poll" /\ tx' = [tx EXCEPT ![k] = "pending"])
  PROVE  CertInv'
<1>1. /\ pc' \in [Certificates -> Calls \cup {"unasked", "answered", "gone"}]
      /\ pc'[k] = call /\ call \in Calls
      /\ \A r \in Certificates : r # k => pc'[r] = pc[r]
  BY AwaitTyped DEF Calls
<1>2. CertTypeOK /\ RequestOK(k) /\ HashOK(k) /\ RecordOK(k)
  BY DEF CertInv
<1>3. /\ tx' \in [Certificates -> {"none", "pending", "dropped"} \cup Applied]
      /\ \A r \in Certificates : r # k => tx'[r] = tx[r]
      /\ tx[k] = "success" => tx'[k] = "success"
      /\ call \in BeforeSending => tx'[k] = "none"
  BY <1>2 DEF CertTypeOK, RequestOK, BeforeSending
<1>4. CertTypeOK'
  BY <1>1, <1>2, <1>3 DEF CertTypeOK
<1>5. OnlyAt(k)
  BY <1>1, <1>3 DEF OnlyAt
<1>6. RequestOK(k)' /\ HashOK(k)' /\ RecordOK(k)'
  BY <1>1, <1>2, <1>3 DEF RequestOK, HashOK, RecordOK, Unfinished
<1> QED BY <1>4, <1>5, <1>6, OnlyAtInv

LEMMA GetAccountInv ==
  ASSUME CertInv, NEW k \in Certificates, GetAccount(k)
  PROVE  CertInv'
<1>1. seen' \in [Certificates -> Nat]
  BY DEF GetAccount, CertInv, CertTypeOK
<1> QED BY <1>1, AwaitedInv DEF GetAccount, Calls, BeforeSending, syncVars, ledgerVars

LEMMA PrepareTransactionInv ==
  ASSUME CertInv, NEW k \in Certificates, PrepareTransaction(k)
  PROVE  CertInv'
<1>1. /\ pc[k] = "prepare" /\ pc[k] \in Calls /\ pc[k] \in BeforeSending
      /\ UNCHANGED <<configured, items, hashed, record, job, horizon, sequence, others,
                     faults, polls, seen, tx>>
  BY DEF PrepareTransaction, syncVars, ledgerVars, Calls, BeforeSending
<1>2. seen' \in [Certificates -> Nat] /\ faults' \in 0..MaxFaults
  BY <1>1 DEF CertInv, CertTypeOK
<1>3. CASE Await(k, "send") /\ UNCHANGED issued
  BY <1>1, <1>2, <1>3, AwaitedInv
<1>4. CASE Finish(k)
  BY <1>1, <1>2, <1>4, FinishedInv
<1> QED BY <1>3, <1>4 DEF PrepareTransaction

LEMMA SendTransactionInv ==
  ASSUME CertInv, NEW k \in Certificates, SendTransaction(k)
  PROVE  CertInv'
<1>1. /\ pc[k] = "send" /\ pc[k] \in Calls /\ "poll" \notin BeforeSending
      /\ UNCHANGED <<configured, items, hashed, record, job, horizon, sequence, others,
                     faults, polls, seen>>
  BY DEF SendTransaction, syncVars, Calls, BeforeSending
<1>2. seen' \in [Certificates -> Nat] /\ faults' \in 0..MaxFaults
  BY <1>1 DEF CertInv, CertTypeOK
<1>3. CASE /\ Await(k, "poll") /\ UNCHANGED issued
           /\ tx' = tx \/ tx' = [tx EXCEPT ![k] = "pending"]
  BY <1>1, <1>2, <1>3, AwaitedInv
<1>4. CASE Finish(k) /\ UNCHANGED tx
  BY <1>1, <1>2, <1>4, FinishedInv
<1> QED BY <1>3, <1>4 DEF SendTransaction

LEMMA GetTransactionInv ==
  ASSUME CertInv, NEW k \in Certificates, GetTransaction(k)
  PROVE  CertInv'
<1>1. /\ pc[k] = "poll" /\ pc[k] \in Calls
      /\ UNCHANGED <<configured, seen, items, record, job, tx, horizon, sequence, others, faults>>
  BY DEF GetTransaction, syncVars, ledgerVars, Calls
<1>2. CertTypeOK /\ RequestOK(k) /\ HashOK(k) /\ RecordOK(k)
  BY DEF CertInv
<1>3. CASE /\ polls[k] < MaxPolls /\ polls' = [polls EXCEPT ![k] = @ + 1]
           /\ UNCHANGED <<pc, hashed, issued>>
  <2>1. polls' \in [Certificates -> 0..MaxPolls]
    BY <1>2, <1>3, BoundsAreNat DEF CertTypeOK
  <2>2. CertTypeOK'
    BY <1>1, <1>2, <1>3, <2>1 DEF CertTypeOK
  <2>3. OnlyAt(k)
    BY <1>1, <1>3 DEF OnlyAt
  <2>4. RequestOK(k)' /\ HashOK(k)' /\ RecordOK(k)'
    BY <1>1, <1>2, <1>3 DEF RequestOK, HashOK, RecordOK
  <2> QED BY <2>2, <2>3, <2>4, OnlyAtInv
<1>4. CASE /\ tx[k] = "success" /\ hashed' = hashed \cup {k} /\ Await(k, "record")
           /\ UNCHANGED <<polls, issued>>
  <2>1. /\ pc' \in [Certificates -> Calls \cup {"unasked", "answered", "gone"}]
        /\ pc'[k] = "record"
        /\ \A r \in Certificates : r # k => pc'[r] = pc[r]
    BY <1>4, AwaitTyped DEF Calls
  <2>2. CertTypeOK'
    BY <1>1, <1>2, <1>4, <2>1 DEF CertTypeOK
  <2>3. OnlyAt(k)
    BY <1>1, <1>4, <2>1 DEF OnlyAt
  <2>4. RequestOK(k)' /\ HashOK(k)' /\ RecordOK(k)'
    BY <1>1, <1>2, <1>4, <2>1
       DEF RequestOK, HashOK, RecordOK, Unfinished, Calls, BeforeSending
  <2> QED BY <2>2, <2>3, <2>4, OnlyAtInv
<1>5. CASE Finish(k) /\ UNCHANGED <<polls, hashed>>
  <2>1. faults' \in 0..MaxFaults
    BY <1>1, <1>2 DEF CertTypeOK
  <2> QED BY <1>1, <1>5, <2>1, FinishedInv
<1> QED BY <1>3, <1>4, <1>5 DEF GetTransaction

LEMMA CreateRecordInv ==
  ASSUME CertInv, NEW k \in Certificates, CreateRecord(k)
  PROVE  CertInv'
<1>1. /\ pc[k] = "record" /\ pc[k] \in Calls /\ Finish(k)
      /\ record' = [record EXCEPT ![k] = "pending"]
      /\ UNCHANGED <<configured, seen, polls, items, hashed, job, tx, horizon, sequence, others,
                     faults>>
  BY DEF CreateRecord, ledgerVars, Calls
<1>2. faults' \in 0..MaxFaults
  BY <1>1 DEF CertInv, CertTypeOK
<1> QED BY <1>1, <1>2, FinishedInv

LEMMA CallFailsInv ==
  ASSUME CertInv, NEW k \in Certificates, CallFails(k)
  PROVE  CertInv'
<1>1. /\ pc[k] \in Calls /\ Finish(k)
      /\ tx' = tx \/ (pc[k] = "send" /\ tx' = [tx EXCEPT ![k] = "pending"])
      /\ UNCHANGED <<configured, seen, polls, items, hashed, record, job, horizon, sequence,
                     others>>
  BY DEF CallFails, syncVars
<1>2. faults' \in 0..MaxFaults
  BY BoundsAreNat DEF CallFails, Fault, CertInv, CertTypeOK
<1> QED BY <1>1, <1>2, FinishedInv

----------------------------------------------------------------------------
(***************************************************************************)
(* The passes, the ledger and the stop                                     *)
(***************************************************************************)

\* A pass that turns to job j for the record of k, and saves what it found.
LEMMA PassInv ==
  ASSUME CertInv, NEW p \in Passes, NEW k \in Certificates,
         NEW j \in {"none", "ask", "confirmed"}, job' = [job EXCEPT ![<<p, k>>] = j],
         j # "none" => record[k] # "none",
         j = "confirmed" => k \in horizon,
         record' = record
           \/ (job[<<p, k>>] = "confirmed" /\ record' = [record EXCEPT ![k] = "confirmed"]),
         UNCHANGED <<requestVars, ledgerVars>>, faults' \in 0..MaxFaults
  PROVE  CertInv'
<1>1. UNCHANGED <<configured, pc, seen, polls, items, hashed, issued, tx, horizon, sequence,
                  others>>
  BY DEF requestVars, ledgerVars
<1>2. CertTypeOK /\ JobOK(p, k)
  BY DEF CertInv
<1>3. <<p, k>> \in Passes \X Certificates
  OBVIOUS
<1>4. /\ job' \in [Passes \X Certificates -> {"none", "ask", "confirmed", "failed"}]
      /\ \A i \in Passes \X Certificates :
           job'[i] = IF i = <<p, k>> THEN j ELSE job[i]
  BY <1>2, <1>3 DEF CertTypeOK
<1>5. /\ record' \in [Certificates -> {"none", "pending", "confirmed", "failed"}]
      /\ \A r \in Certificates :
           \/ record'[r] = record[r]
           \/ record[r] # "none" /\ r \in horizon /\ record'[r] = "confirmed"
  BY <1>2 DEF CertTypeOK, JobOK
<1>6. CertTypeOK'
  BY <1>1, <1>2, <1>4, <1>5 DEF CertTypeOK
<1>7. ASSUME NEW r \in Certificates
      PROVE  RequestOK(r)' /\ HashOK(r)' /\ RecordOK(r)'
  <2>1. RequestOK(r) /\ HashOK(r) /\ RecordOK(r)
    BY DEF CertInv
  <2> QED BY <1>1, <1>5, <2>1 DEF RequestOK, HashOK, RecordOK
<1>8. ASSUME NEW o \in Passes, NEW r \in Certificates
      PROVE  JobOK(o, r)'
  <2>1. JobOK(o, r) /\ <<o, r>> \in Passes \X Certificates
    BY DEF CertInv
  <2>2. record[r] # "none" => record'[r] # "none"
    BY <1>5
  <2>3. CASE o = p /\ r = k
    BY <1>1, <1>4, <2>1, <2>2, <2>3 DEF JobOK
  <2>4. CASE ~ (o = p /\ r = k)
    BY <1>1, <1>4, <2>1, <2>2, <2>4 DEF JobOK
  <2> QED BY <2>3, <2>4
<1> QED BY <1>6, <1>7, <1>8 DEF CertInv

\* A mint whose record exists has succeeded: Horizon's answer is never a
\* failure.
LEMMA AskHorizonInv ==
  ASSUME CertInv, NEW p \in Passes, NEW k \in Certificates, AskHorizon(p, k)
  PROVE  CertInv'
<1>1. record[k] # "none" /\ tx[k] = "success"
  BY DEF CertInv, JobOK, RecordOK, AskHorizon
<1>2. faults' \in 0..MaxFaults
  BY DEF AskHorizon, CertInv, CertTypeOK
<1>3. CASE k \notin horizon
  <2>1. job' = [job EXCEPT ![<<p, k>>] = "none"]
    BY <1>3 DEF AskHorizon
  <2> QED BY <1>2, <2>1, PassInv DEF AskHorizon
<1>4. CASE k \in horizon
  <2>1. job' = [job EXCEPT ![<<p, k>>] = "confirmed"]
    BY <1>1, <1>4 DEF AskHorizon
  <2> QED BY <1>1, <1>2, <1>4, <2>1, PassInv DEF AskHorizon
<1> QED BY <1>3, <1>4

LEMMA SaveStatusInv ==
  ASSUME CertInv, NEW p \in Passes, NEW k \in Certificates, SaveStatus(p, k)
  PROVE  CertInv'
<1>1. job[<<p, k>>] = "confirmed"
  BY DEF CertInv, JobOK, SaveStatus
<1>2. faults' \in 0..MaxFaults
  BY DEF SaveStatus, CertInv, CertTypeOK
<1> QED BY <1>1, <1>2, PassInv DEF SaveStatus

LEMMA JobFailsInv ==
  ASSUME CertInv, NEW p \in Passes, NEW k \in Certificates, JobFails(p, k)
  PROVE  CertInv'
<1>1. faults' \in 0..MaxFaults
  BY BoundsAreNat DEF JobFails, Fault, CertInv, CertTypeOK
<1> QED BY <1>1, PassInv DEF JobFails

LEMMA StartPassInv ==
  ASSUME CertInv, NEW p \in Passes, StartPass(p)
  PROVE  CertInv'
<1>1. UNCHANGED <<configured, pc, seen, polls, items, hashed, issued, record, tx, horizon,
                  sequence, others, faults>>
  BY DEF StartPass, requestVars, ledgerVars
<1>2. \A i \in Passes \X Certificates :
        job'[i] = IF i[1] = p /\ record[i[2]] = "pending" THEN "ask" ELSE job[i]
  BY DEF StartPass
<1>3. job' \in [Passes \X Certificates -> {"none", "ask", "confirmed", "failed"}]
  BY DEF StartPass, CertInv, CertTypeOK
<1>4. CertTypeOK'
  BY <1>1, <1>3 DEF CertInv, CertTypeOK
<1>5. ASSUME NEW r \in Certificates
      PROVE  RequestOK(r)' /\ HashOK(r)' /\ RecordOK(r)'
  BY <1>1 DEF CertInv, RequestOK, HashOK, RecordOK
<1>6. ASSUME NEW o \in Passes, NEW r \in Certificates
      PROVE  JobOK(o, r)'
  <2>1. JobOK(o, r) /\ <<o, r>> \in Passes \X Certificates
    BY DEF CertInv
  <2> QED BY <1>1, <1>2, <2>1 DEF JobOK
<1> QED BY <1>4, <1>5, <1>6 DEF CertInv

\* The ledger decides about a transaction that is pending: no success is
\* taken back, and none of what was decided is news to the platform.
LEMMA DecidedInv ==
  ASSUME CertInv, NEW k \in Certificates, tx[k] = "pending",
         NEW result \in {"success", "failed", "dropped"}, tx' = [tx EXCEPT ![k] = result],
         UNCHANGED <<requestVars, syncVars, horizon, others, faults>>, sequence' \in Nat
  PROVE  CertInv'
<1>1. UNCHANGED <<configured, pc, seen, polls, items, hashed, issued, record, job, horizon,
                  others, faults>>
  BY DEF requestVars, syncVars
<1>2. CertTypeOK
  BY DEF CertInv
<1>3. /\ tx' \in [Certificates -> {"none", "pending", "dropped"} \cup Applied]
      /\ \A r \in Certificates : r # k => tx'[r] = tx[r]
  BY <1>2 DEF CertTypeOK, Applied
<1>4. CertTypeOK'
  BY <1>1, <1>2, <1>3 DEF CertTypeOK
<1>5. ASSUME NEW r \in Certificates
      PROVE  RequestOK(r)' /\ HashOK(r)' /\ RecordOK(r)'
  <2>1. RequestOK(r) /\ HashOK(r) /\ RecordOK(r)
    BY DEF CertInv
  <2>2. CASE r # k
    BY <1>1, <1>3, <2>1, <2>2 DEF RequestOK, HashOK, RecordOK
  <2>3. CASE r = k
    BY <1>1, <2>1, <2>3 DEF RequestOK, HashOK, RecordOK
  <2> QED BY <2>2, <2>3
<1>6. ASSUME NEW o \in Passes, NEW r \in Certificates
      PROVE  JobOK(o, r)'
  BY <1>1 DEF CertInv, JobOK
<1> QED BY <1>4, <1>5, <1>6 DEF CertInv

LEMMA LedgerInv ==
  ASSUME CertInv, NEW k \in Certificates, LedgerApplies(k) \/ LedgerDrops(k)
  PROVE  CertInv'
<1>1. tx[k] = "pending"
  BY DEF LedgerApplies, LedgerDrops
<1>2. UNCHANGED <<requestVars, syncVars, horizon, others, faults>> /\ sequence' \in Nat
  BY DEF LedgerApplies, LedgerDrops, CertInv, CertTypeOK
<1>3. PICK result \in {"success", "failed", "dropped"} : tx' = [tx EXCEPT ![k] = result]
  BY DEF LedgerApplies, LedgerDrops, Applied
<1> QED BY <1>1, <1>2, <1>3, DecidedInv

\* Horizon only gets to know more, and others only use up sequence numbers.
LEMMA OutsideInv ==
  ASSUME CertInv, UNCHANGED <<requestVars, syncVars, tx, faults>>,
         horizon \subseteq horizon', horizon' \in SUBSET Certificates,
         sequence' \in Nat, others' \in 0..MaxOthers
  PROVE  CertInv'
<1>1. UNCHANGED <<configured, pc, seen, polls, items, hashed, issued, record, job, tx, faults>>
  BY DEF requestVars, syncVars
<1>2. CertTypeOK'
  BY <1>1 DEF CertInv, CertTypeOK
<1>3. ASSUME NEW r \in Certificates
      PROVE  RequestOK(r)' /\ HashOK(r)' /\ RecordOK(r)'
  BY <1>1 DEF CertInv, RequestOK, HashOK, RecordOK
<1>4. ASSUME NEW o \in Passes, NEW r \in Certificates
      PROVE  JobOK(o, r)'
  BY <1>1 DEF CertInv, JobOK
<1> QED BY <1>2, <1>3, <1>4 DEF CertInv

LEMMA HorizonIngestsInv ==
  ASSUME CertInv, NEW k \in Certificates, HorizonIngests(k)
  PROVE  CertInv'
<1>1. /\ horizon \subseteq horizon' /\ horizon' \in SUBSET Certificates
      /\ sequence' \in Nat /\ others' \in 0..MaxOthers
  BY DEF HorizonIngests, CertInv, CertTypeOK
<1> QED BY <1>1, OutsideInv DEF HorizonIngests

LEMMA OtherTransactionInv ==
  ASSUME CertInv, OtherTransaction
  PROVE  CertInv'
<1>1. /\ horizon \subseteq horizon' /\ horizon' \in SUBSET Certificates
      /\ sequence' \in Nat /\ others' \in 0..MaxOthers
  BY BoundsAreNat DEF OtherTransaction, CertInv, CertTypeOK
<1> QED BY <1>1, OutsideInv DEF OtherTransaction

LEMMA StutterInv ==
  ASSUME CertInv, UNCHANGED vars
  PROVE  CertInv'
<1>1. /\ horizon \subseteq horizon' /\ horizon' \in SUBSET Certificates
      /\ sequence' \in Nat /\ others' \in 0..MaxOthers
  BY DEF vars, ledgerVars, CertInv, CertTypeOK
<1> QED BY <1>1, OutsideInv DEF vars, ledgerVars

\* The hashes go with the process; the records and the ledger do not.
LEMMA ProcessStopsInv ==
  ASSUME CertInv, ProcessStops
  PROVE  CertInv'
<1>1. /\ UNCHANGED <<configured, seen, polls, issued, record, tx, horizon, sequence, others>>
      /\ items' = {} /\ hashed' = {} /\ job' = NoJobs
      /\ pc' = [k \in Certificates |-> IF pc[k] \in Calls THEN "gone" ELSE pc[k]]
  BY DEF ProcessStops, ledgerVars
<1>2. faults' \in 0..MaxFaults
  BY BoundsAreNat DEF ProcessStops, Fault, CertInv, CertTypeOK
<1>3. /\ pc' \in [Certificates -> Calls \cup {"unasked", "answered", "gone"}]
      /\ job' \in [Passes \X Certificates -> {"none", "ask", "confirmed", "failed"}]
  BY <1>1 DEF CertInv, CertTypeOK, NoJobs
<1>4. CertTypeOK'
  BY <1>1, <1>2, <1>3 DEF CertInv, CertTypeOK
<1>5. ASSUME NEW r \in Certificates
      PROVE  RequestOK(r)' /\ HashOK(r)' /\ RecordOK(r)'
  <2>1. pc'[r] \notin Calls /\ (pc'[r] = pc[r] \/ pc'[r] = "gone")
    BY <1>1 DEF Calls
  <2>2. RequestOK(r) /\ RecordOK(r)
    BY DEF CertInv
  <2> QED BY <1>1, <2>1, <2>2
          DEF RequestOK, HashOK, RecordOK, Unfinished, Calls, BeforeSending
<1>6. ASSUME NEW o \in Passes, NEW r \in Certificates
      PROVE  JobOK(o, r)'
  BY <1>1 DEF JobOK, NoJobs
<1> QED BY <1>4, <1>5, <1>6 DEF CertInv

LEMMA CertNextInv == CertInv /\ [Next]_vars => CertInv'
<1> SUFFICES ASSUME CertInv, [Next]_vars PROVE CertInv'
  OBVIOUS
<1>1. ASSUME NEW k \in Certificates, Create(k) \/ Continue(k) \/ CallFails(k)
      PROVE  CertInv'
  BY <1>1, CreateInv, GetAccountInv, PrepareTransactionInv, SendTransactionInv,
     GetTransactionInv, CreateRecordInv, CallFailsInv DEF Continue
<1>2. ASSUME NEW k \in Certificates, LedgerApplies(k) \/ LedgerDrops(k) \/ HorizonIngests(k)
      PROVE  CertInv'
  BY <1>2, LedgerInv, HorizonIngestsInv
<1>3. ASSUME NEW p \in Passes, StartPass(p)
      PROVE  CertInv'
  BY <1>3, StartPassInv
<1>4. ASSUME NEW p \in Passes, NEW k \in Certificates,
             AskHorizon(p, k) \/ SaveStatus(p, k) \/ JobFails(p, k)
      PROVE  CertInv'
  BY <1>4, AskHorizonInv, SaveStatusInv, JobFailsInv
<1>5. CASE OtherTransaction
  BY <1>5, OtherTransactionInv
<1>6. CASE ProcessStops
  BY <1>6, ProcessStopsInv
<1>7. CASE UNCHANGED vars
  BY <1>7, StutterInv
<1> QED BY <1>1, <1>2, <1>3, <1>4, <1>5, <1>6, <1>7 DEF Next

\* For any certificates, overlapping passes, polls, competing transactions and
\* faults: a hash or a record stands only for a mint that succeeded, a
\* confirmation only for one Horizon knows, and no record is marked failed.
THEOREM RecordsAreTruthful == Spec => []RecordsTruthful
<1>1. CertInv => RecordsTruthful
  <2> SUFFICES ASSUME CertInv PROVE RecordsTruthful
    OBVIOUS
  <2>1. hashed \subseteq Certificates
    BY DEF CertInv, CertTypeOK
  <2> QED BY <2>1 DEF CertInv, HashOK, RecordOK, RecordsTruthful
<1> QED BY <1>1, CertInitInv, CertNextInv, PTL DEF Spec
=============================================================================
