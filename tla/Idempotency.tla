---------------------------- MODULE Idempotency ----------------------------
(***************************************************************************)
(* IdempotencyInterceptor around the handler of a decorated endpoint.      *)
(*                                                                         *)
(* The record of a key is looked up before the handler and stored after    *)
(* it, by a save nobody waits for.  Keys are unique over all users, so the *)
(* save of a key that another user has stored is refused, and the refusal, *)
(* which nobody handles, ends the process.                                 *)
(*                                                                         *)
(* No endpoint of the repository is decorated: the handler is external.    *)
(***************************************************************************)
EXTENDS Naturals, FiniteSets

CONSTANTS
  IdemCalls,    \* slots for requests in flight
  Keys, Users,  \* X-Idempotency-Key headers, and users who may send them
  Paths,        \* paths of decorated endpoints
  NoRecord,     \* "no value"
  MaxIdemCalls  \* bounds the requests of a behaviour

ASSUME IdemBounds == MaxIdemCalls \in Nat

VARIABLES
  record,    \* the collection: who stored a key, and for which path
  idemCall,  \* each slot: the call it awaits, and its request
  saves,     \* saves under way
  ran,       \* history: requests answered by their handler since the record of
             \* their key expired, by user and key: none, one, or more
  raced,     \* history: users and keys whose request missed one under way, or
             \* whose response was never stored
  replayed,  \* history: the last replay, the request and the record
  idemCalls  \* what has been used of the bound

idemVars == <<record, idemCall, saves, ran, raced, replayed, idemCalls>>

Requests == [key: Keys, user: Users, path: Paths]
Records == [user: Users, path: Paths]
ASSUME NoRecordOutside == NoRecord \notin Records
IdleIdem == [pc |-> "idle", request |-> NoRecord]

IdemTypeOK ==
  /\ record \in [Keys -> {NoRecord} \cup Records]
  /\ idemCall \in [IdemCalls ->
       {IdleIdem} \cup [pc: {"find", "handler"}, request: Requests]]
  /\ saves \in SUBSET Requests
  /\ ran \in [Keys -> [Users -> 0..2]]
  /\ raced \in SUBSET (Keys \X Users)
  /\ replayed \in {NoRecord} \cup [request: Requests, record: Records]
  /\ idemCalls \in 0..MaxIdemCalls

IdemInit ==
  /\ record = [k \in Keys |-> NoRecord]
  /\ idemCall = [q \in IdemCalls |-> IdleIdem]
  /\ saves = {}
  /\ ran = [k \in Keys |-> [u \in Users |-> 0]]
  /\ raced = {} /\ replayed = NoRecord /\ idemCalls = 0

----------------------------------------------------------------------------
\* A request without the header is refused before anything is asked.
StartIdem(q, r) ==
  /\ idemCall[q] = IdleIdem /\ idemCalls < MaxIdemCalls
  /\ idemCall' = [idemCall EXCEPT ![q] = [pc |-> "find", request |-> r]]
  /\ idemCalls' = idemCalls + 1
  /\ UNCHANGED <<record, saves, ran, raced, replayed>>

\* Requests of the same user and key that have a response to come or to store.
UnderWay(r) ==
  \/ \E q \in IdemCalls : /\ idemCall[q].pc = "handler"
                          /\ idemCall[q].request.key = r.key
                          /\ idemCall[q].request.user = r.user
  \/ \E s \in saves : s.key = r.key /\ s.user = r.user

\* find returns the response without its path, so the test of the path that
\* follows never refuses.
IdemFind(q) ==
  /\ idemCall[q].pc = "find"
  /\ LET r == idemCall[q].request
         found == record[r.key]
     IN  IF found # NoRecord /\ found.user = r.user
           THEN /\ replayed' = [request |-> r, record |-> found]
                /\ idemCall' = [idemCall EXCEPT ![q] = IdleIdem]
                /\ UNCHANGED raced
           ELSE /\ idemCall' = [idemCall EXCEPT ![q].pc = "handler"]
                /\ raced' = IF UnderWay(r) THEN raced \cup {<<r.key, r.user>>} ELSE raced
                /\ UNCHANGED replayed
  /\ UNCHANGED <<record, saves, ran, idemCalls>>

\* Faulty variant: a response that comes while another is being stored is not.
IdemAnswer_OneSave(q) ==
  /\ idemCall[q].pc = "handler"
  /\ LET r == idemCall[q].request
     IN  /\ ran' = [ran EXCEPT ![r.key][r.user] = IF @ = 2 THEN 2 ELSE @ + 1]
         /\ saves' = IF saves = {} THEN {r} ELSE saves
  /\ idemCall' = [idemCall EXCEPT ![q] = IdleIdem]
  /\ UNCHANGED <<record, raced, replayed, idemCalls>>

\* The handler has answered: its response is sent and its save begins.
IdemAnswer(q) ==
  /\ idemCall[q].pc = "handler"
  /\ LET r == idemCall[q].request
     IN  /\ ran' = [ran EXCEPT ![r.key][r.user] = IF @ = 2 THEN 2 ELSE @ + 1]
         /\ saves' = saves \cup {r}
  /\ idemCall' = [idemCall EXCEPT ![q] = IdleIdem]
  /\ UNCHANGED <<record, raced, replayed, idemCalls>>

\* The handler throws: nothing is stored and the request may be repeated.
IdemFails(q) ==
  /\ idemCall[q].pc \in {"find", "handler"}
  /\ idemCall' = [idemCall EXCEPT ![q] = IdleIdem]
  /\ UNCHANGED <<record, saves, ran, raced, replayed, idemCalls>>

\* What ends with the process: requests, and responses not yet stored.
Stops ==
  /\ idemCall' = [q \in IdemCalls |-> IdleIdem]
  /\ saves' = {}
  /\ raced' = raced \cup {<<s.key, s.user>> : s \in saves}

\* The upsert on key and user: the first response of a user stays, and a key
\* of another user is a duplicate.
IdemSave(s) ==
  /\ s \in saves
  /\ \/ /\ record[s.key] = NoRecord
        /\ record' = [record EXCEPT ![s.key] = [user |-> s.user, path |-> s.path]]
        /\ saves' = saves \ {s}
        /\ UNCHANGED <<idemCall, raced>>
     \/ /\ record[s.key] # NoRecord /\ record[s.key].user = s.user
        /\ saves' = saves \ {s}
        /\ UNCHANGED <<record, idemCall, raced>>
     \/ /\ record[s.key] # NoRecord /\ record[s.key].user # s.user
        /\ Stops /\ UNCHANGED record
  /\ UNCHANGED <<ran, replayed, idemCalls>>

\* The database refuses a save, or the process is stopped from outside.
IdemProcessStops == Stops /\ UNCHANGED <<record, ran, replayed, idemCalls>>

\* The TTL index: a day after it was stored.
RecordExpires(k) ==
  /\ record[k] # NoRecord
  /\ record' = [record EXCEPT ![k] = NoRecord]
  /\ ran' = [ran EXCEPT ![k] = [u \in Users |-> 0]]
  /\ raced' = (raced \ ({k} \X Users)) \cup
       {<<k, u>> : u \in {v \in Users : \E r \in Requests :
                            r.key = k /\ r.user = v /\ UnderWay(r)}}
  /\ UNCHANGED <<idemCall, saves, replayed, idemCalls>>

IdemNext ==
  \/ \E q \in IdemCalls :
       \/ \E r \in Requests : StartIdem(q, r)
       \/ IdemFind(q) \/ IdemAnswer(q) \/ IdemFails(q)
  \/ \E s \in saves : IdemSave(s)
  \/ IdemProcessStops
  \/ \E k \in Keys : RecordExpires(k)

IdemSpec == IdemInit /\ [][IdemNext]_idemVars

----------------------------------------------------------------------------
\* "If a cached response exists for key+userId, replay it": until the record
\* expires the handler answers a user's key once, unless a repetition was
\* looked up before the first response was stored, or that was never stored.
RepeatedOnlyByRace ==
  \A k \in Keys, u \in Users : ran[k][u] > 1 => <<k, u>> \in raced

\* "Path validation: reject if path does not match": a response is replayed
\* on the path it was given on only.
ReplayedOnItsPath ==
  replayed # NoRecord => replayed.request.path = replayed.record.path
=============================================================================
