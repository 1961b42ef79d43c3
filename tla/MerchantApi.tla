------------------------------ MODULE MerchantApi ------------------------------
(***************************************************************************)
(* A merchant's call that creates a deposit intent, from its signed header *)
(* to its answer: the timestamp and the nonce, the idempotency key and the *)
(* reference, and the address taken from the pool.                         *)
(*                                                                         *)
(* Handlers are concurrent calls of one or more API processes.  A request  *)
(* is delivered any number of times and at any time, by the network or     *)
(* because the merchant repeats it; a repetition that is signed again is   *)
(* another request with the same key.  Requests that nobody signed are not *)
(* modelled: the signature is checked before anything is written.          *)
(*                                                                         *)
(* Transactions are read committed.  An intent is inserted by the last     *)
(* statement before the commit, so both are one step; the address is       *)
(* locked, some statements earlier, to the end of the transaction.         *)
(*                                                                         *)
(* One clock stands for the time of every API process, which checks the    *)
(* timestamps (auth.go:75), and for that of PostgreSQL, which forgets the  *)
(* nonces (store.go:79); the skew between these clocks is left out.        *)
(***************************************************************************)
EXTENDS Integers

CONSTANTS Handlers,
          Requests,      \* signed requests
          Merchants,
          Owner,         \* merchant of each API key
          Addresses,     \* chain addresses, in the order of their registration
          MaxSkew,       \* accepted distance of a timestamp from the clock
          MaxTime,       \* bound of the clock
          Null           \* SQL NULL

ApiKeys == DOMAIN Owner

\* Owners have merchants, requests are of existing keys, and NULL is none of these.
ASSUME RequestsAssumption ==
  /\ Addresses \subseteq Nat
  /\ MaxSkew \in Nat \ {0} /\ MaxTime \in Nat
  /\ \A k \in ApiKeys : Owner[k] \in Merchants
  /\ Null \notin Merchants \cup Addresses
  /\ \A r \in Requests :
       /\ DOMAIN r = {"apiKey", "nonce", "time", "key", "reference", "terms"}
       /\ r.apiKey \in ApiKeys /\ r.time \in Nat

VARIABLES clock,
          apiKeys,   \* merchant_api_keys that are active
          nonces,    \* merchant_api_nonces
          accepted,  \* history: requests that were authenticated
          pool,      \* deposit_addresses: the merchant of each
          intents,   \* deposit_intents
          call,      \* the running call of each handler
          answers    \* history: 200 and 201 answers

apiVars == <<clock, apiKeys, nonces, accepted, pool, intents, call, answers>>

-----------------------------------------------------------------------------
Nonces == {r.nonce : r \in Requests}
Keys == {r.key : r \in Requests}
References == {r.reference : r \in Requests}
Terms == {r.terms : r \in Requests}   \* amount and lifetime

NonceRow == [apiKey : ApiKeys, nonce : Nonces, expires : Nat]
Intent == [merchant : Merchants, key : Keys, reference : References,
           terms : Terms, address : Addresses]
Answer == [request : Requests, intent : Intent]
Call == [at : {"idle", "received", "timely", "known", "authenticated", "new",
               "choosing", "locked", "conflict"},
         request : Requests \cup {Null},
         free : SUBSET Addresses,             \* what its statement sees
         address : Addresses \cup {Null}]     \* locked
NoCall == [at |-> "idle", request |-> Null, free |-> {}, address |-> Null]

\* The tables keep their types and the keys of their UNIQUE constraints.
ApiTypeOK ==
  /\ clock \in 0 .. MaxTime
  /\ apiKeys \subseteq ApiKeys
  /\ nonces \subseteq NonceRow
  /\ \A m, n \in nonces : m.apiKey = n.apiKey /\ m.nonce = n.nonce => m = n
  /\ accepted \subseteq Requests
  /\ pool \in [Addresses -> Merchants \cup {Null}]
  /\ intents \subseteq Intent
  /\ \A i, j \in intents :
       \/ i.address = j.address
       \/ i.merchant = j.merchant /\ (i.key = j.key \/ i.reference = j.reference)
       => i = j
  /\ call \in [Handlers -> Call]
  /\ \A h \in Handlers : call[h].at # "idle" => call[h].request \in Requests
  /\ answers \subseteq Answer

ApiInit ==
  /\ clock = 0
  /\ apiKeys = {} /\ nonces = {} /\ accepted = {}
  /\ pool = [a \in Addresses |-> Null]
  /\ intents = {}
  /\ call = [h \in Handlers |-> NoCall]
  /\ answers = {}

-----------------------------------------------------------------------------
Tick ==
  /\ clock < MaxTime
  /\ clock' = clock + 1
  /\ UNCHANGED <<apiKeys, nonces, accepted, pool, intents, call, answers>>

ProvisionKey(k) ==
  /\ apiKeys' = apiKeys \cup {k}
  /\ UNCHANGED <<clock, nonces, accepted, pool, intents, call, answers>>

\* A key expires or is revoked, or its merchant is suspended.
KeyEnds(k) ==
  /\ apiKeys' = apiKeys \ {k}
  /\ UNCHANGED <<clock, nonces, accepted, pool, intents, call, answers>>

NewAddress(a, m) ==
  /\ pool[a] = Null
  /\ pool' = [pool EXCEPT ![a] = m]
  /\ UNCHANGED <<clock, apiKeys, nonces, accepted, intents, call, answers>>

\* A registered address stays with its merchant: registered again, it is found
\* or, for another merchant, refused.
ExistingAddress(a) == pool[a] # Null /\ UNCHANGED apiVars

RegisterAddress(a, m) == NewAddress(a, m) \/ ExistingAddress(a)

-----------------------------------------------------------------------------
(* Authentication *)

\* Only the call of h changes.
CallStep(h, next) ==
  /\ call' = [call EXCEPT ![h] = next]
  /\ UNCHANGED <<clock, apiKeys, pool>>

Unwritten == UNCHANGED <<nonces, accepted, intents, answers>>

Receive(h, r) ==
  /\ call[h].at = "idle"
  /\ CallStep(h, [NoCall EXCEPT !.at = "received", !.request = r])
  /\ Unwritten

Timely(r) == clock \in r.time - MaxSkew .. r.time + MaxSkew

CheckTimestamp(h) ==
  /\ call[h].at = "received"
  /\ CallStep(h, IF Timely(call[h].request) THEN [call[h] EXCEPT !.at = "timely"] ELSE NoCall)
  /\ Unwritten

FindActiveKey(h) ==
  /\ call[h].at = "timely"
  /\ CallStep(h, IF call[h].request.apiKey \in apiKeys THEN [call[h] EXCEPT !.at = "known"] ELSE NoCall)
  /\ Unwritten

\* Mutant of NonceLifetime: as long as a timestamp may be old.
NonceLifetimeOfSkew == MaxSkew

NonceLifetime == 2 * MaxSkew

\* One statement deletes what expired of this key and inserts the nonce; the
\* insert still sees the rows that are deleted with it.
ConsumeNonce(h) ==
  LET r == call[h].request
      used == \E n \in nonces : n.apiKey = r.apiKey /\ n.nonce = r.nonce
      kept == {n \in nonces : n.apiKey = r.apiKey => n.expires > clock}
      new == [apiKey |-> r.apiKey, nonce |-> r.nonce, expires |-> clock + NonceLifetime]
  IN
  /\ call[h].at = "known"
  /\ nonces' = IF used THEN kept ELSE kept \cup {new}
  /\ accepted' = IF used THEN accepted ELSE accepted \cup {r}
  /\ CallStep(h, IF used THEN NoCall ELSE [call[h] EXCEPT !.at = "authenticated"])
  /\ UNCHANGED <<intents, answers>>

-----------------------------------------------------------------------------
(* The deposit intent *)

\* The rows that findPoolIntent locks and reads.
Existing(r) ==
  {i \in intents : i.merchant = Owner[r.apiKey] /\ (i.key = r.key \/ i.reference = r.reference)}

\* Mutant of SameOrder: the request hash is not compared.
SameOrderAnyway(r, i) == TRUE

\* The request hash covers the order, not the key.
SameOrder(r, i) == i.reference = r.reference /\ i.terms = r.terms

AnswerWith(r, i) == answers' = answers \cup {[request |-> r, intent |-> i]}

\* At the start of the transaction, and again after a conflict of the insert.
FindIntent(h) ==
  LET r == call[h].request IN
  /\ call[h].at \in {"authenticated", "conflict"}
  /\ \E i \in Existing(r) :
       /\ Existing(r) = {i} /\ SameOrder(r, i)
       /\ AnswerWith(r, i)
  /\ CallStep(h, NoCall)
  /\ UNCHANGED <<nonces, accepted, intents>>

\* Nothing yet; or 409 for another order, and 500 if only the address was lost.
FindNoIntent(h) ==
  LET r == call[h].request IN
  /\ call[h].at \in {"authenticated", "conflict"}
  /\ \A i \in Existing(r) : Existing(r) # {i} \/ ~SameOrder(r, i)
  /\ CallStep(h, IF call[h].at = "authenticated" /\ Existing(r) = {}
             THEN [call[h] EXCEPT !.at = "new"] ELSE NoCall)
  /\ Unwritten

\* The snapshot of the statement that picks an address.
SeeFreeAddresses(h) ==
  /\ call[h].at = "new"
  /\ CallStep(h, [call[h] EXCEPT !.at = "choosing",
       !.free = {a \in Addresses : /\ pool[a] = Owner[call[h].request.apiKey]
                                   /\ \A i \in intents : i.address # a}])
  /\ Unwritten

Locked(a) == \E h \in Handlers : call[h].address = a

\* FOR UPDATE SKIP LOCKED LIMIT 1: the oldest address; or ErrAddressPoolEmpty.
LockAddress(h) ==
  LET open == {a \in call[h].free : ~Locked(a)} IN
  /\ call[h].at = "choosing"
  /\ \/ open = {} /\ CallStep(h, NoCall)
     \/ \E a \in open :
          /\ \A b \in open : a <= b
          /\ CallStep(h, [call[h] EXCEPT !.at = "locked", !.free = {}, !.address = a])
  /\ Unwritten

\* Mutant of Taken: the address was locked, so it must be free.
TakenByKey(i, r, a) ==
  i.merchant = Owner[r.apiKey] /\ (i.key = r.key \/ i.reference = r.reference)

\* The UNIQUE constraints of the table.
Taken(i, r, a) ==
  \/ i.merchant = Owner[r.apiKey] /\ (i.key = r.key \/ i.reference = r.reference)
  \/ i.address = a

InsertIntent(h) ==
  LET r == call[h].request
      new == [merchant |-> Owner[r.apiKey], key |-> r.key, reference |-> r.reference,
              terms |-> r.terms, address |-> call[h].address]
  IN
  /\ call[h].at = "locked"
  /\ \A i \in intents : ~Taken(i, r, call[h].address)
  /\ intents' = intents \cup {new}
  /\ AnswerWith(r, new)
  /\ CallStep(h, NoCall)
  /\ UNCHANGED <<nonces, accepted>>

InsertConflict(h) ==
  /\ call[h].at = "locked"
  /\ \E i \in intents : Taken(i, call[h].request, call[h].address)
  /\ CallStep(h, [call[h] EXCEPT !.at = "conflict"])
  /\ Unwritten

\* The process ends, the caller goes away or the database fails: a rollback.
Abandon(h) ==
  /\ call[h].at # "idle"
  /\ CallStep(h, NoCall)
  /\ Unwritten

-----------------------------------------------------------------------------
CreateDeposit(h) ==
  \/ \E r \in Requests : Receive(h, r)
  \/ CheckTimestamp(h) \/ FindActiveKey(h) \/ ConsumeNonce(h)
  \/ FindIntent(h) \/ FindNoIntent(h)
  \/ SeeFreeAddresses(h) \/ LockAddress(h)
  \/ InsertIntent(h) \/ InsertConflict(h)
  \/ Abandon(h)

ApiNext ==
  \/ Tick
  \/ \E k \in ApiKeys : ProvisionKey(k) \/ KeyEnds(k)
  \/ \E a \in Addresses, m \in Merchants : RegisterAddress(a, m)
  \/ \E h \in Handlers : CreateDeposit(h)

ApiSpec == ApiInit /\ [][ApiNext]_apiVars

-----------------------------------------------------------------------------
(* Properties *)

\* A signed request takes effect once: it is accepted again only if the call
\* that was checked in time consumed its nonce when the window was over.
NonceOnce ==
  [][\A h \in Handlers :
       /\ call[h].at = "known" /\ call'[h].at = "authenticated"
       /\ call[h].request \in accepted
       => clock >= call[h].request.time + MaxSkew]_apiVars

\* Every answer names an intent that stands, of the merchant that signed and of
\* the order it signed, at an address registered for that merchant; whatever
\* keys an order was sent under, its answers name one address, and no other
\* order is answered with that address.
RepliesAgree ==
  \A x \in answers :
    /\ x.request \in accepted
    /\ x.intent \in intents
    /\ x.intent.merchant = Owner[x.request.apiKey]
    /\ x.intent.reference = x.request.reference /\ x.intent.terms = x.request.terms
    /\ pool[x.intent.address] = x.intent.merchant
    /\ \A y \in answers :
         x.intent.address = y.intent.address <=>
           /\ Owner[x.request.apiKey] = Owner[y.request.apiKey]
           /\ x.request.reference = y.request.reference
=============================================================================
