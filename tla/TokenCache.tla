----------------------------- MODULE TokenCache -----------------------------
(***************************************************************************)
(* Installation tokens (GitHubAuth of src/reviewer/providers/github/       *)
(* client.py): a token is cached per installation and exchanged anew when  *)
(* less than Buffer of its life is left.                                   *)
(*                                                                         *)
(* The tasks of one event loop call get_installation_token.  Nothing keeps *)
(* two of them from exchanging at once: the cache is read before the await *)
(* of the exchange and written after it, so answers may be cached in       *)
(* another order than GitHub issued them.  A token is known by its expiry. *)
(* time.time() and GitHub's clock are one, in whole ticks.                 *)
(***************************************************************************)
EXTENDS Integers

CONSTANTS
  Task,           (* the tasks that ask for tokens                           *)
  Installation,
  None,           (* absence of a token or an instant                        *)
  Ttl,            (* the life GitHub gives a token (one hour)                *)
  Buffer,         (* TOKEN_REFRESH_BUFFER_SECONDS                            *)
  MaxDelay,       (* the time a request may take (timeout of the client)     *)
  MaxTime         (* bound of the model on the clock                         *)

ASSUME TokenCacheAssumption ==
  /\ None \notin Nat
  /\ Ttl \in Nat /\ Buffer \in Nat /\ MaxDelay \in Nat /\ MaxTime \in Nat
  /\ MaxDelay <= Buffer /\ Buffer < Ttl /\ 2 * MaxDelay < Ttl

VARIABLES
  now,            (* the clock                                               *)
  cache,          (* _token_cache: the expiry of each installation's token   *)
  exchange,       (* the exchange each task waits for, or None               *)
  handed,         (* history: the last token handed out, and when            *)
  answered        (* history: when an exchange last filled the cache         *)

vars == <<now, cache, exchange, handed, answered>>

Waiting == {t \in Task : exchange[t] # None}

Init ==
  /\ now = 0
  /\ cache = [i \in Installation |-> None]
  /\ exchange = [t \in Task |-> None]
  /\ handed = None
  /\ answered = [i \in Installation |-> None]

(* A faulty test: any token that has not expired is good enough.           *)
FreshUntilExpiry(i) == cache[i] # None /\ now < cache[i]

(* The cached token of i may be handed out.                                *)
Fresh(i) == cache[i] # None /\ now < cache[i] - Buffer

(* get_installation_token finds a fresh token.                             *)
Hit(t, i) ==
  /\ exchange[t] = None
  /\ Fresh(i)
  /\ handed' = [expiry |-> cache[i], at |-> now]
  /\ UNCHANGED <<now, cache, exchange, answered>>

(* It finds none, and waits for an exchange.                               *)
Miss(t, i) ==
  /\ exchange[t] = None
  /\ ~Fresh(i)
  /\ exchange' = [exchange EXCEPT ![t] = [of |-> i, since |-> now, token |-> None]]
  /\ UNCHANGED <<now, cache, handed, answered>>

(* GitHub issues a token; its answer is on the way.                        *)
Issue(t) ==
  /\ exchange[t] # None
  /\ exchange[t].token = None
  /\ exchange' = [exchange EXCEPT ![t].token = now + Ttl]
  /\ UNCHANGED <<now, cache, handed, answered>>

Issued(t) == exchange[t] # None /\ exchange[t].token # None

(* The exchange of t ends with its token in the hands of t.                *)
HandOver(t) ==
  /\ Issued(t)
  /\ exchange' = [exchange EXCEPT ![t] = None]
  /\ handed' = [expiry |-> exchange[t].token, at |-> now]
  /\ answered' = [answered EXCEPT ![exchange[t].of] = now]
  /\ UNCHANGED now

(* Faulty answers: the token is not cached; a cached token is kept.        *)
AnswerUncached(t) == HandOver(t) /\ UNCHANGED cache

AnswerKeepsFirst(t) ==
  /\ HandOver(t)
  /\ cache' = [cache EXCEPT ![exchange[t].of] = IF @ = None THEN exchange[t].token ELSE @]

(* The answer arrives: the token is cached, whatever the cache has come to *)
(* hold since, and handed out.                                             *)
Answer(t) ==
  /\ HandOver(t)
  /\ cache' = [cache EXCEPT ![exchange[t].of] = exchange[t].token]

(* The exchange fails, or the task is cancelled: no token, issued or not.  *)
Fail(t) ==
  /\ exchange[t] # None
  /\ exchange' = [exchange EXCEPT ![t] = None]
  /\ UNCHANGED <<now, cache, handed, answered>>

(* invalidate_token                                                        *)
Invalidate(i) ==
  /\ cache' = [cache EXCEPT ![i] = None]
  /\ answered' = [answered EXCEPT ![i] = None]
  /\ UNCHANGED <<now, exchange, handed>>

(* The clock advances, but no exchange takes longer than its timeout.      *)
Tick ==
  /\ now < MaxTime
  /\ \A t \in Waiting : now - exchange[t].since < MaxDelay
  /\ now' = now + 1
  /\ UNCHANGED <<cache, exchange, handed, answered>>

Next ==
  \/ Tick
  \/ \E t \in Task, i \in Installation : Hit(t, i) \/ Miss(t, i)
  \/ \E t \in Task : Issue(t) \/ Answer(t) \/ Fail(t)
  \/ \E i \in Installation : Invalidate(i)

Spec == Init /\ [][Next]_vars

-----------------------------------------------------------------------------
TypeOK ==
  /\ now \in Nat
  /\ cache \in [Installation -> Nat \cup {None}]
  /\ exchange \in [Task -> [of : Installation, since : Nat, token : Nat \cup {None}] \cup {None}]
  /\ handed \in [expiry : Nat, at : Nat] \cup {None}
  /\ answered \in [Installation -> Nat \cup {None}]

(* A token that is handed out stays valid through the request it is used   *)
(* for, whether it came from the cache or from an exchange, and however    *)
(* old the answer was that had filled the cache (get_installation_token).  *)
TokenOutlivesItsRequest ==
  handed # None => handed.at + MaxDelay < handed.expiry

(* Exchanges that overlap may put an older token over a newer one, but not *)
(* by more than a request takes: the cached token was issued at most       *)
(* MaxDelay before the cache was last filled (_exchange_jwt_for_token).    *)
CacheIsRecent ==
  \A i \in Installation : answered[i] # None =>
    cache[i] # None /\ cache[i] + MaxDelay >= answered[i] + Ttl

(* Exchanges are rare: after one has filled the cache none begins until a  *)
(* token's life, less the buffer and the delay of a request, is over.      *)
ExchangesAreRare ==
  [][\A t \in Task, i \in Installation :
       (exchange[t] = None /\ exchange'[t] # None /\ exchange'[t].of = i /\ answered[i] # None)
         => now + MaxDelay + Buffer >= answered[i] + Ttl]_vars
=============================================================================
