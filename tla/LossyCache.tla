----------------------------- MODULE LossyCache -----------------------------
(***************************************************************************)
(* What callers of the record cache may rely on, whatever its internals.   *)
(*                                                                         *)
(* A cache is allowed to forget: any lookup may miss.  What it may not do  *)
(* is invent.  The records a lookup returns all come from ONE record set   *)
(* that was stored under the looked-up key, none of them had expired when  *)
(* the lookup was called, and whichever records of that set are left out   *)
(* have expired by the time the lookup returns.                            *)
(*                                                                         *)
(* Source of the promise: the Cache interface of the resolver              *)
(* (services/resolver/interfaces.go) and the comments of dnscache.go.      *)
(***************************************************************************)
EXTENDS Naturals

CONSTANTS
  Procs,     \* goroutines that may look a key up
  Keys,      \* cache keys: name, type and class of a record
  Data,      \* record contents
  Expiries,  \* the expiry times of the records that may be stored
  Never,     \* the expiry of an authoritative record (expiresAt is nil)
  NoCall,    \* the goroutine has no lookup in progress
  NoReply    \* the goroutine has not been answered yet

VARIABLES
  now,    \* the clock, in seconds
  given,  \* given[k]: the record sets stored under k so far
  call,   \* call[p]: the lookup p has in progress
  reply   \* reply[p]: what p's last lookup returned

lossyVars == <<now, given, call, reply>>

RecordsOf(k) == [key : {k}, data : Data, exp : Expiries]

\* A record set that can be stored under k.
RRsetsOf(k) == (SUBSET RecordsOf(k)) \ {{}}

ExpiredAt(r, t) == r.exp # Never /\ r.exp < t

Hit(rs) == [found |-> TRUE, rrs |-> rs]
Miss == [found |-> FALSE, rrs |-> {}]

LossyInit ==
  /\ now = 0
  /\ given = [k \in Keys |-> {}]
  /\ call = [p \in Procs |-> NoCall]
  /\ reply = [p \in Procs |-> NoReply]

TimePasses ==
  /\ now' = now + 1
  /\ UNCHANGED <<given, call, reply>>

Publish(k, rs) ==
  /\ rs \in RRsetsOf(k)
  /\ given' = [given EXCEPT ![k] = @ \cup {rs}]
  /\ UNCHANGED <<now, call, reply>>

Ask(p, k) ==
  /\ call[p] = NoCall
  /\ call' = [call EXCEPT ![p] = [key |-> k, at |-> now]]
  /\ reply' = [reply EXCEPT ![p] = NoReply]
  /\ UNCHANGED <<now, given>>

Forgotten(p) ==
  /\ call[p] # NoCall
  /\ call' = [call EXCEPT ![p] = NoCall]
  /\ reply' = [reply EXCEPT ![p] = Miss]
  /\ UNCHANGED <<now, given>>

\* The part of the stored set rs that a lookup called at time t may return now.
Servable(part, rs, t) ==
  /\ part # {} /\ part \subseteq rs
  /\ \A r \in part : ~ ExpiredAt(r, t)
  /\ \A r \in rs \ part : ExpiredAt(r, now)

Answered(p, part) ==
  /\ call[p] # NoCall
  /\ \E rs \in given[call[p].key] : Servable(part, rs, call[p].at)
  /\ call' = [call EXCEPT ![p] = NoCall]
  /\ reply' = [reply EXCEPT ![p] = Hit(part)]
  /\ UNCHANGED <<now, given>>

LossyNext ==
  \/ TimePasses
  \/ \E k \in Keys : \E rs \in RRsetsOf(k) : Publish(k, rs)
  \/ \E p \in Procs :
       \/ \E k \in Keys : Ask(p, k)
       \/ Forgotten(p)
       \/ \E rs \in UNION {given[k] : k \in Keys} :
            \E part \in SUBSET rs : Answered(p, part)

LossySpec == LossyInit /\ [][LossyNext]_lossyVars
=============================================================================
