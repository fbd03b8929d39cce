---------------------------- MODULE Idempotency ----------------------------
(***************************************************************************)
(* The webhook deduplication store (src/wte/connectors/base.py, class      *)
(* MemoryIdempotencyStore): an LRU of bounded size whose entries expire.   *)
(* It is a sequence of entries, the least recently used first.             *)
(***************************************************************************)
EXTENDS Integers, Sequences, SequencesExt

CONSTANTS
    MaxSize,    \* max_size
    TTL         \* ttl_s

ASSUME IdempotencyAssumption == MaxSize \in Nat /\ TTL \in Nat

(* The first condition of seen: the id is remembered and not expired. *)
IsFresh(store, id, now) == \E e \in ToSet(store) : e.id = id /\ e.expires > now

\* mutant: a hit does not move the entry to the end (first in, first out)
AfterSeenInPlace(store, id, now) ==
    LET others == RemoveFirstMatch(store, LAMBDA e : e.id = id)
        grown == Append(others, [id |-> id, expires |-> now + TTL])
        over == Len(grown) - MaxSize
    IN  IF IsFresh(store, id, now) THEN store
        ELSE SubSeq(grown, IF over > 0 THEN over + 1 ELSE 1, Len(grown))

(* The store seen(provider, event_id) leaves.  A hit makes the entry the   *)
(* most recent and keeps its expiry; a miss (re)inserts it and evicts the  *)
(* least recent entries over the size.                                     *)
AfterSeen(store, id, now) ==
    LET others == RemoveFirstMatch(store, LAMBDA e : e.id = id)
        hit == CHOOSE e \in ToSet(store) : e.id = id
        grown == Append(others, [id |-> id, expires |-> now + TTL])
        over == Len(grown) - MaxSize
    IN  IF IsFresh(store, id, now) THEN Append(others, hit)
        ELSE SubSeq(grown, IF over > 0 THEN over + 1 ELSE 1, Len(grown))

============================================================================
