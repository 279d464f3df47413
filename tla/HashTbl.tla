------------------------------ MODULE HashTbl ------------------------------
(***************************************************************************)
(* One bucket of hash_tbl.c: a singly linked chain, here the sequence of   *)
(* its entries from the head (m->bucket[pos]) on.  An entry is a record    *)
(* with at least the field key.                                            *)
(***************************************************************************)
EXTENDS Integers, Sequences

Keys(chain) == {chain[i].key : i \in 1 .. Len(chain)}

PutLast(chain, entry) ==    \* Mutant: a new key goes in at the tail
    IF entry.key \in Keys(chain) THEN chain ELSE Append(chain, entry)

\* map_put on the bucket of entry.key: a new key goes in at the head, a known
\* key leaves the chain alone.
Put(chain, entry) == IF entry.key \in Keys(chain) THEN chain ELSE <<entry>> \o chain

BehindOrSelf(chain, key) ==    \* Mutant: the entry found stays in the chain
    IF key \in Keys(chain)
    THEN SubSeq(chain, CHOOSE i \in 1 .. Len(chain) : chain[i].key = key, Len(chain))
    ELSE SubSeq(chain, Len(chain), Len(chain))

\* map_del on the bucket of key.  The loop moves e along the chain but never
\* moves prev, the address of the bucket's head, and stores e there as it goes:
\* everything in front of e has then left the chain.
Behind(chain, key) ==
    IF key \in Keys(chain)
    THEN SubSeq(chain, (CHOOSE i \in 1 .. Len(chain) : chain[i].key = key) + 1, Len(chain))
    ELSE SubSeq(chain, Len(chain), Len(chain))

Deleted(chain, key) == IF chain = <<>> THEN <<>> ELSE Behind(chain, key)
=============================================================================
