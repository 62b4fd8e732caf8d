---------------------------- MODULE GuardedCache ----------------------------
(***************************************************************************)
(* What an import promises of a discovery cache: a snapshot is taken whole  *)
(* or not at all; a row is only ever replaced by a later observation of its *)
(* key, never rewritten at the instant it was seen, and never removed.      *)
(***************************************************************************)
EXTENDS Naturals

CONSTANTS
  Keys,         \* the external resources the cache indexes, by record_key
  Observations, \* the snapshots there may be
  NoRow         \* not a row: the key is not cached

VARIABLE cache  \* what each key's row holds

\* The row a snapshot leaves for one of its keys.
RowOf(s, k) == [payload |-> s.content[k], id |-> <<s.scope, s.content>>, at |-> s.at]

Supersedes(s, k) ==
  \/ cache[k] = NoRow
  \/ cache[k].at < s.at
  \/ cache[k] = RowOf(s, k)

Take(s) ==
  /\ \A k \in DOMAIN s.content : Supersedes(s, k)
  /\ cache' = [k \in Keys |-> IF k \in DOMAIN s.content THEN RowOf(s, k) ELSE cache[k]]

Init == cache = [k \in Keys |-> NoRow]
Next == \E s \in Observations : Take(s)
Spec == Init /\ [][Next]_cache
=============================================================================
