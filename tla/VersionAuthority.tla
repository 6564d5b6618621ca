-------------------------- MODULE VersionAuthority --------------------------
(***************************************************************************)
(* What the indexing path promises, without saying how.                    *)
(*                                                                         *)
(* Producers append change records to a log per lane.  A store keeps one   *)
(* version per document and accepts a record only if it is newer than      *)
(* what it holds.  A prefix of a lane may be acknowledged (and is then     *)
(* never delivered again) only when every usable record in it is           *)
(* reflected in the store.  Workers, batches, caches of versions, retries, *)
(* crashes and rebalances do not appear: Indexer implements this module.   *)
(***************************************************************************)
EXTENDS Integers, Sequences

CONSTANTS
    Docs,        \* document ids
    Lanes,       \* the priority lanes, one log each
    Record,      \* change records: at least the fields doc and ver
    Usable(_)    \* the records the store is obliged to reflect

VARIABLES
    log,         \* log[l]: the records appended to lane l
    acked,       \* acked[l]: length of the acknowledged prefix of lane l
    stored       \* stored[d]: version the store holds for d, -1 for none

avars == <<log, acked, stored>>

AInit ==
    /\ log = [l \in Lanes |-> <<>>]
    /\ acked = [l \in Lanes |-> 0]
    /\ stored = [d \in Docs |-> -1]

Append1(l, r) ==
    /\ log' = [log EXCEPT ![l] = Append(@, r)]
    /\ UNCHANGED <<acked, stored>>

\* Any number of documents move to the version of a logged record that is
\* strictly newer; no document ever moves back.
Accept ==
    /\ stored' \in [Docs -> Int]
    /\ \A d \in Docs : stored'[d] # stored[d] =>
          /\ stored'[d] > stored[d]
          /\ \E l \in Lanes : \E i \in DOMAIN log[l] :
                log[l][i].doc = d /\ log[l][i].ver = stored'[d]
    /\ UNCHANGED <<log, acked>>

Acknowledge(l, n) ==
    /\ acked[l] <= n
    /\ \A i \in 1..n : Usable(log[l][i]) => stored[log[l][i].doc] >= log[l][i].ver
    /\ acked' = [acked EXCEPT ![l] = n]
    /\ UNCHANGED <<log, stored>>

ANext ==
    \/ \E l \in Lanes, r \in Record : Append1(l, r)
    \/ Accept
    \/ \E l \in Lanes : \E n \in 0..Len(log[l]) : Acknowledge(l, n)

ASpec == AInit /\ [][ANext]_avars
=============================================================================
