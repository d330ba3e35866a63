----------------------------- MODULE MCAufsFile -----------------------------
(***************************************************************************)
(* Small instances of AufsFile for TLC.                                    *)
(***************************************************************************)
EXTENDS AufsFile, TLC

\* What the steps and the properties about zone pointers and zone maps depend
\* on: everything but data and the blocks that cached pages are mapped to.
ZonesView ==
  <<inodeVars, tableVars, zmapVars, lost, pc,
    [t \in Threads |-> IF pc[t] = "store" THEN zone[t] ELSE 0],
    [f \in Inodes |-> [p \in Pages |-> <<page[f][p].here, page[f][p].dirty>>]],
    [t \in Threads |-> IF pc[t] = "idle" THEN <<>>
                       ELSE <<req[t].op, req[t].f, req[t].p>>]>>

\* Nothing is claimed about zones after a crash that lost zone map bits.
NotLost == ~lost

\* Only page 0 is given different contents; the other pages are overwritten
\* with what they hold.
OnePageVaries ==
  \A t \in Threads :
    pc[t] # "idle" /\ req[t].op = "write" /\ req[t].p # 0 => req[t].val[3] = 1

Symmetry == Permutations(Threads) \cup Permutations(Inodes)
=============================================================================
