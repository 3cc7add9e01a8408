-------------------------------- MODULE Lease --------------------------------
(***************************************************************************)
(* What the pool promises, whatever its lists and counters do: each        *)
(* connection has one owner at a time -- a caller, or the pool -- there    *)
(* are never more than MaxConnections of them, and once the pool is shut   *)
(* nothing is kept in it or lent from it.  Pool implements this.           *)
(***************************************************************************)
EXTENDS Integers, FiniteSets

CONSTANTS
  Conns,          \* connections
  Callers,        \* the possible borrowers
  Pooled,         \* owner of a connection nobody borrows
  Absent,         \* owner of a connection that is not open
  MaxConnections

VARIABLES
  owner,  \* who owns each connection
  shut    \* the pool has been closed

vars == <<owner, shut>>

OpenConns == {c \in Conns : owner[c] # Absent}
Borrowed(p) == {c \in Conns : owner[c] = p}

Init ==
  /\ owner = [c \in Conns |-> Absent]
  /\ shut = FALSE

\* A new connection is opened for a caller; one that was already being opened
\* is delivered even when the pool is shut meanwhile.
Open(c, p) ==
  /\ owner[c] = Absent
  /\ Borrowed(p) = {}
  /\ Cardinality(OpenConns) < MaxConnections
  /\ owner' = [owner EXCEPT ![c] = p]
  /\ UNCHANGED shut

Lend(c, p) ==
  /\ ~shut
  /\ owner[c] = Pooled
  /\ Borrowed(p) = {}
  /\ owner' = [owner EXCEPT ![c] = p]
  /\ UNCHANGED shut

HandOver(c, p, q) ==
  /\ ~shut
  /\ owner[c] = p
  /\ Borrowed(q) = {}
  /\ owner' = [owner EXCEPT ![c] = q]
  /\ UNCHANGED shut

Return(c, p) ==
  /\ ~shut
  /\ owner[c] = p
  /\ owner' = [owner EXCEPT ![c] = Pooled]
  /\ UNCHANGED shut

Drop(c, p) ==
  /\ owner[c] = p
  /\ owner' = [owner EXCEPT ![c] = Absent]
  /\ UNCHANGED shut

\* The pool lets some of the connections it keeps go.
Trim ==
  /\ \E cs \in SUBSET {c \in Conns : owner[c] = Pooled} :
       owner' = [c \in Conns |-> IF c \in cs THEN Absent ELSE owner[c]]
  /\ UNCHANGED shut

Shut ==
  /\ ~shut
  /\ shut' = TRUE
  /\ owner' = [c \in Conns |-> IF owner[c] = Pooled THEN Absent ELSE owner[c]]

Next ==
  \/ \E c \in Conns, p \in Callers :
       \/ Open(c, p) \/ Lend(c, p) \/ Return(c, p) \/ Drop(c, p)
       \/ \E q \in Callers \ {p} : HandOver(c, p, q)
  \/ Trim
  \/ Shut

Spec == Init /\ [][Next]_vars
=============================================================================
