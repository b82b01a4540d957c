---------------------------- MODULE VersionHistory ----------------------------
(***************************************************************************)
(* What a SimpleRCS store promises, whatever the layout of its stream: a   *)
(* list of versions that only ever grows at its newest end, in which       *)
(* nothing about a committed version changes except that the newest one    *)
(* may gain signatures or have a signer's own signature renewed.           *)
(***************************************************************************)
EXTENDS Integers, Sequences

CONSTANTS
  Contents,   \* what a version can hold
  Metas,      \* its date, author and log
  Signers,    \* signer ids
  Stamps,     \* the times a signature can carry
  Unsigned    \* no signature by this signer

VARIABLES
  versions,     \* the committed versions, oldest first
  endorsements  \* for each version, when each signer last signed it

Endorsement == [Signers -> Stamps \cup {Unsigned}]

SignersOf(e) == {s \in Signers : e[s] # Unsigned}

Init ==
  /\ versions = <<>>
  /\ endorsements = <<>>

Commit(c, m, e) ==
  /\ versions' = Append(versions, [text |-> c, meta |-> m])
  /\ endorsements' = Append(endorsements, e)

\* Signing the newest version keeps every signer who had signed it.
Sign(e) ==
  LET n == Len(endorsements) IN
  /\ n > 0
  /\ SignersOf(endorsements[n]) \subseteq SignersOf(e)
  /\ endorsements' = [endorsements EXCEPT ![n] = e]
  /\ UNCHANGED versions

Next ==
  \E e \in Endorsement :
    \/ \E c \in Contents, m \in Metas : Commit(c, m, e)
    \/ Sign(e)

Spec == Init /\ [][Next]_<<versions, endorsements>>
===============================================================================
