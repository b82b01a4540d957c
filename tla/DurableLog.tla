------------------------------ MODULE DurableLog ------------------------------
(***************************************************************************)
(* What a path-backed store promises about its file, whatever happens to   *)
(* the process: a reader of the path sees updates appear whole and one at  *)
(* a time, and only a crash can take updates away, down to the last one    *)
(* that was promised to be durable.                                        *)
(***************************************************************************)
EXTENDS Integers

CONSTANT Torn   \* a file that holds part of its first update: below every update

VARIABLES
  content,   \* how many updates the file holds, or Torn
  promised,  \* the newest update a durable call reported, or Torn
  up         \* an instance has the file open

Init ==
  /\ content = 0
  /\ promised = Torn
  /\ up = FALSE

After(c) == IF c = Torn THEN 1 ELSE c + 1

Start ==
  /\ ~up /\ up' = TRUE
  /\ UNCHANGED <<content, promised>>

\* An update that is installed without durability withdraws the promise.
Install ==
  /\ up
  /\ content' = After(content)
  /\ promised' \in {promised, Torn}
  /\ UNCHANGED up

\* Only the first update is written into the live file.
Tear ==
  /\ up /\ content \in {0, Torn}
  /\ content' = Torn
  /\ promised = Torn
  /\ UNCHANGED <<promised, up>>

Promise ==
  /\ up
  /\ promised' = content
  /\ UNCHANGED <<content, up>>

\* The instance goes away, by itself, killed, or with the power.
Stop ==
  /\ up' = FALSE
  /\ content' \in promised..After(content)
  /\ UNCHANGED promised

Next == Start \/ Install \/ Tear \/ Promise \/ Stop

Spec == Init /\ [][Next]_<<content, promised, up>>
===============================================================================
