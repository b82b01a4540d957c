------------------------------ MODULE MyersMatcher ------------------------------
(***************************************************************************)
(* The greedy algorithm of Myers (myersdiff.py): a frontier holds, for     *)
(* each diagonal k = x - y, how far d edits come and the edits themselves; *)
(* the ones that come to the end are replayed into opcodes.                *)
(***************************************************************************)
EXTENDS Opcodes

VARIABLES
  a, b,      \* the two sequences
  d, k,      \* how many edits, and on which diagonal: the two loops
  frontier,  \* per diagonal, [x, history]; history is a sequence of "i" and "d"
  history,   \* the edits to replay, oldest first
  i, j,      \* where the replay stands
  from,      \* where the change it has not said yet begins, in a and in b
  ops,
  pc         \* "search", "replay", "done", or "raised": an IndexError

loops  == <<d, k, frontier>>
replay == <<history, i, j, from, ops>>
vars   == <<a, b, d, k, frontier, history, i, j, from, ops, pc>>

MaxD == Len(a) + Len(b)

Unreached == [x |-> -1, history |-> <<>>]

AtEnd(x, y) == x >= Len(a) /\ y >= Len(b)

\* frontier[idx_k - 1]: left of the list is Python's last element.
Below(m) == IF m - 1 < -MaxD THEN frontier[MaxD] ELSE frontier[m - 1]

\* Mutant: the frontier is one entry short.
OutOfShorterRange(m) == m + 1 >= MaxD

\* frontier[idx_k + 1] is read whichever branch is taken: right of the list is an
\* IndexError.
OutOfRange(m) == m + 1 > MaxD

\* Mutant: an insertion is taken whenever there is one to take, not the edit that leads
\* further.
FurthestByInsert(m) ==
  LET down == m # d
      x    == IF down THEN frontier[m + 1].x ELSE Below(m).x + 1
      h    == IF down THEN Append(frontier[m + 1].history, "i")
                      ELSE Append(Below(m).history, "d")
  IN  [x |-> x + Extent(a, b, x, x - m), history |-> h]

\* Where the d-th edit leads on diagonal k, and the run of equals after it.
Furthest(m) ==
  LET down == m = -d \/ (m # d /\ Below(m).x < frontier[m + 1].x)
      x    == IF down THEN frontier[m + 1].x ELSE Below(m).x + 1
      h    == IF down THEN Append(frontier[m + 1].history, "i")
                      ELSE Append(Below(m).history, "d")
  IN  [x |-> x + Extent(a, b, x, x - m), history |-> h]

\* The initial snake, on diagonal 0 with no edit.
FirstSnake ==
  /\ pc = "search" /\ d = 0
  /\ LET x == Extent(a, b, 0, 0) IN
       /\ frontier' = [frontier EXCEPT ![0] = [x |-> x, history |-> <<>>]]
       /\ pc' = IF AtEnd(x, x) THEN "replay" ELSE "search"
  /\ d' = 1 /\ k' = -1
  /\ UNCHANGED <<a, b, replay>>

\* One turn of the inner loop; after the last one, d grows.
Advance ==
  /\ pc = "search" /\ d \in 1..MaxD /\ ~OutOfRange(k)
  /\ LET reached == Furthest(k) IN
       /\ frontier' = [frontier EXCEPT ![k] = reached]
       /\ IF AtEnd(reached.x, reached.x - k)
          THEN history' = reached.history /\ pc' = "replay"
          ELSE UNCHANGED <<history, pc>>
  /\ IF k = d THEN d' = d + 1 /\ k' = -(d + 1) ELSE k' = k + 2 /\ UNCHANGED d
  /\ UNCHANGED <<a, b, i, j, from, ops>>

Overrun ==
  /\ pc = "search" /\ d \in 1..MaxD /\ OutOfRange(k)
  /\ pc' = "raised"
  /\ UNCHANGED <<a, b, loops, replay>>

\* emit_diff: what has been edited since the last equal run.
Pending(x, y) == Change(from[1], x, from[2], y)

\* One turn of the replay: a run of equals ends the pending change, then one edit
\* is taken.
Replay ==
  LET n == Extent(a, b, i, j) IN
  /\ pc = "replay" /\ ~AtEnd(i, j)
  /\ ops' = IF n = 0 THEN ops
            ELSE ops \o Pending(i, j) \o <<Opcode("equal", i, i + n, j, j + n)>>
  /\ from' = IF n = 0 THEN from ELSE <<i + n, j + n>>
  /\ IF AtEnd(i + n, j + n) \/ history = <<>>
     THEN i' = i + n /\ j' = j + n /\ pc' = "flush" /\ UNCHANGED history
     ELSE /\ i' = i + n + (IF Head(history) = "d" THEN 1 ELSE 0)
          /\ j' = j + n + (IF Head(history) = "i" THEN 1 ELSE 0)
          /\ history' = Tail(history)
          /\ UNCHANGED pc
  /\ UNCHANGED <<a, b, loops>>

\* Mutant: edits after the last run of equals are not said.
FlushNothing ==
  /\ pc = "flush" \/ (pc = "replay" /\ AtEnd(i, j))
  /\ pc' = "done"
  /\ UNCHANGED <<a, b, loops, history, i, j, from, ops>>

Flush ==
  /\ pc = "flush" \/ (pc = "replay" /\ AtEnd(i, j))
  /\ ops' = ops \o Pending(i, j)
  /\ pc' = "done"
  /\ UNCHANGED <<a, b, loops, history, i, j, from>>

Start ==
  /\ d = 0 /\ k = 0
  /\ frontier = [m \in -MaxD..MaxD |-> Unreached]
  /\ history = <<>> /\ i = 0 /\ j = 0 /\ from = <<0, 0>> /\ ops = <<>>
  /\ pc = "search"

Next == FirstSnake \/ Advance \/ Overrun \/ Replay \/ Flush

===============================================================================
