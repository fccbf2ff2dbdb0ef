------------------------------ MODULE IdIssuer ------------------------------
(***************************************************************************)
(* What an IdGenerator promises, whatever its callers and its clock do     *)
(* (SPEC 5.2 - 5.3 as generator.rs implements them): the IDs it hands out  *)
(* form one sequence in which each ID either takes the next sequence       *)
(* number of the window of the ID before it, or opens a strictly later     *)
(* window at sequence 0, never a window the clock has not shown.           *)
(***************************************************************************)
EXTENDS IdLayout, Sequences

CONSTANT MachineId

VARIABLES log,    \* every ID handed out, in order
          high    \* the highest window the clock has shown

vars == <<log, high>>

Last(s) == s[Len(s)]

NextInWindow(ts, seq) ==
  /\ log # <<>>
  /\ ts = timestamp(Last(log))
  /\ seq = sequence(Last(log)) + 1

OpensWindow(ts, seq) ==
  /\ log # <<>> => ts > timestamp(Last(log))
  /\ ts <= high
  /\ seq = 0

Issue == \E ts \in 0 .. TS_MASK, seq \in 0 .. SEQ_MASK :
  /\ NextInWindow(ts, seq) \/ OpensWindow(ts, seq)
  /\ log' = Append(log, from_parts_unchecked(ts, MachineId, seq))
  /\ UNCHANGED high

(* The clock shows a window later than any before. *)
Advance == /\ high' \in Nat
           /\ high' > high
           /\ UNCHANGED log

Init == log = <<>> /\ high \in Nat

Next == Issue \/ Advance

Spec == Init /\ [][Next]_vars
=============================================================================
