---------------------------- MODULE MachineIdUse -----------------------------
(***************************************************************************)
(* What the lease promises to those who issue IDs, with rows, tokens,      *)
(* clocks and deadlines left out (Invariant S and the hand-over of         *)
(* docs/pg-machine-id-leasing.md 1 and 6): a machine ID has one user or    *)
(* none, and passes from one to the next only through none.                *)
(***************************************************************************)
CONSTANTS Workers, MachineIds

VARIABLE users   \* per machine ID: who may issue an ID under it now

Init == users = [m \in MachineIds |-> {}]

Start(m) == /\ users[m] = {}
            /\ \E w \in Workers : users'[m] = {w}

Stop(m) == users'[m] = {}

(* A clock may end the use of several machine IDs at once.                 *)
Next ==
  /\ DOMAIN users' = MachineIds
  /\ \A m \in MachineIds : Start(m) \/ Stop(m) \/ users'[m] = users[m]

Spec == Init /\ [][Next]_users
=============================================================================
