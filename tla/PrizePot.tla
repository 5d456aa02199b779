------------------------------ MODULE PrizePot ------------------------------
(***************************************************************************)
(* What a ranked game promises, without oracle, fees, rent or token        *)
(* accounts: a match collects stakes while it is open and pays only        *)
(* entrants, only once it is finished, and no entrant twice. Closing a     *)
(* match takes the whole pot. A player counts as an entrant of the match   *)
(* joined last. Anybody may add to the pot of a match at any time.         *)
(***************************************************************************)
EXTENDS Integers

CONSTANTS Match, Player, Asset

VARIABLES
    phase,    \* Match -> {"Absent", "Open", "InProgress", "Finished"}
    pot,      \* Match -> Asset -> Nat
    entrants  \* Match -> the players that can still be paid from it

potVars == <<phase, pot, entrants>>

Empty == [a \in Asset |-> 0]

PotInit ==
    /\ phase = [m \in Match |-> "Absent"]
    /\ pot = [m \in Match |-> Empty]
    /\ entrants = [m \in Match |-> {}]

Open(m) ==
    /\ phase[m] = "Absent"
    /\ phase' = [phase EXCEPT ![m] = "Open"]
    /\ UNCHANGED <<pot, entrants>>

Enter(p, m, a) ==
    /\ phase[m] = "Open"
    /\ p \notin entrants[m]
    /\ pot'[m][a] >= pot[m][a]
    /\ pot' = [pot EXCEPT ![m][a] = pot'[m][a]]
    /\ entrants' = [n \in Match |-> IF n = m THEN entrants[n] \cup {p}
                                             ELSE entrants[n] \ {p}]
    /\ UNCHANGED phase

SetPhase(m, s) ==
    /\ phase[m] # "Absent"
    /\ phase' = [phase EXCEPT ![m] = s]
    /\ UNCHANGED <<pot, entrants>>

PayOut(p, m) ==
    /\ phase[m] = "Finished"
    /\ p \in entrants[m]
    /\ \A a \in Asset : pot'[m][a] \in 0..pot[m][a]
    /\ pot' = [pot EXCEPT ![m] = pot'[m]]
    /\ entrants' = [entrants EXCEPT ![m] = @ \ {p}]
    /\ UNCHANGED phase

Sweep(m) ==
    /\ phase[m] # "Absent"
    /\ phase' = [phase EXCEPT ![m] = "Absent"]
    /\ pot' = [pot EXCEPT ![m] = Empty]
    /\ entrants' = [entrants EXCEPT ![m] = {}]

\* Pots grow, and none where there is no match.
Gift ==
    /\ pot' \in [Match -> [Asset -> Nat]]
    /\ \A m \in Match :
          IF phase[m] = "Absent" THEN pot'[m] = pot[m]
          ELSE \A a \in Asset : pot'[m][a] >= pot[m][a]
    /\ UNCHANGED <<phase, entrants>>

PotNext ==
    \/ Gift
    \/ \E m \in Match :
           \/ Open(m)
           \/ \E p \in Player, a \in Asset : Enter(p, m, a)
           \/ \E s \in {"Open", "InProgress", "Finished"} : SetPhase(m, s)
           \/ \E p \in Player : PayOut(p, m)
           \/ Sweep(m)

PotSpec == PotInit /\ [][PotNext]_potVars
=============================================================================
