------------------------------ MODULE MCMutex -------------------------------
(***************************************************************************)
(* Instances of Mutex for TLC.                                             *)
(***************************************************************************)
EXTENDS Mutex, TLC

CONSTANTS
    a, b, c, d, idle,   \* tasks
    m1, m2, m3          \* mutexes

FourTasks == {a, b, c, d, idle}

\* Two peers below two tasks of rising priority.
PeersBelowTwo == a :> 1 @@ b :> 1 @@ c :> 2 @@ d :> 3 @@ idle :> 0

ThreeMutexes == {m1, m2, m3}

\* No action tells the mutexes apart.
MutexSymmetry == Permutations(ThreeMutexes)
=============================================================================
