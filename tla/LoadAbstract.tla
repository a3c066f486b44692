---------------------------- MODULE LoadAbstract ----------------------------
(***************************************************************************)
(* What the loader's driver promises about the CUs of one file (spec 4.G, *)
(* 6.3): the CUs are handed out in file order, each one either kept (added *)
(* to the file's CU list) or stolen by the caller, until they run out or   *)
(* loading stops; loading always comes to an end.                          *)
(***************************************************************************)
EXTENDS Sequences

CONSTANT UnitSeqs   \* the possible sequences of CUs of a file

VARIABLES
    todo,     \* the CUs not handed out yet, in file order
    kept,     \* the file's CU list, in the order the CUs were added
    stolen,   \* the CUs the caller took
    status    \* "loading", "stopped" or "finished"

avars == <<todo, kept, stolen, status>>

Init ==
    /\ todo \in UnitSeqs
    /\ kept = <<>>
    /\ stolen = {}
    /\ status = "loading"

Keep ==
    /\ status = "loading" /\ todo # <<>>
    /\ kept' = Append(kept, Head(todo))
    /\ todo' = Tail(todo)
    /\ UNCHANGED <<stolen, status>>

Steal ==
    /\ status = "loading" /\ todo # <<>>
    /\ stolen' = stolen \cup {Head(todo)}
    /\ todo' = Tail(todo)
    /\ UNCHANGED <<kept, status>>

\* The caller said STOP, or a CU could not be loaded: the rest is dropped.
Stop ==
    /\ status = "loading"
    /\ status' = "stopped"
    /\ UNCHANGED <<todo, kept, stolen>>

Finish ==
    /\ status = "loading" /\ todo = <<>>
    /\ status' = "finished"
    /\ UNCHANGED <<todo, kept, stolen>>

Next == Keep \/ Steal \/ Stop \/ Finish

Spec == Init /\ [][Next]_avars /\ WF_avars(Next)

====
