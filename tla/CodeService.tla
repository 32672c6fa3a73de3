---------------------------- MODULE CodeService -----------------------------
(***************************************************************************)
(* What the client may rely on when it asks for manifest request codes:    *)
(* codes that were found stay, a request for one of them is owed it, and   *)
(* is answered once, with that code, unless the server lets it wait too    *)
(* long.  A request for another may be answered with a code found          *)
(* meanwhile, or with none.  The end of the client leaves what was kept.   *)
(***************************************************************************)
CONSTANTS Jobs, Manifests, NoCode

VARIABLES
  stored, kept, \* manifests whose code has been found, and of them those in the file
  wants,        \* the manifest a job asks for
  owed,         \* jobs whose answer has to be the code
  answer        \* what the client was handed in answer to a job

vars == <<stored, kept, wants, owed, answer>>

Nothing == /\ wants = [j \in Jobs |-> NoCode]
           /\ owed = {}
           /\ answer = [j \in Jobs |-> "none"]

Init == stored = {} /\ kept = {} /\ Nothing

Ask(j, m) ==
  /\ wants[j] = NoCode
  /\ wants' = [wants EXCEPT ![j] = m]
  /\ owed' = IF m \in stored THEN owed \cup {j} ELSE owed
  /\ UNCHANGED <<stored, kept, answer>>

\* Codes are looked for only if they are asked for.
Find(j) ==
  /\ wants[j] # NoCode
  /\ stored' = stored \cup {wants[j]}
  /\ UNCHANGED <<kept, wants, owed, answer>>

Write ==
  /\ kept \subseteq kept' /\ kept' \subseteq stored
  /\ UNCHANGED <<stored, wants, owed, answer>>

\* Jobs that are too old are forgotten.
Lapse ==
  /\ owed' \subseteq owed
  /\ UNCHANGED <<stored, kept, wants, answer>>

Answer(j) ==
  /\ wants[j] # NoCode /\ answer[j] = "none"
  /\ \/ wants[j] \in stored /\ answer' = [answer EXCEPT ![j] = wants[j]]
     \/ j \notin owed /\ answer' = [answer EXCEPT ![j] = NoCode]
  /\ owed' = owed \ {j}
  /\ UNCHANGED <<stored, kept, wants>>

Restart ==
  /\ stored' = kept
  /\ Nothing'
  /\ UNCHANGED kept

Next ==
  \/ Write \/ Lapse \/ Restart
  \/ \E j \in Jobs : Find(j) \/ Answer(j) \/ \E m \in Manifests : Ask(j, m)

Spec == Init /\ [][Next]_vars
=============================================================================
