---------------------------- MODULE DocumentReads -----------------------------
(***************************************************************************)
(* What a `get` of a document promises the pages of the application: it    *)
(* ends once, with what the device knows of the document at that moment.   *)
(* The device never knows more than was written and forgets nothing, and   *)
(* a get fails only if the device knows of no document.                    *)
(***************************************************************************)
EXTENDS Integers

CONSTANTS Get, LastVersion

VARIABLES doc,      \* the version of the document; 0: there is none yet
          known,    \* the version the device knows, or NoData
          outcome   \* per get: Asleep, Waiting, Failed or a version

vars == <<doc, known, outcome>>

NoData == -1
Asleep == -4
Waiting == -3
Failed == -2

Init ==
    /\ doc \in 0 .. LastVersion
    /\ known \in NoData .. doc
    /\ outcome = [g \in Get |-> Asleep]

Write ==
    /\ doc < LastVersion
    /\ doc' = doc + 1
    /\ UNCHANGED <<known, outcome>>

\* The application calls get, for all of a set at once.
Ask(asking) ==
    /\ \A g \in asking : outcome[g] = Asleep
    /\ outcome' = [g \in Get |-> IF g \in asking THEN Waiting ELSE outcome[g]]
    /\ UNCHANGED <<doc, known>>

\* What a get may end with on a device that knows version v.
Outcome(v) ==
    CASE v = NoData -> {Failed}
      [] v = 0 -> {Failed, 0}
      [] OTHER -> {v}

\* The device learns of the document, and the gets of a set end, all alike.
Learn(ending) ==
    /\ known' \in known .. doc
    /\ \A g \in ending : outcome[g] = Waiting
    /\ \E o \in Outcome(known') :
        outcome' = [g \in Get |-> IF g \in ending THEN o ELSE outcome[g]]
    /\ UNCHANGED doc

Next ==
    \/ Write
    \/ \E asking \in SUBSET Get : Ask(asking)
    \/ \E ending \in SUBSET Get : Learn(ending)

Spec == Init /\ [][Next]_vars
=============================================================================
