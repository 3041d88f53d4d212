---------------------------- MODULE DocumentWrites -----------------------------
(***************************************************************************)
(* What a `set` of a document promises the application.  The device may    *)
(* lose a write until it holds it, and never afterwards.  The server       *)
(* applies what the device holds for a user in the order it was issued,    *)
(* under that user's token, and the device lets go of a write only with    *)
(* the server's word, the oldest one of its user first.  The future of the *)
(* write ends then and with the truth, or never, if nobody waits any more. *)
(***************************************************************************)
EXTENDS Integers, Sequences

CONSTANTS User, MaxWrites

VARIABLES author,    \* the users of the writes issued so far, in their order
          refused,   \* the writes the server does not permit
          held,      \* the writes the device holds
          log,       \* what the server applied: writes with their tokens
          outcome    \* per write: what its future ended with, or "none"

vars == <<author, refused, held, log, outcome>>

Write == 1 .. MaxWrites

Applied(w) == \E i \in DOMAIN log : log[i].write = w

\* The writes the device holds for the author of w and was given before w.
Earlier(w) == {v \in held : v < w /\ author[v] = author[w]}

Init ==
    /\ author = <<>>
    /\ refused \in SUBSET Write
    /\ held = {}
    /\ log = <<>>
    /\ outcome = [w \in Write |-> "none"]

\* The application calls set.
Issue ==
    /\ Len(author) < MaxWrites
    /\ \E u \in User : author' = Append(author, u)
    /\ UNCHANGED <<refused, held, log, outcome>>

\* The device holds a write, after all it holds and after all that was applied.
Hold(w) ==
    /\ w \in DOMAIN author
    /\ \A v \in held : v < w
    /\ \A i \in DOMAIN log : log[i].write < w
    /\ outcome[w] = "none"
    /\ held' = held \cup {w}
    /\ UNCHANGED <<author, refused, log, outcome>>

\* The server applies a write for the first time.
Apply(w) ==
    /\ w \in held \ refused
    /\ ~Applied(w)
    /\ \A v \in Earlier(w) : Applied(v)
    /\ log' = Append(log, [write |-> w, token |-> author[w]])
    /\ UNCHANGED <<author, refused, held, outcome>>

\* What a future that is told of w may end with, "none" if there is no future.
Verdict(w) ==
    {"none"} \cup (IF w \in refused THEN {"rejected"} ELSE {})
             \cup (IF Applied(w) THEN {"applied"} ELSE {})

\* The device lets go of a write.
Finish(w) ==
    /\ w \in held
    /\ Applied(w) \/ w \in refused
    /\ Earlier(w) = {}
    /\ outcome[w] = "none"
    /\ held' = held \ {w}
    /\ \E v \in Verdict(w) : outcome' = [outcome EXCEPT ![w] = v]
    /\ UNCHANGED <<author, refused, log>>

Next ==
    \/ Issue
    \/ \E w \in Write : Hold(w) \/ Apply(w) \/ Finish(w)

Spec == Init /\ [][Next]_vars
=============================================================================
