---------------------------- MODULE PointLedger ----------------------------
(***************************************************************************)
(* What the metrics outbox promises about the points of finalized reports, *)
(* with no run, batch, row order or clock in sight: who has custody of a   *)
(* point.  Somebody's memory lets go of it once it is durable or stored,   *)
(* and otherwise it is written off; a durable point is removed once it is  *)
(* stored, and otherwise it is written off as discarded.  Nobody stores a  *)
(* point that was never handed in, or whose last holder gave it up.        *)
(***************************************************************************)
CONSTANT Points

VARIABLES
    known,      \* points handed in
    held,       \* points only the memory of a process has
    durable,    \* points with a row that survives the process
    stored,     \* points the backend has
    discarded,  \* points the bounds on the durable ones took
    lost        \* points given up while only memory had them

vars == <<known, held, durable, stored, discarded, lost>>

Init ==
    /\ known = {} /\ held = {} /\ durable = {}
    /\ stored = {} /\ discarded = {} /\ lost = {}

\* A new point is handed in.
HandIn(p) ==
    /\ p \notin known
    /\ known' = known \cup {p}
    /\ held' = held \cup {p}
    /\ UNCHANGED <<durable, stored, discarded, lost>>

\* Held points become durable.
Save(S) ==
    /\ S \subseteq held
    /\ held' = held \ S
    /\ durable' = durable \cup S
    /\ UNCHANGED <<known, stored, discarded, lost>>

\* The backend gets points somebody still answers for, or gets them again.
Store(S) ==
    /\ S \subseteq held \cup durable \cup stored \cup discarded
    /\ stored' = stored \cup S
    /\ UNCHANGED <<known, held, durable, discarded, lost>>

\* Memory lets go of points the backend has.
Release(S) ==
    /\ S \subseteq held \cap stored
    /\ held' = held \ S
    /\ UNCHANGED <<known, durable, stored, discarded, lost>>

\* Memory gives points up; the last word from the backend was a refusal, but
\* part of them may be there.
GiveUp(S) ==
    /\ S \subseteq held
    /\ held' = held \ S
    /\ lost' = lost \cup S
    /\ \E T \in SUBSET S : stored' = stored \cup T
    /\ UNCHANGED <<known, durable, discarded>>

\* Durable points the backend has are removed.
Remove(S) ==
    /\ S \subseteq durable \cap stored
    /\ durable' = durable \ S
    /\ UNCHANGED <<known, held, stored, discarded, lost>>

\* The bounds take durable points.
Discard(S) ==
    /\ S \subseteq durable
    /\ durable' = durable \ S
    /\ discarded' = discarded \cup S
    /\ UNCHANGED <<known, held, stored, lost>>

Next ==
    \/ \E p \in Points : HandIn(p)
    \/ \E S \in SUBSET held : Save(S) \/ Release(S) \/ GiveUp(S)
    \/ \E S \in SUBSET durable : Remove(S) \/ Discard(S)
    \/ \E S \in SUBSET Points : Store(S)

Spec == Init /\ [][Next]_vars
=============================================================================
