------------------------------- MODULE Session -------------------------------
(***************************************************************************)
(* What a backend's client promises about its sessions, whatever the        *)
(* operating system: a connect() tries for a session and either fails or    *)
(* opens it; a session that is open ends by being reported to the           *)
(* disconnected callback; no session begins before the last one has ended.  *)
(***************************************************************************)
CONSTANT Connects
VARIABLE phase

Phases == {"idle", "trying", "failed", "open", "reported"}

\* A session that is neither over nor still to come.
Alive(c) == phase[c] \in {"trying", "open"}

Init == phase = [c \in Connects |-> "idle"]

Become(c, p) == phase' = [phase EXCEPT ![c] = p]

Try(c) ==
    /\ phase[c] = "idle" /\ \A x \in Connects : ~Alive(x)
    /\ Become(c, "trying")

\* connect() refuses before it has tried anything.
Refuse(c) == phase[c] = "idle" /\ Become(c, "failed")

Fail(c) == phase[c] = "trying" /\ Become(c, "failed")

Open(c) == phase[c] = "trying" /\ Become(c, "open")

\* The end may be reported before connect() has returned.
Report(c) == Alive(c) /\ Become(c, "reported")

Next == \E c \in Connects : Try(c) \/ Refuse(c) \/ Fail(c) \/ Open(c) \/ Report(c)

Spec == Init /\ [][Next]_phase
=============================================================================
