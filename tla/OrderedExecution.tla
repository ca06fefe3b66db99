--------------------------- MODULE OrderedExecution ---------------------------
(***************************************************************************)
(* What VC4CL promises about the execution of commands, whichever command  *)
(* queues they were enqueued to: they start one at a time in the order in  *)
(* which they were accepted, a command starts only after everything it     *)
(* depends on completed, it is failed without being started if something   *)
(* it depends on failed, and a command that ended stays as it ended.       *)
(*                                                                         *)
(* No threads, locks, wait lists or event queue appear here; EventQueue is *)
(* shown to implement this specification.                                  *)
(***************************************************************************)
EXTENDS Sequences

CONSTANTS Commands, UserEvents

VARIABLES
    state,    \* how far each event has come
    deps,     \* what a command that has not ended depends on
    pending   \* the accepted commands that have not ended, oldest first

vars == <<state, deps, pending>>

Events == Commands \cup UserEvents

Outcomes == {"complete", "failed"}

TypeOK ==
    /\ state \in [Events -> {"fresh", "waiting", "running"} \cup Outcomes]
    /\ deps \in [Events -> SUBSET Events]
    /\ pending \in Seq(Commands)

Init ==
    /\ state = [e \in Events |-> IF e \in UserEvents THEN "waiting" ELSE "fresh"]
    /\ deps = [e \in Events |-> {}]
    /\ pending = <<>>

\* A command may only depend on user events and on commands accepted before it.
Accept(c, ds) ==
    /\ state[c] = "fresh"
    /\ \A d \in ds : state[d] # "fresh"
    /\ state' = [state EXCEPT ![c] = "waiting"]
    /\ deps' = [deps EXCEPT ![c] = ds]
    /\ pending' = Append(pending, c)

\* The application ends one of its user events.
Signal(u, outcome) ==
    /\ state[u] = "waiting"
    /\ state' = [state EXCEPT ![u] = outcome]
    /\ UNCHANGED <<deps, pending>>

Start(c) ==
    /\ pending # <<>> /\ c = Head(pending)
    /\ state[c] = "waiting"
    /\ \A d \in deps[c] : state[d] = "complete"
    /\ state' = [state EXCEPT ![c] = "running"]
    /\ UNCHANGED <<deps, pending>>

\* The oldest command ends: after it ran, or because a dependency failed.
End(c, outcome) ==
    /\ pending # <<>> /\ c = Head(pending)
    /\ \/ state[c] = "running"
       \/ /\ state[c] = "waiting" /\ outcome = "failed"
          /\ \E d \in deps[c] : state[d] = "failed"
    /\ state' = [state EXCEPT ![c] = outcome]
    /\ deps' = [deps EXCEPT ![c] = {}]
    /\ pending' = Tail(pending)

Execute == \E c \in Commands : Start(c) \/ \E outcome \in Outcomes : End(c, outcome)

Next ==
    \/ \E c \in Commands, ds \in SUBSET Events : Accept(c, ds)
    \/ \E u \in UserEvents, outcome \in Outcomes : Signal(u, outcome)
    \/ Execute

\* Whatever can be executed is executed.
Spec == Init /\ [][Next]_vars /\ WF_vars(Execute)
=============================================================================
