---------------------------- MODULE FeederControl ----------------------------
(***************************************************************************)
(* What the scan switches promise an operator, whatever the managers, the  *)
(* processes and the table do: a target has at most one feeder; it gets    *)
(* one when it is switched on, and keeps it until it ends by itself or is  *)
(* switched off; nothing is switched while something is being stopped; a   *)
(* stop comes to its end, and after "stop all" nothing is left.            *)
(* ScanControl implements this.                                            *)
(***************************************************************************)
CONSTANTS
    Targets,   \* the cameras and videos that can be scanned
    Feeders    \* the processes that may scan them

VARIABLES
    feeders,   \* each target's processes
    ocr,       \* does somebody read what the feeders collect?
    due,       \* the targets still to be switched off
    all        \* is everything being stopped?

vars == <<feeders, ocr, due, all>>

Init ==
    /\ feeders = [t \in Targets |-> {}]
    /\ ocr = FALSE
    /\ due = {}
    /\ all = FALSE

On == {t \in Targets : feeders[t] # {}}
Busy == due # {} \/ all

\* A target that is on stays as it is; another gets a process of its own.
SwitchOn(t) ==
    /\ ~Busy
    /\ \/ t \in On /\ UNCHANGED feeders
       \/ \E p \in Feeders :
             /\ t \notin On
             /\ \A u \in Targets : p \notin feeders[u]
             /\ feeders' = [feeders EXCEPT ![t] = {p}]
    /\ ocr' = TRUE
    /\ UNCHANGED <<due, all>>

OcrOn ==
    /\ ~Busy
    /\ ocr' = TRUE
    /\ UNCHANGED <<feeders, due, all>>

SwitchOff(t) ==
    /\ ~Busy
    /\ t \in On
    /\ due' = {t}
    /\ UNCHANGED <<feeders, ocr, all>>

\* Targets that are off already may be stopped with the others.
SwitchAllOff ==
    /\ ~Busy
    /\ due' \subseteq Targets /\ On \subseteq due'
    /\ all' = TRUE
    /\ UNCHANGED <<feeders, ocr>>

\* A feeder ends by itself.
Ends(t) ==
    /\ t \in On
    /\ feeders' = [feeders EXCEPT ![t] = {}]
    /\ UNCHANGED <<ocr, due, all>>

Stopped(t) ==
    /\ t \in due
    /\ due' = due \ {t}
    /\ feeders' = [feeders EXCEPT ![t] = {}]
    /\ UNCHANGED <<ocr, all>>

AllStopped ==
    /\ all /\ due = {} /\ On = {}
    /\ all' = FALSE
    /\ ocr' = FALSE
    /\ UNCHANGED <<feeders, due>>

Stops == AllStopped \/ \E t \in Targets : Stopped(t)

Next ==
    \/ OcrOn \/ SwitchAllOff \/ Stops
    \/ \E t \in Targets : SwitchOn(t) \/ SwitchOff(t) \/ Ends(t)

\* Every stop comes to its end.
Spec == Init /\ [][Next]_vars /\ WF_vars(Stops)

==============================================================================
