---------------------------- MODULE PowerManager ----------------------------
(***************************************************************************)
(* PowerManager of the daemon with the services it asks: which power       *)
(* actions there are and which service carries one out.  The services      *)
(* answer every question anew, an inhibitor or a policy may change the     *)
(* answer between the greeter's learning of it and the press of a button.  *)
(***************************************************************************)
EXTENDS Integers, Sequences, SequencesExt, FiniteSetsExt

CONSTANTS
  PowerActions, \* the capabilities the model has
  Registered    \* which sets of services the system bus may have at the start

ASSUME PowerAssumption ==
  /\ PowerActions \subseteq {"PowerOff", "Reboot", "Suspend", "Hibernate", "HybridSleep"}
  /\ Registered \subseteq SUBSET {"login1", "ConsoleKit", "UPower"}

VARIABLE
  power \* [backends, carriedOut]: the back ends in order, how often an action was carried out

powerVars == <<power>>

\* The constructor asks the bus once, in this order.
PowerInit ==
  \E on \in Registered :
    power = [backends |-> SelectSeq(<<"login1", "ConsoleKit", "UPower">>, LAMBDA b : b \in on),
             carriedOut |-> [a \in PowerActions |-> 0]]

\* UPowerBackend::capabilities: halt and reboot are commands and always there.
UPowerCapabilities ==
  {(({"PowerOff", "Reboot"} \cup allowed) \cap PowerActions) : allowed \in SUBSET {"Suspend", "Hibernate"}}

\* SeatManagerBackend::capabilities: what Can... answers "yes" to.
SeatManagerCapabilities == SUBSET PowerActions

\* What a back end may answer.
Answers(b) == IF b = "UPower" THEN UPowerCapabilities ELSE SeatManagerCapabilities

\* PowerManager::capabilities for one round of answers.
Capabilities(answer) == UNION {answer[b] : b \in ToSet(power.backends)}

\* Mutant of CarryOut: the loop over the back ends is not left.
CarryOutByAll(a) ==
  \E answer \in [ToSet(power.backends) -> UNION {Answers(b) : b \in ToSet(power.backends)}] :
    /\ \A b \in DOMAIN answer : answer[b] \in Answers(b)
    /\ power' = [power EXCEPT !.carriedOut[a] = @ + Quantify(DOMAIN answer, LAMBDA b : a \in answer[b])]

\* powerOff, reboot, suspend, hibernate, hybridSleep of PowerManager outside of
\* test mode: the back ends are asked in order and the first that offers the
\* action carries it out.
CarryOut(a) ==
  LET Takes(n) == \* the back end n offers it and none before it does
        /\ \E offer \in Answers(power.backends[n]) : a \in offer
        /\ \A i \in 1 .. n - 1 : \E offer \in Answers(power.backends[i]) : a \notin offer
  IN \/ \E n \in DOMAIN power.backends :
          Takes(n) /\ power' = [power EXCEPT !.carriedOut[a] = @ + 1]
     \/ /\ \A n \in DOMAIN power.backends : \E offer \in Answers(power.backends[n]) : a \notin offer
        /\ UNCHANGED power
=============================================================================
