--------------------------- MODULE VirtualTerminal ---------------------------
(***************************************************************************)
(* VirtualTerminal.cpp: what jumpToVt does to the terminals before it asks  *)
(* the kernel to switch and waits.  A state v of the terminals is           *)
(*   active: the one shown                                                 *)
(*   mode[t]: "auto", or "process" when a process answers for switches     *)
(*   owner[t]: that process                                                *)
(*   kd[t]: "text" or "graphics"                                           *)
(* The kernel leaves a terminal at once in text mode, after its owner's     *)
(* answer (or without it, once the owner is dead) in process mode, and      *)
(* never in graphics mode without an owner.                                *)
(***************************************************************************)
EXTENDS Integers

CONSTANT Vts \* the terminals

\* handleVtSwitches: process p answers for terminal t from now on.
HandleVtSwitches(v, t, p) == [v EXCEPT !.mode[t] = "process", !.owner[t] = p]

\* fixVtMode, called with the descriptor of the active terminal.
FixVtMode(v, auto, p) ==
  IF v.mode[v.active] # "auto" \/ v.kd[v.active] = "text" THEN v
  ELSE IF auto THEN [v EXCEPT !.kd[v.active] = "text"]
               ELSE HandleVtSwitches(v, v.active, p)

\* Mutant of PrepareJump: the mode of the terminal left is not looked at.
PrepareJumpUnfixed(v, t, opened, auto, p) ==
  LET set == IF opened THEN [v EXCEPT !.kd[t] = "graphics"] ELSE v
  IN IF auto THEN set ELSE HandleVtSwitches(set, IF opened THEN t ELSE set.active, p)

\* jumpToVt by process p up to VT_ACTIVATE; opened says whether the device of
\* the terminal could be opened, otherwise the active one's stands in for it.
PrepareJump(v, t, opened, auto, p) ==
  LET fixed == IF opened THEN FixVtMode([v EXCEPT !.kd[t] = "graphics"], auto, p) ELSE v
  IN IF auto THEN fixed ELSE HandleVtSwitches(fixed, IF opened THEN t ELSE fixed.active, p)

\* Whether VT_WAITACTIVE returns, the owner being one that answers or is dead.
CanSwitch(v, t) ==
  v.active = t \/ v.mode[v.active] = "process" \/ v.kd[v.active] = "text"

\* The kernel's side of the switch: a dead owner's terminal is reset.
Switched(v, t, alive) ==
  LET a == v.active
  IN IF a = t \/ v.mode[a] = "auto" \/ v.owner[a] \in alive THEN [v EXCEPT !.active = t]
     ELSE [v EXCEPT !.active = t, !.mode[a] = "auto", !.owner[a] = "none", !.kd[a] = "text"]
=============================================================================
