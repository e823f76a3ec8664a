----------------------------- MODULE MCPamStack -----------------------------
(* Stacks as test-pam.py has them, for TLC. *)
EXTENDS PamStack

\* Helpers are alike.
Symmetry == Permutations(Procs)

Installed(phase, what) == [phase |-> phase, what |-> what, mark |-> "none"]

\* sddm, with the installer's TOTP line and the keyring; no other file exists.
MCOriginal ==
  [s \in Services |->
     IF s = "sddm"
     THEN <<Installed("auth", "unix"), Installed("auth", "totp"), Installed("auth", "other"),
            Installed("account", "other"), Installed("password", "other"),
            Installed("session", "other")>>
     ELSE <<>>]
=============================================================================
