---------------------------- MODULE MCUserSession ----------------------------
(***************************************************************************)
(* Every kind of session the daemon starts: a user's X11 session on the     *)
(* daemon's server or with its own, a user's wayland session, and the three *)
(* kinds of greeter.                                                       *)
(***************************************************************************)
EXTENDS UserSession

MCKinds == {k \in KindSet : k.type = "wayland" => (k.server <=> k.class = "greeter")}
=============================================================================
