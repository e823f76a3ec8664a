----------------------------- MODULE LoginService -----------------------------
(***************************************************************************)
(* What the login path promises, without greeter, sockets or processes:    *)
(* one login is served at a time; PAM may have the user asked on the way;  *)
(* a session starts only for the login being served and only after PAM has *)
(* accepted it; and a success is announced only for a login PAM has        *)
(* accepted, before its session starts.                                    *)
(***************************************************************************)
EXTENDS Integers

CONSTANT MaxLogins

VARIABLES
  login,      \* the login being served, 0 for none
  stage,      \* how far it is
  announced   \* whether a success is on the greeter's screen or on its way

svars == <<login, stage, announced>>

Stages == {"idle", "checking", "asking", "accepted", "refused", "session", "over"}

ServiceInit == login = 0 /\ stage = "idle" /\ announced = FALSE

Goes(from, to) == stage = from /\ stage' = to

Begin == Goes("idle", "checking") /\ login' \in 1 .. MaxLogins
           /\ UNCHANGED announced

Ask    == Goes("checking", "asking")   /\ UNCHANGED <<login, announced>>
Resume == Goes("asking", "checking")   /\ UNCHANGED <<login, announced>>
Accept == Goes("checking", "accepted") /\ UNCHANGED <<login, announced>>
Refuse == Goes("checking", "refused")  /\ UNCHANGED <<login, announced>>
Open   == Goes("accepted", "session")  /\ UNCHANGED <<login, announced>>
Close  == Goes("session", "over")      /\ UNCHANGED <<login, announced>>

Announce == stage = "accepted" /\ announced' = TRUE /\ UNCHANGED <<login, stage>>

\* The screen is asked for another login or goes away.
Forget == announced' = FALSE /\ UNCHANGED <<login, stage>>

\* The login is over, at whatever stage: refused, cut short, or after its
\* session.
End == stage' = "idle" /\ login' = 0 /\ announced' \in {announced, FALSE}

ServiceNext == Begin \/ Ask \/ Resume \/ Accept \/ Refuse \/ Open \/ Close
                 \/ Announce \/ Forget \/ End

ServiceSpec == ServiceInit /\ [][ServiceNext]_svars
=============================================================================
