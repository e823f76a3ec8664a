------------------------------ MODULE PamHandle ------------------------------
(***************************************************************************)
(* PamHandle.cpp: the calls to PAM, each with the verdict ok of the library *)
(* (its modules' codes are only logged).  A handle p is                     *)
(*   handle:  pam_start has made one, pam_end has not taken it             *)
(*   trusted: pam_authenticate and pam_acct_mgmt, or the change of an       *)
(*            expired password that it asked for, have succeeded            *)
(*   cred:    credentials are established                                   *)
(*   session: PAM has a session open                                        *)
(*   open:    m_open, which is not reset when the session is closed         *)
(***************************************************************************)
NoHandle == [handle |-> FALSE, trusted |-> FALSE, cred |-> FALSE, session |-> FALSE, open |-> FALSE]

Start(p, ok) == [p EXCEPT !.handle = ok]

\* acctMgmt: an expired password is to be changed now, and that must succeed.
AcctMgmt(verdict, changed) == verdict = "success" \/ (verdict = "expired" /\ changed)

Authenticate(p, ok) == [p EXCEPT !.trusted = ok]

\* setCred, which establishes or deletes.
SetCred(p, establish, ok) == IF ok THEN [p EXCEPT !.cred = establish] ELSE p

OpenSession(p, ok) == [p EXCEPT !.session = ok, !.open = ok]

CloseSession(p) == [p EXCEPT !.session = FALSE]

\* end, which ~PamHandle calls: without a handle there is nothing to end.
End(p) == [p EXCEPT !.handle = FALSE]
=============================================================================
